---------------------------- MODULE MCScheduler ----------------------------
(* Small instances of the scheduling core for TLC.                         *)
EXTENDS SchedulerInvariant

CONSTANTS a, b, c, q

MCTask == {a, b, c}
MCQueue == {q}
MCManaged == {b, c}
MCReaper == {a, b}
=============================================================================
