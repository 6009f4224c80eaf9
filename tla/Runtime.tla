------------------------------ MODULE Runtime ------------------------------
(***************************************************************************)
(* The production runtime: the scheduling core driven by the two tasks     *)
(* kernel_runtime_init creates.  The root task halts for ROOT_TICKS timer  *)
(* events and returns; the reaper reclaims published tasks for ever.       *)
(* Task and Managed are {root, reaper}, Reaper is {reaper}.                *)
(***************************************************************************)
EXTENDS Scheduler

CONSTANTS root, reaper,
          ROOT_TICKS       \* number of hlt instructions in the root entry

VARIABLES
    tick,       \* loop counter of kernel_runtime_root_entry
    stage,      \* next statement of the reaper's loop
    root_reaped_reported

runtimeVars == <<tick, stage, root_reaped_reported>>
allVars == <<vars, runtimeVars>>

\* The root task was created and queued first, then the reaper.
RuntimeInit ==
    /\ Init
    /\ runqueue = <<root, reaper>>
    /\ tick = 0
    /\ stage = "reap"
    /\ root_reaped_reported = FALSE

RootHlt ==
    /\ cpu = root
    /\ tick < ROOT_TICKS
    /\ Hlt
    /\ tick' = tick + 1
    /\ UNCHANGED <<stage, root_reaped_reported>>

RootReturn ==
    /\ cpu = root
    /\ tick = ROOT_TICKS
    /\ ExitEnter
    /\ UNCHANGED runtimeVars

\* Mutation: an off-by-one in the test for an empty ring.
ReaperReap_LeavesLast ==
    /\ cpu = reaper
    /\ pc = "run"
    /\ stage = "reap"
    /\ (Len(pending) > 1 /\ ReapEnter) \/ (Len(pending) <= 1 /\ UNCHANGED vars)
    /\ stage' = "report"
    /\ UNCHANGED <<tick, root_reaped_reported>>

\* lifecycle_reap_one returns 1 at once when nothing is published.
ReaperReap ==
    /\ cpu = reaper
    /\ pc = "run"
    /\ stage = "reap"
    /\ ReapEnter \/ (pending = <<>> /\ UNCHANGED vars)
    /\ stage' = "report"
    /\ UNCHANGED <<tick, root_reaped_reported>>

\* Mutation: the report looks at the run queue, not at the registries.
ReaperReport_NotQueued ==
    /\ cpu = reaper
    /\ pc = "run"
    /\ stage = "report"
    /\ root_reaped_reported' =
          (root_reaped_reported \/ root \notin Elems(runqueue))
    /\ stage' = "hlt"
    /\ UNCHANGED <<vars, tick>>

ReaperReport ==
    /\ cpu = reaper
    /\ pc = "run"
    /\ stage = "report"
    /\ root_reaped_reported' =
          (root_reaped_reported \/ (root \notin registered /\ Cardinality(members) = 1))
    /\ stage' = "hlt"
    /\ UNCHANGED <<vars, tick>>

ReaperHlt ==
    /\ cpu = reaper
    /\ stage = "hlt"
    /\ Hlt
    /\ stage' = "reap"
    /\ UNCHANGED <<tick, root_reaped_reported>>

CpuStep ==
    \/ RootHlt \/ RootReturn \/ ReaperReap \/ ReaperReport \/ ReaperHlt
    \/ (KernelStep /\ UNCHANGED runtimeVars)

RuntimeTimer == LapicTimer /\ UNCHANGED runtimeVars

RuntimeNext == CpuStep \/ RuntimeTimer
=============================================================================
