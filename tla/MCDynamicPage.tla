--------------------------- MODULE MCDynamicPage ---------------------------
(***************************************************************************)
(* DynamicPage for TLC: three levels of two entries, hence 8 pages. The    *)
(* boot loader maps a large page (4 and 5) and the kernel image (6, with   *)
(* an empty second section); the heap's page is 7 and callers map 0. The   *)
(* CPU uses all of them, one of the two in the large page.                 *)
(***************************************************************************)
EXTENDS DynamicPage

Boot(zero, one) == (0 :> zero) @@ (1 :> one)
To(table) == [addr |-> table, flags |-> {"P", "W"}]
Used(entry) == [entry EXCEPT !.flags = @ \cup {"A"}]

\* The boot loader has read through the large page.
MCFlatBootTables ==
    (100 :> Boot(Empty, Used(To(101))))
    @@ (101 :> Boot(Used([addr |-> 60, flags |-> {"P", "W", "H"}]), To(102)))
    @@ (102 :> Boot([addr |-> 80, flags |-> {"P"}], Empty))

MCFlatSections ==
    << [start |-> 12, end |-> 14, flags |-> {}], [start |-> 14, end |-> 14, flags |-> {"W"}] >>

MCLeafFlags == {{"W"}}
=============================================================================
