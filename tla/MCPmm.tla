------------------------------- MODULE MCPmm -------------------------------
(***************************************************************************)
(* Memory maps of two entries, of every type, size and alignment, apart,   *)
(* adjacent or overlapping, for frames of two bytes and a bitmap that      *)
(* needs up to two frames of its own.                                      *)
(***************************************************************************)
EXTENDS Pmm

CONSTANTS FirstBase, FirstLength, SecondBase, SecondLength

Entry(base, length, type) == [base |-> base, length |-> length, type |-> type]

MCMemoryMap ==
    {<<Entry(b1, l1, t1), Entry(b2, l2, t2)>> :
        b1 \in FirstBase, l1 \in FirstLength,
        b2 \in SecondBase, l2 \in SecondLength,
        t1 \in {"usable", "other"}, t2 \in {"usable", "other"}}
=============================================================================
