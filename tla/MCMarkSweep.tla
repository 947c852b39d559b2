----------------------------- MODULE MCMarkSweep -----------------------------
(***************************************************************************)
(* Small instances of MarkSweep for TLC: two cells of two slots in two     *)
(* heaps, three cells of one slot in two heaps, or three cells of two      *)
(* slots in one heap.                                                      *)
(***************************************************************************)
EXTENDS MarkSweep, TLC

CONSTANTS c1, c2, c3

TwoCells == {c1, c3}
ThreeCells == {c1, c2, c3}
OneHeap == [c \in Cells |-> 1]
TwoHeaps == [c \in Cells |-> IF c = c3 THEN 2 ELSE 1]

Interchangeable == Permutations({c1, c2})
AllInterchangeable == Permutations({c1, c2, c3})
=============================================================================
