-------------------------- MODULE MCAssertDeadLoop ---------------------------
(***************************************************************************)
(* The program of AssertDeadLoop on six cells.                             *)
(***************************************************************************)
EXTENDS AssertDeadLoop

CONSTANTS c1, c2, c3, c4, c5, c6
=============================================================================
