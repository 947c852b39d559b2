------------------------- MODULE MCAssertDeadHistory -------------------------
(***************************************************************************)
(* Small instances of AssertDeadHistory for TLC.                           *)
(***************************************************************************)
EXTENDS AssertDeadHistory

CONSTANTS c1, c2, c3, a, b, A, B

Interchangeable == Permutations({c1, c2, c3})
=============================================================================
