------------------------------- MODULE MCTables -------------------------------
(***************************************************************************)
(* A small instance of Tables for TLC.  Two names share a bucket.  The     *)
(* keys are two equal lists, which differ in memory (the one has -0.0      *)
(* where the other has 0.0), and a number that is put at the same index.   *)
(***************************************************************************)
EXTENDS Tables, TLC

CONSTANTS n1, n2, n3, v1, v2

NameBucket == [n \in Names |-> IF n = n3 THEN 1 ELSE 0]

HeapOfKeys ==
    << [type |-> "cons", car |-> 4, cdr |-> 6],
       [type |-> "cons", car |-> 5, cdr |-> 7],
       [type |-> "string", data |-> <<98>>],
       [type |-> "flonum", data |-> [half |-> 0, minus |-> FALSE]],
       [type |-> "flonum", data |-> [half |-> 0, minus |-> TRUE]],
       [type |-> "cons", car |-> 8, cdr |-> 3],
       [type |-> "cons", car |-> 9, cdr |-> 10],
       [type |-> "lisp_array", data |-> <<4, 11>>],
       [type |-> "lisp_array", data |-> <<5, 12>>],
       [type |-> "string", data |-> <<98>>],
       [type |-> "double_array", data |-> <<[half |-> 3, minus |-> FALSE], [half |-> 0, minus |-> TRUE]>>],
       [type |-> "double_array", data |-> <<[half |-> 3, minus |-> FALSE], [half |-> 0, minus |-> FALSE]>>] >>

(* What TablesProof takes as a hypothesis, for these keys. *)
ASSUME KeysAgree == EqualKeys

Interchangeable == Permutations({n1, n2}) \cup Permutations({v1, v2})
===============================================================================
