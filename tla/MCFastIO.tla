------------------------------- MODULE MCFastIO -------------------------------
(* A small instance of FastIO for TLC: three symbols, the last of which    *)
(* has a name too long to print, lists that share them, one of each kind   *)
(* of end, and one with an object that cannot be printed.                  *)
EXTENDS FastIO

HeapToPrint ==
    << [type |-> "symbol"], [type |-> "symbol"], [type |-> "symbol"],
       [type |-> "flonum"], [type |-> "closure"],
       [type |-> "cons", car |-> 1, cdr |-> 7],
       [type |-> "cons", car |-> 2, cdr |-> 8],
       [type |-> "cons", car |-> 1, cdr |-> 0],
       [type |-> "cons", car |-> 2, cdr |-> 10],
       [type |-> "cons", car |-> 12, cdr |-> 4],
       [type |-> "cons", car |-> 3, cdr |-> 8],
       [type |-> "lisp_array", data |-> <<8, 0, 2>>],
       [type |-> "cons", car |-> 2, cdr |-> 14],
       [type |-> "cons", car |-> 5, cdr |-> 0] >>
===============================================================================
