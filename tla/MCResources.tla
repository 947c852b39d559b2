----------------------------- MODULE MCResources ------------------------------
(* A small instance of Resources for TLC. *)
EXTENDS Resources, TLC

CONSTANTS c1, c2, c3, b1, b2, b3, f1

(* Bound: the constructor of strings (strcons, or array_fast_read from the *)
(* FILE it has) waits for its cell while nothing is torn or lost yet and   *)
(* there are no lisp arrays only.  A torn string does no more than a torn  *)
(* lisp array does, and comes beside one only.                             *)
Of(cells) == {type[c] : c \in cells}
StringWaits == \E i \in DOMAIN calls : calls[i].proc = "array" /\ calls[i].kind = "string"

StringsApart ==
    /\ StringWaits => torn \cup lost = {} /\ "lisp_array" \notin Of(Cells)
    /\ "string" \in Of(torn) => "lisp_array" \in Of(torn)

Interchangeable == Permutations({c1, c2, c3}) \cup Permutations({b1, b2, b3})
===============================================================================
