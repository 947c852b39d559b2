------------------------------- MODULE Equality -------------------------------
(***************************************************************************)
(* equal and c_sxhash, over the objects of a heap without cycles.  A       *)
(* flonum, and an element of a double array, is a number of halves and a   *)
(* sign, since -0.0 and 0.0 are equal and differ in memory; the numbers of *)
(* a long array are not negative.                                          *)
(***************************************************************************)
EXTENDS Naturals, Sequences

CONSTANTS
    NIL,            \* the empty list
    Object          \* the type and contents of each object but NIL

Objects == DOMAIN Object \cup {NIL}
TypeOf(a) == IF a = NIL THEN "nil" ELSE Object[a].type
DataOf(a) == Object[a].data

(* Arrays are equal element by element, those of doubles by ==, those of   *)
(* longs and strings by memcmp.                                            *)
Equal ==
    LET equal[p \in Objects \X Objects] ==
          LET a == p[1]
              b == p[2]
          IN  \/ a = b
              \/ /\ TypeOf(a) = TypeOf(b)
                 /\ CASE TypeOf(a) = "cons" -> /\ equal[<<Object[a].car, Object[b].car>>]
                                               /\ equal[<<Object[a].cdr, Object[b].cdr>>]
                      [] TypeOf(a) = "flonum" -> DataOf(a).half = DataOf(b).half
                      [] TypeOf(a) = "lisp_array" ->
                           /\ Len(DataOf(a)) = Len(DataOf(b))
                           /\ \A j \in DOMAIN DataOf(a) :
                                 equal[<<DataOf(a)[j], DataOf(b)[j]>>]
                      [] TypeOf(a) = "double_array" ->
                           /\ Len(DataOf(a)) = Len(DataOf(b))
                           /\ \A j \in DOMAIN DataOf(a) :
                                 DataOf(a)[j].half = DataOf(b)[j].half
                      [] TypeOf(a) \in {"string", "long_array"} -> DataOf(a) = DataOf(b)
                      [] OTHER -> FALSE
    IN  {p \in Objects \X Objects : equal[p]}

(* Exclusive or.  (A recursive function, since TLC computes a definition   *)
(* once that declares no RECURSIVE operator, and the hashes need no more.) *)
Xor == LET xor[a, b \in Nat] ==
             IF a = 0 \/ b = 0 THEN a + b
             ELSE (2 * xor[a \div 2, b \div 2]) + ((a + b) % 2)
       IN  xor

(* HASH_COMBINE, over all of a sequence *)
Combine(h1, h2, n) == Xor[h1 * 17 + 1, h2] % n
CombineAll(hash, hashes, n) ==
    LET combined[j \in 0..Len(hashes)] ==
          IF j = 0 THEN hash ELSE Combine(combined[j - 1], hashes[j], n)
    IN  combined[Len(hashes)]

(* (unsigned long) of a double that is not negative: the fraction goes. *)
Whole(double) == double.half \div 2

(* What the loop of c_sxhash over a list visits: its elements, and what    *)
(* the last cdr is.                                                        *)
Visited ==
    LET visited[a \in Objects] ==
          IF TypeOf(a) = "cons" THEN <<Object[a].car>> \o visited[Object[a].cdr]
          ELSE <<a>>
    IN  visited

(* c_sxhash, array_sxhash. *)
Sxhash(n) ==
    LET hash[a \in Objects] ==
          CASE TypeOf(a) = "cons" ->
                 CombineAll(hash[Object[a].car],
                            [k \in DOMAIN Visited[Object[a].cdr] |->
                               hash[Visited[Object[a].cdr][k]]], n)
            [] TypeOf(a) \in {"symbol", "string", "subr"} -> CombineAll(0, DataOf(a), n)
            [] TypeOf(a) = "flonum" -> Whole(DataOf(a)) % n
            [] TypeOf(a) = "long_array" ->
                 CombineAll(0, [j \in DOMAIN DataOf(a) |-> DataOf(a)[j] % n], n)
            [] TypeOf(a) = "double_array" ->
                 CombineAll(0, [j \in DOMAIN DataOf(a) |-> Whole(DataOf(a)[j]) % n], n)
            [] TypeOf(a) = "lisp_array" ->
                 CombineAll(0, [j \in DOMAIN DataOf(a) |-> hash[DataOf(a)[j]]], n)
            [] OTHER -> 0
    IN  hash
===============================================================================
