------------------------------ MODULE HashTable -------------------------------
(***************************************************************************)
(* hset and href: association lists in the elements of a lisp array, found *)
(* by c_sxhash, searched with equal.  A pair is shared by all the lists it *)
(* is in, and setcdr changes it for all of them.                           *)
(***************************************************************************)
EXTENDS Calls, Equality, FiniteSets

CONSTANTS
    Keys,           \* the objects used as keys, which may be equal
    Dim,            \* the size of the table
    Values,
    None            \* NIL: no such key

VARIABLES
    pairs,          \* the pairs made: key and value
    table,          \* the list of pairs at each index
    dict,           \* history: the value last set for each key
    late            \* history: the indices stored back stale

tableVars == <<pairs, table, dict, late>>

(* The pairs of keys that are equal, and href_index. *)
Same == {p \in Equal : p[1] \in Keys /\ p[2] \in Keys}
Index == [k \in Keys |-> Sxhash(Dim)[k]]
Indices == {Index[k] : k \in Keys}

HashInit ==
    /\ pairs = <<>> /\ table = [i \in Indices |-> <<>>]
    /\ dict = [k \in Keys |-> None] /\ late = {}

(* equal is an equivalence on the keys, and keys that it takes for one     *)
(* hash to one index, whatever they are made of: lists by their elements   *)
(* and last cdr, arrays of all kinds, numbers (equal, c_sxhash).           *)
EqualKeys ==
    /\ \A k \in Keys : <<k, k>> \in Same
    /\ \A j, k \in Keys : <<j, k>> \in Same => <<k, j>> \in Same
    /\ \A i, j, k \in Keys : <<i, j>> \in Same /\ <<j, k>> \in Same => <<i, k>> \in Same
    /\ \A j, k \in Keys : <<j, k>> \in Same => Index[j] = Index[k]

(* Faulty: assq, which knows a key by its address. *)
AssocByAddress(key, list) ==
    LET found == {i \in DOMAIN list : pairs[list[i]].key = key}
    IN  IF found = {} THEN 0
        ELSE list[CHOOSE i \in found : \A j \in found : i <= j]

(* assoc: the first pair of the list with an equal key, 0 for none. *)
Assoc(key, list) ==
    LET found == {i \in DOMAIN list : <<pairs[list[i]].key, key>> \in Same}
    IN  IF found = {} THEN 0
        ELSE list[CHOOSE i \in found : \A j \in found : i <= j]

(* cdr(assoc(...)), and the cdr of NIL is NIL. *)
Href(key) == LET p == Assoc(key, table[Index[key]])
             IN  IF p = 0 THEN None ELSE pairs[p].value

IsSet(key, value) == [k \in Keys |-> IF <<k, key>> \in Same THEN value ELSE dict[k]]

(* Faulty: an old pair is shadowed by a new one, and not changed. *)
HsetShadows(key, value) ==
    LET l == table[Index[key]] IN
    /\ Begin([proc |-> "hset", at |-> "pair", gc |-> FALSE,
              key |-> key, value |-> value, l |-> l])
    /\ UNCHANGED tableVars

(* The list is read and searched; an old pair gets the value at once, for  *)
(* a new one a cell is allocated.                                          *)
Hset(key, value) ==
    LET l == table[Index[key]]
        p == Assoc(key, l)
    IN  \/ /\ Evaluating /\ p # 0
           /\ pairs' = [pairs EXCEPT ![p].value = value]
           /\ dict' = IsSet(key, value)
           /\ UNCHANGED <<calls, table, late>>
        \/ /\ p = 0
           /\ Begin([proc |-> "hset", at |-> "pair", gc |-> FALSE,
                     key |-> key, value |-> value, l |-> l])
           /\ UNCHANGED tableVars

(* cell = cons(key, value) *)
MakePair ==
    /\ Allocates("hset", "pair")
    /\ pairs' = Append(pairs, [key |-> Innermost.key, value |-> Innermost.value])
    /\ Continue([proc |-> "hset", at |-> "list", gc |-> FALSE,
                 cell |-> Len(pairs'), l |-> Innermost.l])
    /\ UNCHANGED <<table, dict, late>>

(* data[index] = cons(cell, l) *)
StoreList ==
    /\ Allocates("hset", "list")
    /\ LET pair == pairs[Innermost.cell]
           i == Index[pair.key]
       IN  /\ table' = [table EXCEPT ![i] = <<Innermost.cell>> \o Innermost.l]
           /\ late' = IF table[i] = Innermost.l THEN late ELSE late \cup {i}
           /\ dict' = IsSet(pair.key, pair.value)
    /\ Finish
    /\ UNCHANGED pairs

HashNext == \/ \E key \in Keys, value \in Values : Hset(key, value)
            \/ MakePair \/ StoreList

-----------------------------------------------------------------------------
(* href returns the value last set for any equal key, whatever errors and  *)
(* collections came in the middle of hset and whatever the after-gc form   *)
(* set meanwhile, unless that overtook a call of hset at the same index.   *)
LastSet == \A k \in Keys : Index[k] \notin late => Href(k) = dict[k]

(* No list has two equal keys, so that no pair is shadowed; this holds     *)
(* where a call was overtaken too.                                         *)
NoShadows ==
    \A i \in Indices : \A m, n \in DOMAIN table[i] :
       <<pairs[table[i][m]].key, pairs[table[i][n]].key>> \in Same => m = n
===============================================================================
