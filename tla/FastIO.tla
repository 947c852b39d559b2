-------------------------------- MODULE FastIO --------------------------------
(***************************************************************************)
(* fast_print and fast_read: objects as a stream of opcodes, in which a    *)
(* symbol has its name the first time only and an index of a table from    *)
(* then on.  The table of the printing side is a hash table, which hset    *)
(* extends by what it read of it before its allocations, and the index for *)
(* the next symbol; the reading side builds its own from the stream.       *)
(*                                                                         *)
(* The after-gc form may print to the same table in the middle of a print, *)
(* and errors leave prints, and the table, half done.  (A hash table of    *)
(* one list stands for the table; arrays of numbers are left out, whose    *)
(* printed length is in bytes and is read back as a number of elements.)   *)
(***************************************************************************)
EXTENDS Calls, FiniteSets, SequencesExt

CONSTANTS
    NIL,            \* the empty list
    Object,         \* the type and contents of each object but NIL
    LongNames,      \* the symbols with names of TKBUFFERN characters or more
    MaxPrints       \* bound: objects printed

Objects == DOMAIN Object \cup {NIL}
TypeOf(a) == IF a = NIL THEN "nil" ELSE Object[a].type

Parts(a) == CASE TypeOf(a) = "cons" -> {Object[a].car, Object[a].cdr}
              [] TypeOf(a) = "lisp_array" -> Range(Object[a].data)
              [] OTHER -> {}

(* The objects have no cycle, of which fast_print would find no end, and   *)
(* no type is one of the opcodes that stand for none.                      *)
ASSUME ObjectAssumption ==
    /\ IsFiniteSet(Objects)
    /\ \A a \in Objects :
          /\ TypeOf(a) \notin {"FO_store", "FO_fetch", "FO_list", "FO_listd", "tc_symbol"}
          /\ Parts(a) \subseteq Objects
          /\ TypeOf(a) = "lisp_array" => Object[a].data \in Seq(Objects)
ASSUME NoCycles ==
    \A S \in SUBSET Objects : S # {} => \E a \in S : Parts(a) \cap S = {}
ASSUME PrintsAssumption == MaxPrints \in Nat

VARIABLES
    file,           \* the stream
    ht,             \* the symbols that have an index, latest first
    next,           \* the index of the next symbol
    prints,         \* the number of prints begun
    printed,        \* history: the objects printed
    whole,          \* history: no print was cut short, or into by another
    cut,            \* history: the symbols that have an index and no name
    doubtful        \* history: the least index two prints may have taken

stream == <<file, ht, next>>
history == <<prints, printed, whole, cut, doubtful>>
vars == <<calls, stream, history>>

Least(S) == CHOOSE i \in S : \A j \in S : i <= j

Init == /\ calls = <<>> /\ file = <<>> /\ ht = <<>> /\ next = 0
        /\ prints = 0 /\ printed = <<>> /\ whole = TRUE
        /\ cut = {} /\ doubtful = MaxPrints * Cardinality(Objects)

-----------------------------------------------------------------------------
(* The conses of a list, up to what is none. *)
Spine == LET spine[a \in Objects] ==
               IF TypeOf(a) = "cons" THEN <<a>> \o spine[Object[a].cdr] ELSE <<>>
         IN  spine
AfterSpine(a) == Object[Last(Spine[a])].cdr

(* Faulty: every longer list is written as if it ended in NIL. *)
ListOpProper(len, tail) ==
    IF len = 1 THEN [op |-> "cons", len |-> 1] ELSE [op |-> "FO_list", len |-> len]

(* The opcode of a list: only FO_list is without the last cdr. *)
ListOp(len, tail) ==
    IF len = 1 THEN [op |-> "cons", len |-> 1]
    ELSE IF tail = NIL THEN [op |-> "FO_list", len |-> len]
    ELSE [op |-> "FO_listd", len |-> len]

(* array_fast_print, but for the elements. *)
ArrayOp(a) == [op |-> "lisp_array", len |-> Len(Object[a].data)]

(* What fast_print goes through, in its order: opcodes with their lengths, *)
(* and the objects that have no parts.                                     *)
Items ==
    LET items[a \in Objects] ==
          LET each(objs) == FlattenSeq([k \in DOMAIN objs |-> items[objs[k]]])
              cars == [k \in DOMAIN Spine[a] |-> Object[Spine[a][k]].car]
              op == ListOp(Len(cars), AfterSpine(a))
          IN  CASE TypeOf(a) = "cons" ->
                     <<op>> \o each(IF op.op = "FO_list" THEN cars ELSE Append(cars, AfterSpine(a)))
                [] TypeOf(a) = "lisp_array" ->
                     <<ArrayOp(a)>> \o each(Object[a].data)
                [] OTHER -> <<[op |-> TypeOf(a), obj |-> a]>>
    IN  items

(* What the object is, however it is printed. *)
Canon ==
    LET canon[a \in Objects] ==
          CASE TypeOf(a) = "cons" ->
                 <<[op |-> "cons", len |-> 1]>> \o canon[Object[a].car] \o canon[Object[a].cdr]
            [] TypeOf(a) = "lisp_array" ->
                 <<ArrayOp(a)>> \o FlattenSeq([k \in DOMAIN Object[a].data |-> canon[Object[a].data[k]]])
            [] OTHER -> <<[op |-> TypeOf(a), obj |-> a]>>
    IN  canon

-----------------------------------------------------------------------------
(* fast_print_table. *)
Entry(sym) == {i \in DOMAIN ht : ht[i].sym = sym}
IsNew(item) == item.op = "symbol" /\ Entry(item.obj) = {}
Token(item) == IF item.op = "symbol"
               THEN [op |-> "FO_fetch", index |-> ht[Least(Entry(item.obj))].index,
                     sym |-> item.obj]
               ELSE item

(* Prints the items up to the first that has no index yet, for which hset  *)
(* allocates, or that cannot be printed, which is an error.                *)
PrintOn(base, obj, before, items) ==
    LET stops == {i \in DOMAIN items : IsNew(items[i]) \/ items[i].op = "closure"}
        n == IF stops = {} THEN Len(items) + 1 ELSE Least(stops)
        ends == n > Len(items)
        fails == ~ends /\ items[n].op = "closure"
    IN  /\ file' = file \o before \o [i \in 1..(n - 1) |-> Token(items[i])]
        /\ calls' = IF ends THEN base
                    ELSE IF fails THEN <<>>
                    ELSE Append(base, [proc |-> "fast_print", at |-> "hset", gc |-> FALSE,
                                       obj |-> obj, sym |-> items[n].obj, index |-> next',
                                       l |-> ht, rest |-> SubSeq(items, n + 1, Len(items))])
        /\ whole' = (whole /\ ~fails /\ \A j \in DOMAIN base : base[j].proc # "fast_print")
        /\ printed' = IF ~whole' THEN <<>> ELSE IF ends THEN Append(printed, obj) ELSE printed

Under == {calls[i] : i \in {j \in DOMAIN calls : calls[j].proc = "fast_print"}}

FastPrint(obj) ==
    /\ Evaluating /\ Len(calls) < MaxDepth /\ prints < MaxPrints
    /\ prints' = prints + 1
    /\ UNCHANGED <<ht, next, cut>>
    /\ doubtful' = Least({doubtful} \cup {c.index : c \in Under})
    /\ PrintOn(calls, obj, <<>>, Items[obj])

(* hset(ht, obj, index), and plus(index, 1), which allocates as well when  *)
(* the small numbers are used up.                                          *)
Hset ==
    /\ Allocates("fast_print", "hset")
    /\ ht' = <<[sym |-> Innermost.sym, index |-> Innermost.index]>> \o Innermost.l
    /\ Continue([Innermost EXCEPT !.at = "plus", !.gc = FALSE])
    /\ UNCHANGED <<file, next, history>>

(* Faulty: the index is not moved on. *)
StoreStays ==
    /\ Allocates("fast_print", "plus")
    /\ UNCHANGED <<ht, next, prints, cut, doubtful>>
    /\ Innermost.sym \notin LongNames
    /\ PrintOn(Outer, Innermost.obj,
               <<[op |-> "FO_store", index |-> Innermost.index],
                 [op |-> "symbol", obj |-> Innermost.sym]>>, Innermost.rest)

(* What is left of a symbol whose name is too long: fast_print puts the    *)
(* opcode before it looks at the length, and neither length nor name.      *)
LoneSymbol == [op |-> "tc_symbol"]

(* FO_store, the index, and then the symbol, unless its name is too long.  *)
Store ==
    /\ Allocates("fast_print", "plus")
    /\ next' = Innermost.index + 1
    /\ UNCHANGED <<ht, prints, doubtful>>
    /\ \/ /\ Innermost.sym \notin LongNames
          /\ PrintOn(Outer, Innermost.obj,
                     <<[op |-> "FO_store", index |-> Innermost.index],
                       [op |-> "symbol", obj |-> Innermost.sym]>>, Innermost.rest)
          /\ UNCHANGED cut
       \/ /\ Innermost.sym \in LongNames
          /\ file' = file \o <<[op |-> "FO_store", index |-> Innermost.index], LoneSymbol>>
          /\ calls' = <<>>
          /\ whole' = FALSE /\ printed' = <<>> /\ cut' = cut \cup {Innermost.sym}

GcForNewcell == Collect /\ UNCHANGED <<stream, history>>
FormEndsHere == FormEnds /\ UNCHANGED <<stream, history>>

Leave ==
    /\ Unwind
    /\ LET left == {calls[i] : i \in {j \in DOMAIN calls :
                        j > Len(calls') /\ calls[j].proc = "fast_print"}}
       IN  /\ whole' = (whole /\ left = {})
           /\ printed' = IF whole' THEN printed ELSE <<>>
           /\ cut' = cut \cup {c.sym : c \in {d \in left : d.at = "plus"}}
    /\ UNCHANGED <<stream, prints, doubtful>>

Next == \/ \E obj \in Objects : FastPrint(obj)
        \/ Hset
        \/ Store
        \/ GcForNewcell
        \/ FormEndsHere
        \/ Leave

Spec == Init /\ [][Next]_vars

-----------------------------------------------------------------------------
(* What the table of the reading side has for the index of a FO_fetch at p *)
(* of the stream: what the last FO_store before it is followed by.         *)
Fetched(p) ==
    LET stores == {q \in 1..(p - 1) : file[q].op = "FO_store" /\ file[q].index = file[p].index}
    IN  IF stores = {} THEN [op |-> "nil", obj |-> NIL]
        ELSE LET q == CHOOSE q \in stores : \A r \in stores : r <= q
             IN  IF q < Len(file) THEN file[q + 1] ELSE [op |-> "nil", obj |-> NIL]

(* fast_read at each place of the stream: the object and where it ends.    *)
(* At a lone opcode it takes what follows for a length and a name, and     *)
(* loses step: what it makes of the rest is left open.                     *)
FastRead ==
    LET read[p \in 1..(Len(file) + 1)] ==
          LET elements(head) ==
                LET upto[k \in 0..file[p].len] ==
                      IF k = 0 THEN [is |-> <<>>, end |-> p + 1]
                      ELSE LET e == read[upto[k - 1].end]
                           IN  [is |-> upto[k - 1].is \o head \o e.is, end |-> e.end]
                IN  upto[file[p].len]
              conses == elements(<<[op |-> "cons", len |-> 1]>>)
          IN  IF p > Len(file) THEN [is |-> <<>>, end |-> p]
              ELSE CASE file[p].op = "FO_list" ->
                          [conses EXCEPT !.is = @ \o <<[op |-> "nil", obj |-> NIL]>>]
                     [] file[p].op \in {"cons", "FO_listd"} ->
                          LET d == read[conses.end]
                          IN  [is |-> conses.is \o d.is, end |-> d.end]
                     [] file[p].op = "lisp_array" ->
                          [elements(<<>>) EXCEPT !.is = <<file[p]>> \o @]
                     [] file[p].op = "FO_store" -> read[p + 1]
                     [] file[p].op = "tc_symbol" -> [is |-> <<>>, end |-> Len(file) + 1]
                     [] file[p].op = "FO_fetch" -> [is |-> <<Fetched(p)>>, end |-> p + 1]
                     [] OTHER -> [is |-> <<file[p]>>, end |-> p + 1]
    IN  read

(* What was printed is read back, object by object, to the end of the      *)
(* stream, as long as no print was cut short by an error or a *throw, or   *)
(* into by a print of the after-gc form (fast_print, fast_read).           *)
RoundTrip ==
    (whole /\ Under = {}) =>
        LET upto[k \in 0..Len(printed)] ==
              IF k = 0 THEN [is |-> <<>>, end |-> 1] ELSE FastRead[upto[k - 1].end]
        IN  /\ \A k \in DOMAIN printed : upto[k].is = Canon[printed[k]]
            /\ upto[Len(printed)].end = Len(file) + 1

(* The reader is still in step at p: no lone opcode is before it. *)
InStep(p) == \A q \in 1..(p - 1) : file[q] # LoneSymbol

(* Every fetch that the reader comes to in step stands for the symbol it   *)
(* was printed for, after errors and between prints of the form as well,   *)
(* but for a symbol that an error left with an index and no name, and the  *)
(* indices from one on that two prints had at a time (fast_print_table,    *)
(* fast_read).                                                             *)
FetchesMeant ==
    \A p \in DOMAIN file :
       /\ file[p].op = "FO_fetch" /\ InStep(p)
       /\ file[p].sym \notin cut /\ file[p].index < doubtful
       => Fetched(p) = [op |-> "symbol", obj |-> file[p].sym]
===============================================================================
