----------------------------- MODULE TablesProof ------------------------------
(***************************************************************************)
(* The two tables of Tables, for any names, keys, hashes, sizes of the     *)
(* tables and depth of re-entries.                                         *)
(*                                                                         *)
(* None of the properties is inductive.  What a table is made of next is   *)
(* in the C variables of the calls under way: lists read some time ago, of *)
(* which it is known that the name, or the key, is not in them, and the    *)
(* symbol or pair made for it.  Such a list may replace a longer one, so   *)
(* that entries can be lost, but never be in a list twice or in another's. *)
(*                                                                         *)
(* That equal is an equivalence and that equal keys have one index         *)
(* (EqualKeys, true of a run's keys) is assumed here: equal and c_sxhash   *)
(* are recursive.                                                          *)
(***************************************************************************)
EXTENDS Tables, Functions, FiniteSetTheorems, SequenceTheorems, TLAPS

-----------------------------------------------------------------------------
(* The stack of calls: which calls there are after one is entered or left, *)
(* or the after-gc form entered in the middle of one.                      *)

Stack == \E S : calls \in Seq(S)

LEMMA Entered ==
    ASSUME NEW S, NEW s \in Seq(S), NEW c
    PROVE  /\ \E T : Append(s, c) \in Seq(T)
           /\ Range(Append(s, c)) = Range(s) \cup {c}
<1>1. s \in Seq(S \cup {c})
  <2>1. \A i \in 1..Len(s) : s[i] \in S \cup {c}
    OBVIOUS
  <2> QED BY <2>1
<1>2. /\ Append(s, c) \in Seq(S \cup {c})
      /\ Len(Append(s, c)) = Len(s) + 1
      /\ \A i \in 1..Len(s) : Append(s, c)[i] = s[i]
      /\ Append(s, c)[Len(s) + 1] = c
  BY <1>1, AppendProperties
<1>3. DOMAIN Append(s, c) = 1..(Len(s) + 1) /\ DOMAIN s = 1..Len(s) /\ Len(s) \in Nat
  BY <1>1, <1>2
<1>4. Range(Append(s, c)) = Range(s) \cup {c}
  <2>1. \A i \in DOMAIN Append(s, c) : i = Len(s) + 1 \/ i \in DOMAIN s
    BY <1>3
  <2>2. Len(s) + 1 \in DOMAIN Append(s, c) /\ \A i \in DOMAIN s : i \in DOMAIN Append(s, c)
    BY <1>3
  <2> QED BY <1>2, <1>3, <2>1, <2>2 DEF Range
<1> QED BY <1>2, <1>4

LEMMA TwoMore ==
    ASSUME NEW S, NEW s \in Seq(S), NEW c, NEW d
    PROVE  s \o <<c, d>> = Append(Append(s, c), d)
<1>1. s \in Seq(S \cup {c, d})
  <2>1. \A i \in 1..Len(s) : s[i] \in S \cup {c, d}
    OBVIOUS
  <2> QED BY <2>1
<1> QED BY <1>1

LEMMA EnteredTwo ==
    ASSUME NEW S, NEW s \in Seq(S), NEW c, NEW d
    PROVE  /\ \E T : s \o <<c, d>> \in Seq(T)
           /\ Range(s \o <<c, d>>) = Range(s) \cup {c, d}
<1>1. PICK T : Append(s, c) \in Seq(T)
  BY Entered
<1>2. s \o <<c, d>> = Append(Append(s, c), d)
  BY TwoMore
<1>3. Range(Append(s, c)) = Range(s) \cup {c}
  BY Entered
<1>4. /\ \E U : Append(Append(s, c), d) \in Seq(U)
      /\ Range(Append(Append(s, c), d)) = Range(Append(s, c)) \cup {d}
  BY <1>1, Entered
<1> QED BY <1>2, <1>3, <1>4

LEMMA Left ==
    ASSUME NEW S, NEW s \in Seq(S), NEW n \in 0..Len(s)
    PROVE  SubSeq(s, 1, n) \in Seq(S) /\ Range(SubSeq(s, 1, n)) \subseteq Range(s)
<1>1. \A i \in 1..n : s[i] \in S
  OBVIOUS
<1>2. /\ SubSeq(s, 1, n) \in Seq(S) /\ Len(SubSeq(s, 1, n)) = n
      /\ \A i \in 1..n : SubSeq(s, 1, n)[i] = s[i]
  BY <1>1, SubSeqProperties
<1>3. DOMAIN SubSeq(s, 1, n) = 1..n /\ 1..n \subseteq DOMAIN s
  BY <1>2
<1> QED BY <1>2, <1>3 DEF Range

LEMMA Inside ==
    ASSUME Stack, ~Evaluating
    PROVE  /\ calls # <<>> /\ Innermost = calls[Len(calls)]
           /\ Innermost \in Range(calls)
           /\ \E S : Outer \in Seq(S)
           /\ Range(Outer) \subseteq Range(calls)
<1>1. PICK S : calls \in Seq(S)
  BY DEF Stack
<1>2. calls # <<>> /\ Innermost = calls[Len(calls)]
  BY DEF Evaluating, Innermost
<1>3. Len(calls) \in DOMAIN calls /\ Len(calls) - 1 \in 0..Len(calls)
  BY <1>1, <1>2
<1>4. Innermost \in Range(calls)
  BY <1>2, <1>3 DEF Range
<1>5. Outer \in Seq(S) /\ Range(Outer) \subseteq Range(calls)
  BY <1>1, <1>3, Left DEF Outer
<1> QED BY <1>2, <1>4, <1>5

LEMMA Begins ==
    ASSUME Stack, NEW c, Begin(c)
    PROVE  Stack' /\ Range(calls)' = Range(calls) \cup {c}
<1>1. PICK S : calls \in Seq(S)
  BY DEF Stack
<1> QED BY <1>1, Entered DEF Begin, Stack

LEMMA Continues ==
    ASSUME Stack, ~Evaluating, NEW c, Continue(c)
    PROVE  Stack' /\ Range(calls)' \subseteq Range(calls) \cup {c}
<1>1. PICK S : Outer \in Seq(S)
  BY Inside
<1>2. (\E T : Append(Outer, c) \in Seq(T)) /\ Range(Append(Outer, c)) = Range(Outer) \cup {c}
  BY <1>1, Entered
<1>3. Range(calls)' = Range(Append(Outer, c))
  BY DEF Continue, Range
<1> QED BY <1>2, <1>3, Inside DEF Continue, Stack

LEMMA Finishes ==
    ASSUME Stack, ~Evaluating, Finish
    PROVE  Stack' /\ Range(calls)' \subseteq Range(calls)
<1>1. Range(calls)' = Range(Outer)
  BY DEF Finish, Range
<1> QED BY <1>1, Inside DEF Finish, Stack

LEMMA Reenters ==
    ASSUME Stack, Collect \/ FormEnds \/ Unwind
    PROVE  /\ Stack'
           /\ \/ Range(calls)' \subseteq Range(calls)
              \/ /\ ~Evaluating
                 /\ Range(calls)' \subseteq
                       Range(calls) \cup {[Innermost EXCEPT !.gc = TRUE], AfterGc}
<1>1. PICK S : calls \in Seq(S)
  BY DEF Stack
<1>2. CASE Collect
  <2>1. ~Evaluating /\ calls' = Outer \o <<[Innermost EXCEPT !.gc = TRUE], AfterGc>>
    BY <1>2 DEF Collect
  <2>2. PICK T : Outer \in Seq(T)
    BY <2>1, Inside
  <2>3. Range(calls)' = Range(Outer \o <<[Innermost EXCEPT !.gc = TRUE], AfterGc>>)
    BY <2>1 DEF Range
  <2>4. /\ \E U : Outer \o <<[Innermost EXCEPT !.gc = TRUE], AfterGc>> \in Seq(U)
        /\ Range(calls)' = Range(Outer) \cup {[Innermost EXCEPT !.gc = TRUE], AfterGc}
    <3>1. \A c, d : /\ \E U : Outer \o <<c, d>> \in Seq(U)
                    /\ Range(Outer \o <<c, d>>) = Range(Outer) \cup {c, d}
      BY <2>2, EnteredTwo
    <3> QED BY <2>3, <3>1
  <2>5. Stack'
    BY <2>1, <2>4 DEF Stack
  <2>6. Range(Outer) \subseteq Range(calls)
    BY <2>1, Inside
  <2> QED BY <2>1, <2>4, <2>5, <2>6
<1>3. CASE FormEnds
  <2>1. Len(calls) - 1 \in 0..Len(calls)
    BY <1>1, <1>3 DEF FormEnds
  <2>2. Range(calls)' = Range(Outer)
    BY <1>3 DEF FormEnds, Finish, Range
  <2> QED BY <1>1, <1>3, <2>1, <2>2, Left DEF FormEnds, Finish, Outer, Stack
<1>4. CASE Unwind
  <2>1. PICK n \in 0..Len(calls) : calls' = SubSeq(calls, 1, n)
    <3>1. CASE Fail
      <4>1. SubSeq(calls, 1, 0) = <<>>
        BY <1>1
      <4> QED BY <1>1, <3>1, <4>1 DEF Fail
    <3>2. CASE ThrowOut
      BY <1>1, <3>2 DEF ThrowOut
    <3> QED BY <1>4, <3>1, <3>2 DEF Unwind
  <2>2. Range(calls)' = Range(SubSeq(calls, 1, n))
    BY <2>1 DEF Range
  <2> QED BY <1>1, <2>1, <2>2, Left DEF Stack
<1> QED BY <1>2, <1>3, <1>4

-----------------------------------------------------------------------------

(* ------------------------- names and symbols --------------------------- *)

(* The symbols of a list have different names, of bucket b. *)
Proper(b, list) ==
    /\ list \in Seq(Symbols)
    /\ \A i \in DOMAIN list : Bucket[pname[list[i]]] = b
    /\ \A i, j \in DOMAIN list : pname[list[i]] = pname[list[j]] => i = j

(* A symbol that its name may be asked for by. *)
Findable(s) ==
    LET b == Bucket[pname[s]] IN b \in overtaken \/ s \in Range(obarray[b])

(* The calls of gen_intern, by the allocation they have reached. *)
Asking == [proc : {"gen_intern"}, at : {"symcons"}, gc : BOOLEAN,
           name : Names, sl : Seq(Symbols)]
Storing == [proc : {"gen_intern"}, at : {"bucket"}, gc : BOOLEAN,
            name : Names, sl : Seq(Symbols), sym : Symbols]
Listing == [proc : {"gen_intern"}, at : {"oblist"}, gc : BOOLEAN,
            sym : Symbols, oblist : Seq(Symbols)]

KnowsName(c) == /\ c \in Asking \cup Storing \cup Listing
                /\ c \in Asking \cup Storing =>
                      Proper(Bucket[c.name], c.sl) /\ Matching(c.name, c.sl) = {}
                /\ c \in Storing => pname[c.sym] = c.name
                /\ c \in Listing => Findable(c.sym)

GoodIntern(c) == "proc" \in DOMAIN c /\ (c.proc = "gen_intern" => KnowsName(c))

NameInv ==
    /\ pname \in Seq(Names) /\ tkbuffer \in Names
    /\ obarray \in [Buckets -> Seq(Symbols)]
    /\ oblistvar \in Seq(Symbols)
    /\ known \subseteq Symbols
    /\ \A b \in Buckets : Proper(b, obarray[b])
    /\ \A s \in known : Findable(s)
    /\ Stack
    /\ \A c \in Range(calls) : GoodIntern(c)

-----------------------------------------------------------------------------
(* What the calls know stays true when a symbol is made, and when a list   *)
(* is stored, and when an allocation collects.                             *)

LEMMA MarksIntern ==
    ASSUME NEW c, GoodIntern(c)
    PROVE  GoodIntern([c EXCEPT !.gc = TRUE])
<1> DEFINE d == [c EXCEPT !.gc = TRUE]
<1>1. DOMAIN d = DOMAIN c /\ \A f \in DOMAIN c : f # "gc" => d[f] = c[f]
  OBVIOUS
<1>2. "proc" \in DOMAIN d /\ d.proc = c.proc
  BY <1>1 DEF GoodIntern
<1>3. ASSUME c.proc = "gen_intern" PROVE KnowsName(d)
  <2>1. KnowsName(c)
    BY <1>3 DEF GoodIntern
  <2>2. CASE c \in Asking
    <3>1. d \in Asking /\ d.name = c.name /\ d.sl = c.sl
      BY <2>2 DEF Asking
    <3>2. d \notin Storing /\ d \notin Listing
      BY <3>1 DEF Asking, Storing, Listing
    <3> QED BY <2>1, <2>2, <3>1, <3>2 DEF KnowsName
  <2>3. CASE c \in Storing
    <3>1. d \in Storing /\ d.name = c.name /\ d.sl = c.sl /\ d.sym = c.sym
      BY <2>3 DEF Storing
    <3>2. d \notin Listing
      BY <3>1 DEF Storing, Listing
    <3> QED BY <2>1, <2>3, <3>1, <3>2 DEF KnowsName
  <2>4. CASE c \in Listing
    <3>1. d \in Listing /\ d.sym = c.sym
      BY <2>4 DEF Listing
    <3>2. d \notin Asking /\ d \notin Storing
      BY <3>1 DEF Asking, Storing, Listing
    <3> QED BY <2>1, <2>4, <3>1, <3>2 DEF KnowsName
  <2> QED BY <2>1, <2>2, <2>3, <2>4 DEF KnowsName
<1> QED BY <1>2, <1>3 DEF GoodIntern

LEMMA Grown ==
    ASSUME pname \in Seq(Names), NEW n \in Names, pname' = Append(pname, n)
    PROVE  /\ Symbols \subseteq Symbols' /\ Len(pname) + 1 \in Symbols' \ Symbols
           /\ \A s \in Symbols : pname'[s] = pname[s]
           /\ pname'[Len(pname) + 1] = n
           /\ Len(pname') = Len(pname) + 1
           /\ Seq(Symbols) \subseteq Seq(Symbols')
<1>1. /\ Len(pname') = Len(pname) + 1 /\ Len(pname) \in Nat
      /\ \A s \in 1..Len(pname) : pname'[s] = pname[s]
      /\ pname'[Len(pname) + 1] = n
  BY AppendProperties
<1>2. Symbols \subseteq Symbols'
  BY <1>1 DEF Symbols
<1>3. ASSUME NEW l \in Seq(Symbols) PROVE l \in Seq(Symbols')
  <2>1. \A i \in 1..Len(l) : l[i] \in Symbols'
    BY <1>2
  <2> QED BY <2>1
<1> QED BY <1>1, <1>2, <1>3 DEF Symbols

LEMMA GrownLists ==
    ASSUME pname \in Seq(Names), NEW n \in Names, pname' = Append(pname, n),
           NEW b, NEW l, Proper(b, l)
    PROVE  Proper(b, l)' /\ \A m : Matching(m, l)' = Matching(m, l)
<1>1. l \in Seq(Symbols) /\ \A i \in DOMAIN l : l[i] \in Symbols
  <2>1. l \in Seq(Symbols)
    BY DEF Proper
  <2> QED BY <2>1
<1>2. \A i \in DOMAIN l : pname'[l[i]] = pname[l[i]]
  BY <1>1, Grown
<1>3. l \in Seq(Symbols')
  BY <1>1, Grown
<1>4. Proper(b, l)'
  <2>1. \A i \in DOMAIN l : Bucket[pname'[l[i]]] = b
    BY <1>2 DEF Proper
  <2>2. \A i, j \in DOMAIN l : pname'[l[i]] = pname'[l[j]] => i = j
    BY <1>2 DEF Proper
  <2> QED BY <1>3, <2>1, <2>2 DEF Proper
<1>5. ASSUME NEW m PROVE Matching(m, l)' = Matching(m, l)
  BY <1>2 DEF Matching
<1> QED BY <1>4, <1>5

LEMMA GrownCalls ==
    ASSUME pname \in Seq(Names), NEW n \in Names, pname' = Append(pname, n),
           UNCHANGED <<obarray, overtaken>>, NEW c, GoodIntern(c)
    PROVE  GoodIntern(c)'
<1> SUFFICES ASSUME c.proc = "gen_intern" PROVE KnowsName(c)'
  BY DEF GoodIntern
<1>1. KnowsName(c)
  BY DEF GoodIntern
<1>2. CASE c \in Asking
  <2>1. c \in Asking' /\ c \notin Storing' /\ c \notin Listing'
    BY <1>2, Grown DEF Asking, Storing, Listing
  <2>2. Proper(Bucket[c.name], c.sl)' /\ Matching(c.name, c.sl)' = {}
    BY <1>1, <1>2, GrownLists DEF KnowsName
  <2> QED BY <2>1, <2>2 DEF KnowsName
<1>3. CASE c \in Storing
  <2>1. c \in Storing' /\ c \notin Listing' /\ c.sym \in Symbols
    BY <1>3, Grown DEF Storing, Listing
  <2>2. Proper(Bucket[c.name], c.sl)' /\ Matching(c.name, c.sl)' = {}
    BY <1>1, <1>3, GrownLists DEF KnowsName
  <2>3. pname'[c.sym] = c.name
    BY <1>1, <1>3, <2>1, Grown DEF KnowsName
  <2> QED BY <2>1, <2>2, <2>3 DEF KnowsName
<1>4. CASE c \in Listing
  <2>1. c \in Listing' /\ c \notin Asking' /\ c \notin Storing' /\ c.sym \in Symbols
    BY <1>4, Grown DEF Asking, Storing, Listing
  <2>2. Findable(c.sym)'
    BY <1>1, <1>4, <2>1, Grown DEF KnowsName, Findable
  <2> QED BY <2>1, <2>2 DEF KnowsName
<1> QED BY <1>1, <1>2, <1>3, <1>4 DEF KnowsName

(* A bucket is stored: it has all that it had, or it has been overtaken.   *)
LEMMA Stored ==
    ASSUME UNCHANGED pname, overtaken \subseteq overtaken',
           \A b \in Buckets : b \in overtaken' \/ Range(obarray[b]) \subseteq Range(obarray[b])'
    PROVE  /\ \A s : Findable(s) /\ Bucket[pname[s]] \in Buckets => Findable(s)'
           /\ \A c : GoodIntern(c) /\ (c \in Listing => Bucket[pname[c.sym]] \in Buckets)
                       => GoodIntern(c)'
<1>1. ASSUME NEW s, Findable(s), Bucket[pname[s]] \in Buckets PROVE Findable(s)'
  BY <1>1 DEF Findable
<1>2. ASSUME NEW c, GoodIntern(c), c \in Listing => Bucket[pname[c.sym]] \in Buckets
      PROVE  GoodIntern(c)'
  <2> SUFFICES ASSUME c.proc = "gen_intern" PROVE KnowsName(c)'
    BY <1>2 DEF GoodIntern
  <2>1. KnowsName(c)
    BY <1>2 DEF GoodIntern
  <2>2. Symbols' = Symbols
    BY DEF Symbols
  <2>3. Asking' = Asking /\ Storing' = Storing /\ Listing' = Listing
    BY <2>2 DEF Asking, Storing, Listing
  <2>4. c \in Listing => Findable(c.sym)'
    BY <1>1, <1>2, <2>1 DEF KnowsName
  <2>5. \A b, l : Proper(b, l)' <=> Proper(b, l)
    BY <2>2 DEF Proper
  <2>6. \A m, l : Matching(m, l)' = Matching(m, l)
    BY DEF Matching
  <2> QED BY <2>1, <2>3, <2>4, <2>5, <2>6 DEF KnowsName
<1> QED BY <1>1, <1>2
-----------------------------------------------------------------------------
(* The properties follow from the invariant. *)

LEMMA Hashes ==
    ASSUME NameInv
    PROVE  /\ \A n \in Names : Bucket[n] \in Buckets
           /\ \A s \in Symbols : pname[s] \in Names
           /\ \A b \in Buckets, i \in Nat : i \in DOMAIN obarray[b] => obarray[b][i] \in Symbols
<1>1. \A s \in Symbols : pname[s] \in Names
  BY DEF NameInv, Symbols
<1>2. ASSUME NEW b \in Buckets, NEW i \in Nat, i \in DOMAIN obarray[b]
      PROVE  obarray[b][i] \in Symbols
  <2>1. obarray[b] \in Seq(Symbols)
    BY DEF NameInv
  <2> QED BY <1>2, <2>1
<1> QED BY <1>1, <1>2 DEF Buckets

LEMMA OneEach ==
    ASSUME NameInv
    PROVE  OneSymbolPerName
<1> SUFFICES ASSUME NEW s \in known, NEW t \in known, pname[s] = pname[t],
                    Bucket[pname[s]] \notin overtaken
             PROVE  s = t
  BY DEF OneSymbolPerName
<1> DEFINE b == Bucket[pname[s]]
<1>1. b \in Buckets
  BY Hashes DEF NameInv
<1>2. s \in Range(obarray[b]) /\ t \in Range(obarray[b])
  BY DEF NameInv, Findable
<1>3. PICK i \in DOMAIN obarray[b] : s = obarray[b][i]
  BY <1>2 DEF Range
<1>4. PICK j \in DOMAIN obarray[b] : t = obarray[b][j]
  BY <1>2 DEF Range
<1>5. i = j
  BY <1>1, <1>3, <1>4 DEF NameInv, Proper
<1> QED BY <1>3, <1>4, <1>5

LEMMA Own ==
    ASSUME NameInv
    PROVE  InOwnBucket
<1> SUFFICES ASSUME NEW b \in Buckets
             PROVE  /\ \A s \in Range(obarray[b]) : Bucket[pname[s]] = b
                    /\ Cardinality(Range(obarray[b])) = Len(obarray[b])
  BY DEF InOwnBucket
<1>1. Proper(b, obarray[b])
  BY DEF NameInv
<1>2. \A s \in Range(obarray[b]) : Bucket[pname[s]] = b
  BY <1>1 DEF Proper, Range
<1>3. obarray[b] \in Seq(Symbols)
  BY <1>1 DEF Proper
<1>4. DOMAIN obarray[b] = 1..Len(obarray[b]) /\ Len(obarray[b]) \in Nat
  BY <1>3
<1>5. obarray[b] \in Bijection(1..Len(obarray[b]), Range(obarray[b]))
  <2>1. \A i, j \in DOMAIN obarray[b] : obarray[b][i] = obarray[b][j] => i = j
    BY <1>1 DEF Proper
  <2>2. obarray[b] = [i \in 1..Len(obarray[b]) |-> obarray[b][i]]
    BY <1>3, <1>4
  <2>3. obarray[b] \in [1..Len(obarray[b]) -> Range(obarray[b])]
    BY <1>4, <2>2 DEF Range
  <2>4. \A s \in Range(obarray[b]) : \E i \in 1..Len(obarray[b]) : obarray[b][i] = s
    BY <1>4 DEF Range
  <2> QED BY <1>4, <2>1, <2>3, <2>4 DEF Bijection, Injection, Surjection, IsInjective
<1>6. ASSUME NEW n \in Nat, NEW T, NEW f \in Bijection(1..n, T) PROVE Cardinality(T) = n
  <2>1. IsFiniteSet(1..n) /\ Cardinality(1..n) = n
    <3>1. IsFiniteSet(1..n) /\ Cardinality(1..n) = IF 1 > n THEN 0 ELSE n - 1 + 1
      BY FS_Interval
    <3> QED BY <3>1
  <2>2. Cardinality(T) = Cardinality(1..n)
    BY <2>1, FS_Bijection DEF ExistsBijection
  <2> QED BY <2>1, <2>2
<1>7. Cardinality(Range(obarray[b])) = Len(obarray[b])
  BY <1>4, <1>5, <1>6
<1> QED BY <1>2, <1>7

-----------------------------------------------------------------------------
(* Each step keeps the invariant. *)

LEMMA NamesStart == Init => NameInv
<1> SUFFICES ASSUME Init PROVE NameInv
  OBVIOUS
<1>1. /\ pname = <<>> /\ oblistvar = <<>> /\ calls = <<>> /\ known = {} /\ tkbuffer \in Names
      /\ obarray = [b \in Buckets |-> <<>>]
  BY DEF Init, SymbolInit
<1>2. obarray \in [Buckets -> Seq(Symbols)] /\ oblistvar \in Seq(Symbols) /\ pname \in Seq(Names)
  BY <1>1
<1>3. \A b \in Buckets : Proper(b, obarray[b])
  BY <1>1 DEF Proper
<1>4. Stack /\ Range(calls) = {}
  <2>1. calls \in Seq({})
    BY <1>1
  <2> QED BY <1>1, <2>1 DEF Stack, Range
<1> QED BY <1>1, <1>2, <1>3, <1>4 DEF NameInv

LEMMA SameNames ==
    ASSUME NameInv, UNCHANGED <<pname, obarray, oblistvar, overtaken>>,
           tkbuffer' \in Names, known' \subseteq Symbols, \A s \in known' : Findable(s),
           Stack', \A c \in Range(calls)' : GoodIntern(c)
    PROVE  NameInv'
<1>1. Symbols' = Symbols
  BY DEF Symbols
<1>2. Asking' = Asking /\ Storing' = Storing /\ Listing' = Listing
  BY <1>1 DEF Asking, Storing, Listing
<1>3. \A b, l : Proper(b, l)' <=> Proper(b, l)
  BY <1>1 DEF Proper
<1>4. \A m, l : Matching(m, l)' = Matching(m, l)
  BY DEF Matching
<1>5. \A s : Findable(s)' <=> Findable(s)
  BY DEF Findable, Range
<1>6. \A c : GoodIntern(c)' <=> GoodIntern(c)
  BY <1>2, <1>3, <1>4, <1>5 DEF GoodIntern, KnowsName
<1>7. \A c \in Range(calls)' : GoodIntern(c)'
  BY <1>6
<1>8. \A s \in known' : Findable(s)'
  BY <1>5
<1>9. \A b \in Buckets : Proper(b, obarray[b])'
  BY <1>3 DEF NameInv
<1> QED BY <1>1, <1>7, <1>8, <1>9 DEF NameInv

LEMMA IntersSafely ==
    ASSUME NameInv, NEW name \in Names, Intern(name)
    PROVE  NameInv'
<1> DEFINE sl == obarray[Bucket[name]]
           call == [proc |-> "gen_intern", at |-> "symcons", gc |-> FALSE,
                    name |-> name, sl |-> sl]
<1>1. Bucket[name] \in Buckets
  BY Hashes
<1>2. Proper(Bucket[name], sl) /\ sl \in Seq(Symbols)
  BY <1>1 DEF NameInv
<1>3. CASE \E i \in Matching(name, sl) :
              Evaluating /\ known' = known \cup {sl[i]} /\ UNCHANGED calls
  <2>1. PICK i \in DOMAIN sl : pname[sl[i]] = name /\ known' = known \cup {sl[i]}
    BY <1>3 DEF Matching
  <2>2. sl[i] \in Symbols /\ sl[i] \in Range(sl)
    BY <1>2, <2>1 DEF Range
  <2>3. Findable(sl[i])
    BY <2>1, <2>2 DEF Findable
  <2>4. known' \subseteq Symbols /\ \A s \in known' : Findable(s)
    BY <2>1, <2>2, <2>3 DEF NameInv
  <2>5. Stack' /\ \A c \in Range(calls)' : GoodIntern(c)
    BY <1>3 DEF NameInv, Stack, Range
  <2> QED BY <2>4, <2>5, SameNames DEF Intern
<1>4. CASE Matching(name, sl) = {} /\ Begin(call) /\ UNCHANGED known
  <2>1. call \in Asking /\ call \notin Storing /\ call \notin Listing
    BY <1>2 DEF Asking, Storing, Listing
  <2>2. GoodIntern(call)
    BY <1>2, <1>4, <2>1 DEF GoodIntern, KnowsName
  <2>3. Stack' /\ \A c \in Range(calls)' : GoodIntern(c)
    BY <1>4, <2>2, Begins DEF NameInv
  <2> QED BY <1>4, <2>3, SameNames DEF NameInv, Intern
<1> QED BY <1>3, <1>4 DEF Intern

LEMMA MakesSymbolSafely ==
    ASSUME NameInv, MakeSymbol
    PROVE  NameInv'
<1>1. ~Evaluating
  BY DEF MakeSymbol, Allocates, Evaluating, AfterGc
<1>2. PICK c \in Range(calls) : c = Innermost
  BY <1>1, Inside DEF NameInv
<1>a. PICK call : call = [proc |-> "gen_intern", at |-> "bucket", gc |-> FALSE,
                         name |-> c.name, sl |-> c.sl, sym |-> Len(pname) + 1]
  OBVIOUS
<1>3. c \in Asking /\ Proper(Bucket[c.name], c.sl) /\ Matching(c.name, c.sl) = {}
  <2>1. c.proc = "gen_intern" /\ c.at = "symcons"
    BY <1>2 DEF MakeSymbol, Allocates
  <2>2. KnowsName(c)
    BY <2>1 DEF NameInv, GoodIntern
  <2>3. c \in Asking
    BY <2>1, <2>2 DEF KnowsName, Asking, Storing, Listing
  <2> QED BY <2>2, <2>3 DEF KnowsName
<1>4. c.name \in Names /\ pname \in Seq(Names) /\ pname' = Append(pname, c.name)
  BY <1>2, <1>3 DEF Asking, NameInv, MakeSymbol
<1>5. /\ UNCHANGED <<obarray, oblistvar, tkbuffer, known, overtaken>>
      /\ Continue(call)
  <2>1. Len(pname') = Len(pname) + 1
    BY <1>4, Grown
  <2> QED BY <1>2, <1>a, <2>1 DEF MakeSymbol
<1>6. Proper(Bucket[c.name], c.sl)' /\ Matching(c.name, c.sl)' = {}
  BY <1>3, <1>4, GrownLists
<1>7. call \in Storing' /\ pname'[call.sym] = call.name
  <2>1. Len(pname) + 1 \in Symbols' /\ pname'[Len(pname) + 1] = c.name
    BY <1>4, Grown
  <2>2. c.sl \in Seq(Symbols')
    BY <1>6 DEF Proper
  <2> QED BY <1>4, <1>a, <2>1, <2>2 DEF Storing
<1>8. GoodIntern(call)'
  <2>1. call \notin Listing'
    BY <1>a DEF Listing
  <2>2. KnowsName(call)'
    BY <1>6, <1>7, <1>a, <2>1 DEF KnowsName
  <2> QED BY <1>a, <2>2 DEF GoodIntern
<1>9. Stack' /\ Range(calls)' \subseteq Range(calls) \cup {call}
  BY <1>1, <1>5, Continues DEF NameInv
<1>10. \A d \in Range(calls)' : GoodIntern(d)'
  <2>1. \A d \in Range(calls) : GoodIntern(d)'
    BY <1>4, <1>5, GrownCalls DEF NameInv
  <2>2. \A d \in Range(calls)' : d \in Range(calls) \/ d = call
    BY <1>9
  <2> QED BY <1>8, <2>1, <2>2
<1>11. \A b \in Buckets : Proper(b, obarray[b])'
  <2> SUFFICES ASSUME NEW b \in Buckets PROVE Proper(b, obarray[b])'
    BY DEF Buckets
  <2>1. PICK l : l = obarray[b]
    OBVIOUS
  <2>2. Proper(b, l)'
    BY <1>4, <2>1, GrownLists DEF NameInv
  <2> QED BY <1>5, <2>1, <2>2 DEF Proper
<1>12. \A s \in known' : Findable(s)'
  <2> SUFFICES ASSUME NEW s \in known' PROVE Findable(s)'
    OBVIOUS
  <2>1. s \in Symbols /\ Findable(s)
    BY <1>5 DEF NameInv
  <2>2. pname'[s] = pname[s]
    BY <1>4, <2>1, Grown
  <2> QED BY <1>5, <2>1, <2>2 DEF Findable, Range
<1>13. /\ pname' \in Seq(Names) /\ tkbuffer' \in Names
       /\ obarray' \in [Buckets -> Seq(Symbols')]
       /\ oblistvar' \in Seq(Symbols') /\ known' \subseteq Symbols'
  <2>1. Symbols \subseteq Symbols' /\ Seq(Symbols) \subseteq Seq(Symbols')
    BY <1>4, Grown
  <2> QED BY <1>4, <1>5, <2>1 DEF NameInv
<1> QED BY <1>9, <1>10, <1>11, <1>12, <1>13 DEF NameInv

LEMMA StoresSafely ==
    ASSUME NameInv, StoreBucket
    PROVE  NameInv'
<1>1. ~Evaluating
  BY DEF StoreBucket, Allocates, Evaluating, AfterGc
<1>2. PICK c \in Range(calls) : c = Innermost
  BY <1>1, Inside DEF NameInv
<1> DEFINE b == Bucket[c.name]
           list == <<c.sym>> \o c.sl
<1>a. PICK call : call = [proc |-> "gen_intern", at |-> "oblist", gc |-> FALSE,
                         sym |-> c.sym, oblist |-> oblistvar]
  OBVIOUS
<1>3. /\ c \in Storing /\ Proper(b, c.sl) /\ Matching(c.name, c.sl) = {}
      /\ pname[c.sym] = c.name
  <2>1. c.proc = "gen_intern" /\ c.at = "bucket"
    BY <1>2 DEF StoreBucket, Allocates
  <2>2. KnowsName(c)
    BY <2>1 DEF NameInv, GoodIntern
  <2>3. c \in Storing
    BY <2>1, <2>2 DEF KnowsName, Asking, Storing, Listing
  <2> QED BY <2>2, <2>3 DEF KnowsName
<1>4. c.sym \in Symbols /\ c.sl \in Seq(Symbols) /\ c.name \in Names /\ b \in Buckets
  BY <1>3, Hashes DEF Storing
<1>5. /\ obarray' = [obarray EXCEPT ![b] = list]
      /\ overtaken' = IF obarray[b] = c.sl THEN overtaken ELSE overtaken \cup {b}
      /\ Continue(call) /\ UNCHANGED <<pname, oblistvar, tkbuffer, known>>
  BY <1>2, <1>a DEF StoreBucket
<1>6. Symbols' = Symbols /\ obarray' \in [Buckets -> Seq(Symbols)]
  <2>1. list \in Seq(Symbols)
    BY <1>4
  <2> QED BY <1>5, <2>1 DEF NameInv, Symbols
<1>7. /\ Len(list) = Len(c.sl) + 1 /\ Len(c.sl) \in Nat /\ DOMAIN c.sl = 1..Len(c.sl)
      /\ list[1] = c.sym /\ DOMAIN list = 1..(Len(c.sl) + 1)
      /\ \A i \in 2..(Len(c.sl) + 1) : list[i] = c.sl[i - 1] /\ i - 1 \in DOMAIN c.sl
  BY <1>4
<1>8. Proper(b, list)
  <2>1. \A i \in DOMAIN c.sl : Bucket[pname[c.sl[i]]] = b /\ pname[c.sl[i]] # c.name
    BY <1>3 DEF Proper, Matching
  <2>2. \A i \in DOMAIN list : i = 1 \/ i \in 2..(Len(c.sl) + 1)
    BY <1>7
  <2>3. \A i \in DOMAIN list : Bucket[pname[list[i]]] = b
    BY <1>3, <1>7, <2>1, <2>2
  <2>4. \A i, j \in DOMAIN c.sl : pname[c.sl[i]] = pname[c.sl[j]] => i = j
    BY <1>3 DEF Proper
  <2>5. ASSUME NEW i \in DOMAIN list, NEW j \in DOMAIN list, pname[list[i]] = pname[list[j]]
        PROVE  i = j
    <3>1. /\ i = 1 \/ i \in 2..(Len(c.sl) + 1)
          /\ j = 1 \/ j \in 2..(Len(c.sl) + 1)
      BY <2>2
    <3>2. ASSUME NEW k \in 2..(Len(c.sl) + 1) PROVE pname[list[k]] # pname[list[1]]
      BY <1>3, <1>7, <2>1
    <3>3. CASE i \in 2..(Len(c.sl) + 1) /\ j \in 2..(Len(c.sl) + 1)
      <4>1. i - 1 \in DOMAIN c.sl /\ j - 1 \in DOMAIN c.sl
        BY <1>7, <3>3
      <4>2. pname[c.sl[i - 1]] = pname[c.sl[j - 1]]
        BY <1>7, <2>5, <3>3
      <4>3. i - 1 = j - 1
        BY <2>4, <4>1, <4>2
      <4>4. i \in Nat /\ j \in Nat
        BY <1>7
      <4> QED BY <4>3, <4>4
    <3> QED BY <2>5, <3>1, <3>2, <3>3
  <2>6. list \in Seq(Symbols)
    BY <1>4
  <2> QED BY <2>3, <2>5, <2>6 DEF Proper
<1>9. c.sym \in Range(list) /\ Range(c.sl) \subseteq Range(list)
  <2>1. \A i \in DOMAIN c.sl : i + 1 \in DOMAIN list /\ list[i + 1] = c.sl[i]
    BY <1>4, <1>7
  <2> QED BY <1>7, <2>1 DEF Range
<1>10. obarray'[b] = list /\ \A d \in Buckets : d # b => obarray'[d] = obarray[d]
  BY <1>4, <1>5 DEF NameInv
<1>11. \A d \in Buckets : d \in overtaken' \/ Range(obarray[d]) \subseteq Range(obarray[d])'
  <2>1. \A d \in Buckets : d # b => Range(obarray[d])' = Range(obarray[d])
    BY <1>10 DEF Range
  <2>2. Range(obarray[b])' = Range(list)
    BY <1>3, <1>5, <1>10 DEF Range
  <2>3. b \in overtaken' \/ obarray[b] = c.sl
    BY <1>5
  <2> QED BY <1>9, <2>1, <2>2, <2>3
<1>12. /\ \A s : Findable(s) /\ Bucket[pname[s]] \in Buckets => Findable(s)'
       /\ \A d : GoodIntern(d) /\ (d \in Listing => Bucket[pname[d.sym]] \in Buckets)
                   => GoodIntern(d)'
  BY <1>5, <1>11, Stored
<1>13. \A d : d \in Listing => Bucket[pname[d.sym]] \in Buckets
  BY Hashes DEF Listing
<1>14. GoodIntern(call)'
  <2>1. call \in Listing' /\ call \notin Asking' /\ call \notin Storing'
    BY <1>4, <1>6, <1>a DEF NameInv, Asking, Storing, Listing
  <2>2. Findable(c.sym)'
    BY <1>3, <1>5, <1>9, <1>10 DEF Findable, Range
  <2>3. KnowsName(call)'
    BY <1>a, <2>1, <2>2 DEF KnowsName
  <2> QED BY <1>a, <2>3 DEF GoodIntern
<1>15. Stack' /\ \A d \in Range(calls)' : GoodIntern(d)'
  <2>1. Stack' /\ Range(calls)' \subseteq Range(calls) \cup {call}
    BY <1>1, <1>5, Continues DEF NameInv
  <2> QED BY <1>12, <1>13, <1>14, <2>1 DEF NameInv
<1>16. \A s \in known' : Findable(s)'
  BY <1>5, <1>12, Hashes DEF NameInv
<1>17. \A d \in Buckets : Proper(d, obarray[d])'
  <2> SUFFICES ASSUME NEW d \in Buckets PROVE Proper(d, obarray[d])'
    BY DEF Buckets
  <2>1. PICK l : l = obarray'[d]
    OBVIOUS
  <2>2. Proper(d, l)
    BY <1>8, <1>10, <2>1 DEF NameInv
  <2> QED BY <1>5, <1>6, <2>1, <2>2 DEF Proper
<1> QED BY <1>5, <1>6, <1>15, <1>16, <1>17 DEF NameInv

LEMMA ListsSafely ==
    ASSUME NameInv, StoreOblist
    PROVE  NameInv'
<1>1. ~Evaluating
  BY DEF StoreOblist, Allocates, Evaluating, AfterGc
<1>2. PICK c \in Range(calls) : c = Innermost
  BY <1>1, Inside DEF NameInv
<1>3. c \in Listing /\ Findable(c.sym)
  <2>1. c.proc = "gen_intern" /\ c.at = "oblist"
    BY <1>2 DEF StoreOblist, Allocates
  <2>2. KnowsName(c)
    BY <2>1 DEF NameInv, GoodIntern
  <2>3. c \in Listing
    BY <2>1, <2>2 DEF KnowsName, Asking, Storing, Listing
  <2> QED BY <2>2, <2>3 DEF KnowsName
<1>4. c.sym \in Symbols /\ c.oblist \in Seq(Symbols)
  BY <1>3 DEF Listing
<1>5. /\ oblistvar' = <<c.sym>> \o c.oblist /\ known' = known \cup {c.sym}
      /\ Finish /\ UNCHANGED <<pname, obarray, tkbuffer, overtaken>>
  BY <1>2 DEF StoreOblist
<1>6. oblistvar' \in Seq(Symbols)
  BY <1>4, <1>5
<1>7. Symbols' = Symbols
  BY <1>5 DEF Symbols
<1>8. /\ \A s : Findable(s) /\ Bucket[pname[s]] \in Buckets => Findable(s)'
      /\ \A d : GoodIntern(d) /\ (d \in Listing => Bucket[pname[d.sym]] \in Buckets)
                  => GoodIntern(d)'
  <2>1. \A d \in Buckets : Range(obarray[d]) = Range(obarray[d])'
    BY <1>5 DEF Range
  <2> QED BY <1>5, <2>1, Stored
<1>9. Stack' /\ \A d \in Range(calls)' : GoodIntern(d)'
  <2>1. Stack' /\ Range(calls)' \subseteq Range(calls)
    BY <1>1, <1>5, Finishes DEF NameInv
  <2>2. \A d : d \in Listing => Bucket[pname[d.sym]] \in Buckets
    BY Hashes DEF Listing
  <2> QED BY <1>8, <2>1, <2>2 DEF NameInv
<1>10. \A s \in known' : Findable(s)'
  BY <1>3, <1>4, <1>5, <1>8, Hashes DEF NameInv
<1>11. \A d \in Buckets : Proper(d, obarray[d])'
  BY <1>5, <1>7 DEF NameInv, Proper
<1> QED BY <1>4, <1>5, <1>6, <1>7, <1>9, <1>10, <1>11 DEF NameInv

LEMMA HsetsKeepNames ==
    ASSUME NameInv, HashNext, UNCHANGED symbolVars
    PROVE  NameInv'
<1>1. Stack' /\ \A d \in Range(calls)' : GoodIntern(d)
  <2>1. CASE UNCHANGED calls
    BY <2>1 DEF NameInv, Stack, Range
  <2>2. ASSUME NEW key, NEW value, NEW l,
               Begin([proc |-> "hset", at |-> "pair", gc |-> FALSE,
                      key |-> key, value |-> value, l |-> l])
        PROVE  Stack' /\ \A d \in Range(calls)' : GoodIntern(d)
    <3>1. GoodIntern([proc |-> "hset", at |-> "pair", gc |-> FALSE,
                    key |-> key, value |-> value, l |-> l])
      BY DEF GoodIntern
    <3> QED BY <2>2, <3>1, Begins DEF NameInv
  <2>3. CASE MakePair
    <3>1. ~Evaluating
      BY <2>3 DEF MakePair, Allocates, Evaluating, AfterGc
    <3>2. PICK d : d.proc = "hset" /\ "proc" \in DOMAIN d /\ Continue(d)
      BY <2>3 DEF MakePair
    <3>3. GoodIntern(d)
      BY <3>2 DEF GoodIntern
    <3> QED BY <3>1, <3>2, <3>3, Continues DEF NameInv
  <2>4. CASE StoreList
    <3>1. ~Evaluating /\ Finish
      BY <2>4 DEF StoreList, Allocates, Evaluating, AfterGc
    <3> QED BY <3>1, Finishes DEF NameInv
  <2> QED BY <2>1, <2>2, <2>3, <2>4 DEF HashNext, Hset
<1> QED BY <1>1, SameNames DEF NameInv, symbolVars

LEMMA ReentersKeepNames ==
    ASSUME NameInv, Reenter
    PROVE  NameInv'
<1>1. /\ Stack'
      /\ \/ Range(calls)' \subseteq Range(calls)
         \/ /\ ~Evaluating
            /\ Range(calls)' \subseteq
                  Range(calls) \cup {[Innermost EXCEPT !.gc = TRUE], AfterGc}
  BY Reenters DEF NameInv, Reenter
<1>2. GoodIntern(AfterGc)
  BY DEF GoodIntern, AfterGc
<1>3. ~Evaluating => GoodIntern([Innermost EXCEPT !.gc = TRUE])
  BY Inside, MarksIntern DEF NameInv
<1>4. \A d \in Range(calls)' : GoodIntern(d)
  BY <1>1, <1>2, <1>3 DEF NameInv
<1> QED BY <1>1, <1>4, SameNames DEF NameInv, Reenter, symbolVars

LEMMA StuttersKeepNames ==
    ASSUME NameInv, UNCHANGED vars
    PROVE  NameInv'
<1>1. Stack' /\ \A d \in Range(calls)' : GoodIntern(d)
  BY DEF vars, NameInv, Stack, Range
<1> QED BY <1>1, SameNames DEF NameInv, vars, symbolVars

LEMMA NameSteps == NameInv /\ [Next]_vars => NameInv'
<1> SUFFICES ASSUME NameInv, [Next]_vars PROVE NameInv'
  OBVIOUS
<1>1. ASSUME NEW name \in Names, Intern(name) PROVE NameInv'
  BY <1>1, IntersSafely
<1>2. CASE MakeSymbol
  BY <1>2, MakesSymbolSafely
<1>3. CASE StoreBucket
  BY <1>3, StoresSafely
<1>4. CASE StoreOblist
  BY <1>4, ListsSafely
<1>5. CASE HashNext /\ UNCHANGED symbolVars
  BY <1>5, HsetsKeepNames
<1>6. CASE Reenter
  BY <1>6, ReentersKeepNames
<1>7. CASE UNCHANGED vars
  BY <1>7, StuttersKeepNames
<1> QED BY <1>1, <1>2, <1>3, <1>4, <1>5, <1>6, <1>7 DEF Next, SymbolNext

-----------------------------------------------------------------------------
(* What is known of the buckets and of the calls of gen_intern holds in    *)
(* every state.                                                            *)
THEOREM Consistent == Spec => []NameInv
<1> QED BY NamesStart, NameSteps, PTL DEF Spec

(* gen_intern returns one symbol for a name, whatever form is evaluated in *)
(* the middle of it, in the buckets that no call of it was overtaken in:   *)
(* symbols may be compared by eq.                                          *)
THEOREM NamesAreUnique == Spec => []OneSymbolPerName
<1> QED BY Consistent, OneEach, PTL

(* A symbol is at most once in a list of obarray, that of its own name.    *)
THEOREM BucketsAreOwn == Spec => []InOwnBucket
<1> QED BY Consistent, Own, PTL

-----------------------------------------------------------------------------
(* -------------------------- keys and values ---------------------------- *)

Pair == [key : Keys, value : Values]
Made == 1..Len(pairs)
KeyOf(p) == pairs[p].key

(* The pairs of a list have different keys, all of index i. *)
Single(list) ==
    /\ list \in Seq(Made)
    /\ \A m, n \in DOMAIN list : <<KeyOf(list[m]), KeyOf(list[n])>> \in Same => m = n
Filed(i, list) == \A n \in DOMAIN list : Index[KeyOf(list[n])] = i
Lacks(list, key) == \A n \in DOMAIN list : <<KeyOf(list[n]), key>> \notin Same

(* The calls of hset, by the allocation they have reached. *)
Pairing == [proc : {"hset"}, at : {"pair"}, gc : BOOLEAN,
            key : Keys, value : Values, l : Seq(Made)]
Linking == [proc : {"hset"}, at : {"list"}, gc : BOOLEAN, cell : Made, l : Seq(Made)]

Ready(key, l) == Single(l) /\ Filed(Index[key], l) /\ Lacks(l, key)
KnowsPair(c) == /\ c \in Pairing \cup Linking
                /\ c \in Pairing => Ready(c.key, c.l)
                /\ c \in Linking => Ready(KeyOf(c.cell), c.l)

GoodHset(c) == "proc" \in DOMAIN c /\ (c.proc = "hset" => KnowsPair(c))

PairInv ==
    /\ pairs \in Seq(Pair)
    /\ table \in [Indices -> Seq(Made)]
    /\ dict \in [Keys -> Values \cup {None}]
    /\ \A i \in Indices : Single(table[i]) /\ Filed(i, table[i])
    /\ LastSet
    /\ Stack
    /\ \A c \in Range(calls) : GoodHset(c)

-----------------------------------------------------------------------------
(* assoc in a list without equal keys. *)

LEMMA Typed ==
    ASSUME pairs \in Seq(Pair)
    PROVE  \A p \in Made : pairs[p] \in Pair /\ KeyOf(p) \in Keys
<1> SUFFICES ASSUME NEW p \in Made PROVE pairs[p] \in Pair /\ KeyOf(p) \in Keys
  OBVIOUS
<1>1. pairs[p] \in Pair
  BY DEF Made
<1> QED BY <1>1 DEF Pair, KeyOf

LEMMA Found ==
    ASSUME EqualKeys, pairs \in Seq(Pair), NEW list, Single(list), NEW key \in Keys
    PROVE  /\ \A n \in DOMAIN list : <<KeyOf(list[n]), key>> \in Same => Assoc(key, list) = list[n]
           /\ Lacks(list, key) <=> Assoc(key, list) = 0
           /\ Assoc(key, list) # 0 =>
                 \E n \in DOMAIN list : /\ Assoc(key, list) = list[n]
                                        /\ <<KeyOf(list[n]), key>> \in Same
<1> DEFINE found == {i \in DOMAIN list : <<pairs[list[i]].key, key>> \in Same}
<1>1. \A n \in DOMAIN list : n \in Nat /\ list[n] \in Made /\ KeyOf(list[n]) \in Keys
  <2>1. list \in Seq(Made)
    BY DEF Single
  <2>2. \A n \in DOMAIN list : n \in Nat /\ list[n] \in Made
    BY <2>1
  <2>3. \A p \in Made : KeyOf(p) \in Keys
    BY Typed
  <2> QED BY <2>2, <2>3
<1>2. ASSUME NEW n \in DOMAIN list, <<KeyOf(list[n]), key>> \in Same
      PROVE  Assoc(key, list) = list[n]
  <2>1. \A m \in found : m = n
    <3> SUFFICES ASSUME NEW m \in found PROVE m = n
      OBVIOUS
    <3>1. <<key, KeyOf(list[n])>> \in Same
      BY <1>1, <1>2 DEF EqualKeys
    <3>2. <<KeyOf(list[m]), KeyOf(list[n])>> \in Same
      BY <1>1, <3>1 DEF EqualKeys, KeyOf
    <3> QED BY <3>2 DEF Single
  <2>2. n \in found
    BY <1>2 DEF KeyOf
  <2>3. (CHOOSE i \in found : \A j \in found : i <= j) = n
    BY <1>1, <2>1, <2>2
  <2> QED BY <2>2, <2>3 DEF Assoc
<1>3. Lacks(list, key) => Assoc(key, list) = 0
  BY DEF Lacks, Assoc, KeyOf
<1>4. \A p \in Made : p # 0
  BY DEF Made
<1> QED BY <1>1, <1>2, <1>3, <1>4 DEF Lacks

(* The keys of pairs do not change; values do, and pairs are made.         *)
LEMMA Kept ==
    ASSUME pairs \in Seq(Pair), pairs' \in Seq(Pair), Len(pairs) <= Len(pairs'),
           \A p \in Made : KeyOf(p)' = KeyOf(p)
    PROVE  /\ Made \subseteq Made' /\ Seq(Made) \subseteq Seq(Made')
           /\ \A l : Single(l) => Single(l)'
           /\ \A i, l : Single(l) /\ Filed(i, l) => Filed(i, l)'
           /\ \A k, l : Single(l) => Assoc(k, l)' = Assoc(k, l)
           /\ \A c : GoodHset(c) => GoodHset(c)'
<1>1. Made \subseteq Made'
  BY DEF Made
<1>2. ASSUME NEW l \in Seq(Made) PROVE l \in Seq(Made')
  <2>1. \A i \in 1..Len(l) : l[i] \in Made'
    BY <1>1
  <2> QED BY <2>1
<1>3. ASSUME NEW l, Single(l) PROVE \A n \in DOMAIN l : KeyOf(l[n])' = KeyOf(l[n])
  <2>1. l \in Seq(Made)
    BY <1>3 DEF Single
  <2>2. \A n \in DOMAIN l : l[n] \in Made
    BY <2>1
  <2> QED BY <2>2
<1>4. ASSUME NEW l, Single(l) PROVE Single(l)'
  <2>1. l \in Seq(Made')
    BY <1>2, <1>4 DEF Single
  <2> QED BY <1>3, <1>4, <2>1 DEF Single
<1>5. ASSUME NEW i, NEW l, Single(l), Filed(i, l) PROVE Filed(i, l)'
  BY <1>3, <1>5 DEF Filed
<1>6. ASSUME NEW k, NEW l, Single(l) PROVE Assoc(k, l)' = Assoc(k, l)
  <2>1. {i \in DOMAIN l : <<pairs'[l[i]].key, k>> \in Same}
          = {i \in DOMAIN l : <<pairs[l[i]].key, k>> \in Same}
    BY <1>3, <1>6 DEF KeyOf
  <2> DEFINE Pick(S) == IF S = {} THEN 0 ELSE l[CHOOSE i \in S : \A j \in S : i <= j]
  <2>2. Assoc(k, l) = Pick({i \in DOMAIN l : <<pairs[l[i]].key, k>> \in Same})
    BY DEF Assoc
  <2>3. Assoc(k, l)' = Pick({i \in DOMAIN l : <<pairs'[l[i]].key, k>> \in Same})
    BY DEF Assoc
  <2> HIDE DEF Pick
  <2> QED BY <2>1, <2>2, <2>3
<1>7. ASSUME NEW k, NEW l, Ready(k, l) PROVE Ready(k, l)'
  <2>1. Lacks(l, k)'
    BY <1>3, <1>7 DEF Ready, Lacks
  <2> QED BY <1>4, <1>5, <1>7, <2>1 DEF Ready
<1>8. ASSUME NEW c, GoodHset(c) PROVE GoodHset(c)'
  <2> SUFFICES ASSUME c.proc = "hset" PROVE KnowsPair(c)'
    BY <1>8 DEF GoodHset
  <2>1. KnowsPair(c)
    BY <1>8 DEF GoodHset
  <2>2. CASE c \in Pairing
    <3>1. c \in Pairing' /\ c \notin Linking'
      BY <1>2, <2>2 DEF Pairing, Linking
    <3> QED BY <1>7, <2>1, <2>2, <3>1 DEF KnowsPair
  <2>3. CASE c \in Linking
    <3>1. c \in Linking' /\ c \notin Pairing' /\ KeyOf(c.cell)' = KeyOf(c.cell)
      BY <1>1, <1>2, <2>3 DEF Pairing, Linking
    <3>2. Ready(KeyOf(c.cell), c.l)
      BY <2>1, <2>3 DEF KnowsPair
    <3>3. \A k : Ready(k, c.l) => Ready(k, c.l)'
      BY <1>7
    <3> QED BY <3>1, <3>2, <3>3 DEF KnowsPair, Ready, Lacks, Filed
  <2> QED BY <2>1, <2>2, <2>3 DEF KnowsPair
<1> QED BY <1>1, <1>2, <1>4, <1>5, <1>6, <1>8

LEMMA MarksHset ==
    ASSUME NEW c, GoodHset(c)
    PROVE  GoodHset([c EXCEPT !.gc = TRUE])
<1> DEFINE d == [c EXCEPT !.gc = TRUE]
<1>1. DOMAIN d = DOMAIN c /\ \A f \in DOMAIN c : f # "gc" => d[f] = c[f]
  OBVIOUS
<1>2. "proc" \in DOMAIN d /\ d.proc = c.proc
  BY <1>1 DEF GoodHset
<1>3. ASSUME c.proc = "hset" PROVE KnowsPair(d)
  <2>1. KnowsPair(c)
    BY <1>3 DEF GoodHset
  <2>2. CASE c \in Pairing
    <3>1. d \in Pairing /\ d \notin Linking /\ d.key = c.key /\ d.l = c.l
      BY <2>2 DEF Pairing, Linking
    <3> QED BY <2>1, <2>2, <3>1 DEF KnowsPair
  <2>3. CASE c \in Linking
    <3>1. d \in Linking /\ d \notin Pairing /\ d.cell = c.cell /\ d.l = c.l
      BY <2>3 DEF Pairing, Linking
    <3> QED BY <2>1, <2>3, <3>1 DEF KnowsPair
  <2> QED BY <2>1, <2>2, <2>3 DEF KnowsPair
<1> QED BY <1>2, <1>3 DEF GoodHset

-----------------------------------------------------------------------------
(* Each step keeps the invariant. *)

LEMMA PairsStart == Init => PairInv
<1> SUFFICES ASSUME Init PROVE PairInv
  OBVIOUS
<1>1. /\ pairs = <<>> /\ calls = <<>> /\ table = [i \in Indices |-> <<>>]
      /\ dict = [k \in Keys |-> None]
  BY DEF Init, HashInit
<1>2. \A i \in Indices : Single(table[i]) /\ Filed(i, table[i])
  BY <1>1 DEF Single, Filed
<1>3. LastSet
  <2>1. \A k \in Keys : table[Index[k]] = <<>>
    BY <1>1 DEF Indices
  <2>2. \A k \in Keys : Assoc(k, <<>>) = 0
    BY DEF Assoc
  <2> QED BY <1>1, <2>1, <2>2 DEF LastSet, Href
<1>4. Stack /\ Range(calls) = {}
  <2>1. calls \in Seq({})
    BY <1>1
  <2> QED BY <1>1, <2>1 DEF Stack, Range
<1> QED BY <1>1, <1>2, <1>3, <1>4 DEF PairInv

LEMMA SameTable ==
    ASSUME PairInv, UNCHANGED tableVars, Stack', \A c \in Range(calls)' : GoodHset(c)
    PROVE  PairInv'
<1>1. Made' = Made /\ \A p : KeyOf(p)' = KeyOf(p)
  BY DEF tableVars, Made, KeyOf
<1>2. \A i, l : (Single(l)' <=> Single(l)) /\ (Filed(i, l)' <=> Filed(i, l))
  BY <1>1 DEF Single, Filed
<1>3. \A c : GoodHset(c) => GoodHset(c)'
  BY <1>1, Kept DEF tableVars, PairInv
<1>4. LastSet'
  <2>1. \A key, l : Assoc(key, l)' = Assoc(key, l)
    BY DEF Assoc, tableVars
  <2>2. \A key : Href(key)' = Href(key)
    BY <2>1 DEF Href, tableVars
  <2> QED BY <2>2 DEF PairInv, LastSet, tableVars
<1>5. \A i \in Indices : (Single(table[i]) /\ Filed(i, table[i]))'
  BY <1>2 DEF PairInv, tableVars
<1> QED BY <1>1, <1>3, <1>4, <1>5 DEF PairInv, tableVars

(* An old pair gets the value. *)
LEMMA ChangesSafely ==
    ASSUME EqualKeys, PairInv, NEW key \in Keys, NEW value \in Values,
           NEW p, p = Assoc(key, table[Index[key]]), p # 0,
           pairs' = [pairs EXCEPT ![p].value = value], dict' = IsSet(key, value),
           UNCHANGED <<calls, table, late>>
    PROVE  PairInv'
<1> DEFINE i == Index[key]
<1>1. i \in Indices /\ Single(table[i])
  BY DEF PairInv, Indices
<1>2. PICK n \in DOMAIN table[i] : p = table[i][n] /\ <<KeyOf(p), key>> \in Same
  BY <1>1, Found DEF PairInv
<1>3. p \in Made /\ pairs \in Seq(Pair)
  BY <1>1, <1>2 DEF PairInv, Single
<1>4. /\ pairs' \in Seq(Pair) /\ Len(pairs') = Len(pairs)
      /\ \A q \in Made : KeyOf(q)' = KeyOf(q)
      /\ \A q \in Made : q # p => pairs'[q] = pairs[q]
      /\ pairs'[p].value = value
  <2>1. pairs[p] \in Pair
    BY <1>3, Typed
  <2>2. [pairs[p] EXCEPT !.value = value] \in Pair
    BY <2>1 DEF Pair
  <2>3. /\ pairs' = [pairs EXCEPT ![p] = [pairs[p] EXCEPT !.value = value]]
        /\ p \in 1..Len(pairs)
    BY <1>3 DEF Made
  <2>4. /\ pairs' \in Seq(Pair) /\ Len(pairs') = Len(pairs)
        /\ \A q \in Made : q # p => pairs'[q] = pairs[q]
        /\ pairs'[p] = [pairs[p] EXCEPT !.value = value]
    BY <1>3, <2>2, <2>3 DEF Made
  <2>5. pairs'[p].value = value /\ pairs'[p].key = pairs[p].key
    BY <2>1, <2>4 DEF Pair
  <2> QED BY <2>4, <2>5 DEF KeyOf
<1>5. Made' = Made
  BY <1>4 DEF Made
<1>6. /\ \A l : Single(l) => Single(l)'
      /\ \A j, l : Single(l) /\ Filed(j, l) => Filed(j, l)'
      /\ \A k, l : Single(l) => Assoc(k, l)' = Assoc(k, l)
      /\ \A c : GoodHset(c) => GoodHset(c)'
  BY <1>3, <1>4, Kept
<1>7. ASSUME NEW k \in Keys, Index[k] \notin late PROVE Href(k)' = dict'[k]
  <2>1. PICK list : list = table[Index[k]]
    OBVIOUS
  <2>2. Single(list) /\ Index[k] \in Indices
    BY <2>1 DEF PairInv, Indices
  <2>3. PICK q : q = Assoc(k, list)
    OBVIOUS
  <2>4. Assoc(k, list)' = q /\ table'[Index[k]] = list
    BY <1>6, <2>1, <2>2, <2>3
  <2>5. Href(k)' = IF q = 0 THEN None ELSE pairs'[q].value
    BY <2>4 DEF Href
  <2>6. Href(k) = IF q = 0 THEN None ELSE pairs[q].value
    BY <2>1, <2>3 DEF Href
  <2>7. CASE <<k, key>> \in Same
    <3>1. list = table[i] /\ <<KeyOf(p), k>> \in Same
      <4>1. KeyOf(p) \in Keys
        BY <1>3, Typed
      <4>2. <<key, k>> \in Same
        BY <2>7 DEF EqualKeys
      <4>3. <<KeyOf(p), k>> \in Same
        BY <1>2, <4>1, <4>2 DEF EqualKeys
      <4>4. Index[k] = i
        BY <2>7 DEF EqualKeys
      <4> QED BY <2>1, <4>3, <4>4
    <3>2. q = p
      BY <1>2, <1>3, <2>2, <2>3, <3>1, Found
    <3>3. dict'[k] = value
      BY <2>7 DEF IsSet
    <3> QED BY <1>4, <2>5, <3>2, <3>3
  <2>8. CASE <<k, key>> \notin Same
    <3>1. dict'[k] = dict[k] /\ dict[k] = Href(k)
      BY <1>7, <2>8 DEF IsSet, PairInv, LastSet
    <3>2. CASE q # 0
      <4>1. PICK m \in DOMAIN list : q = list[m] /\ <<KeyOf(q), k>> \in Same
        BY <1>3, <2>2, <2>3, <3>2, Found
      <4>2. q \in Made
        BY <2>2, <4>1 DEF Single
      <4>3. KeyOf(p) \in Keys
        BY <1>3, Typed
      <4>4. q # p
        <5> SUFFICES ASSUME q = p PROVE FALSE
          OBVIOUS
        <5>1. <<k, KeyOf(p)>> \in Same
          BY <4>1, <4>3 DEF EqualKeys
        <5>2. <<k, key>> \in Same
          BY <1>2, <4>3, <5>1 DEF EqualKeys
        <5> QED BY <2>8, <5>2
      <4> QED BY <1>4, <2>5, <2>6, <3>1, <3>2, <4>2, <4>4
    <3>3. CASE q = 0
      BY <2>5, <2>6, <3>1, <3>3
    <3> QED BY <3>2, <3>3
  <2> QED BY <2>7, <2>8
<1>8. LastSet'
  BY <1>7 DEF LastSet
<1>9. \A j \in Indices : (Single(table[j]) /\ Filed(j, table[j]))'
  <2> SUFFICES ASSUME NEW j \in Indices PROVE (Single(table[j]) /\ Filed(j, table[j]))'
    BY DEF Indices
  <2>1. PICK l : l = table[j]
    OBVIOUS
  <2>2. Single(l)' /\ Filed(j, l)'
    BY <1>6, <2>1 DEF PairInv
  <2> QED BY <2>1, <2>2 DEF Single, Filed
<1>10. dict' \in [Keys -> Values \cup {None}]
  BY DEF IsSet, PairInv
<1>11. Stack' /\ \A c \in Range(calls)' : GoodHset(c)'
  BY <1>6 DEF PairInv, Stack, Range
<1> QED BY <1>4, <1>5, <1>8, <1>9, <1>10, <1>11 DEF PairInv

LEMMA HsetsSafely ==
    ASSUME EqualKeys, PairInv, NEW key \in Keys, NEW value \in Values, Hset(key, value)
    PROVE  PairInv'
<1>1. PICK l : l = table[Index[key]]
  OBVIOUS
<1>2. Single(l) /\ Filed(Index[key], l)
  BY <1>1 DEF PairInv, Indices
<1>3. CASE Assoc(key, l) # 0
  <2>1. PICK p : p = Assoc(key, l)
    OBVIOUS
  <2> QED BY <1>1, <1>3, <2>1, ChangesSafely DEF Hset
<1>4. CASE Assoc(key, l) = 0
  <2>1. PICK c : c = [proc |-> "hset", at |-> "pair", gc |-> FALSE,
                      key |-> key, value |-> value, l |-> l]
    OBVIOUS
  <2>2. Begin(c) /\ UNCHANGED tableVars
    BY <1>1, <1>4, <2>1 DEF Hset
  <2>3. Ready(key, l)
    BY <1>2, <1>4, Found DEF PairInv, Ready
  <2>4. c \in Pairing /\ c \notin Linking
    BY <1>2, <2>1 DEF Pairing, Linking, Single
  <2>5. GoodHset(c)
    BY <2>1, <2>3, <2>4 DEF GoodHset, KnowsPair
  <2>6. Stack' /\ \A d \in Range(calls)' : GoodHset(d)
    BY <2>2, <2>5, Begins DEF PairInv
  <2> QED BY <2>2, <2>6, SameTable
<1> QED BY <1>3, <1>4

LEMMA MakesPairSafely ==
    ASSUME EqualKeys, PairInv, MakePair
    PROVE  PairInv'
<1>1. ~Evaluating
  BY DEF MakePair, Allocates, Evaluating, AfterGc
<1>2. PICK c \in Range(calls) : c = Innermost
  BY <1>1, Inside DEF PairInv
<1>3. c \in Pairing /\ Ready(c.key, c.l)
  <2>1. c.proc = "hset" /\ c.at = "pair"
    BY <1>2 DEF MakePair, Allocates
  <2>2. KnowsPair(c)
    BY <2>1 DEF PairInv, GoodHset
  <2>3. c \in Pairing
    BY <2>1, <2>2 DEF KnowsPair, Pairing, Linking
  <2> QED BY <2>2, <2>3 DEF KnowsPair
<1>4. PICK pair \in Pair : pair = [key |-> c.key, value |-> c.value]
  BY <1>3 DEF Pairing, Pair
<1>5. PICK d : d = [proc |-> "hset", at |-> "list", gc |-> FALSE,
                    cell |-> Len(pairs) + 1, l |-> c.l]
  OBVIOUS
<1>6. /\ pairs' = Append(pairs, pair) /\ pairs \in Seq(Pair)
      /\ UNCHANGED <<table, dict, late>>
  BY <1>2, <1>4 DEF MakePair, PairInv
<1>7. /\ pairs' \in Seq(Pair) /\ Len(pairs') = Len(pairs) + 1
      /\ \A p \in Made : pairs'[p] = pairs[p]
      /\ pairs'[Len(pairs) + 1] = pair
  BY <1>6, AppendProperties DEF Made
<1>8. Continue(d)
  BY <1>2, <1>5, <1>7 DEF MakePair
<1>9. /\ Made \subseteq Made' /\ Seq(Made) \subseteq Seq(Made')
      /\ \A l : Single(l) => Single(l)'
      /\ \A i, l : Single(l) /\ Filed(i, l) => Filed(i, l)'
      /\ \A k, l : Single(l) => Assoc(k, l)' = Assoc(k, l)
      /\ \A e : GoodHset(e) => GoodHset(e)'
  <2>1. Len(pairs) <= Len(pairs')
    BY <1>6, <1>7
  <2> QED BY <1>6, <1>7, <2>1, Kept DEF KeyOf
<1>10. Len(pairs) + 1 \in Made'
  BY <1>6, <1>7 DEF Made
<1>11. Ready(c.key, c.l)'
  <2>1. \A n \in DOMAIN c.l : KeyOf(c.l[n])' = KeyOf(c.l[n])
    <3>1. c.l \in Seq(Made)
      BY <1>3 DEF Pairing
    <3>2. \A n \in DOMAIN c.l : c.l[n] \in Made
      BY <3>1
    <3> QED BY <1>7, <3>2 DEF KeyOf
  <2>2. Lacks(c.l, c.key)'
    BY <1>3, <2>1 DEF Ready, Lacks
  <2> QED BY <1>3, <1>9, <2>2 DEF Ready
<1>12. GoodHset(d)'
  <2>1. d \in Linking' /\ d \notin Pairing'
    BY <1>3, <1>5, <1>9, <1>10 DEF Pairing, Linking
  <2>2. KeyOf(d.cell)' = c.key /\ d.l = c.l
    <3>1. d.cell = Len(pairs) + 1 /\ d.l = c.l
      BY <1>5
    <3>2. pairs'[d.cell].key = c.key
      BY <1>4, <1>7, <3>1
    <3> QED BY <3>1, <3>2 DEF KeyOf
  <2>3. KnowsPair(d)'
    BY <1>11, <2>1, <2>2 DEF KnowsPair, Ready, Lacks, Filed
  <2> QED BY <1>5, <2>3 DEF GoodHset
<1>13. Stack' /\ \A e \in Range(calls)' : GoodHset(e)'
  <2>1. Stack' /\ Range(calls)' \subseteq Range(calls) \cup {d}
    BY <1>1, <1>8, Continues DEF PairInv
  <2> QED BY <1>9, <1>12, <2>1 DEF PairInv
<1>14. \A i \in Indices : (Single(table[i]) /\ Filed(i, table[i]))'
  <2> SUFFICES ASSUME NEW i \in Indices PROVE (Single(table[i]) /\ Filed(i, table[i]))'
    BY DEF Indices
  <2>1. PICK l : l = table[i]
    OBVIOUS
  <2>2. Single(l)' /\ Filed(i, l)'
    BY <1>9, <2>1 DEF PairInv
  <2> QED BY <1>6, <2>1, <2>2 DEF Single, Filed
<1>15. LastSet'
  <2> SUFFICES ASSUME NEW k \in Keys, Index[k] \notin late PROVE Href(k)' = dict[k]
    BY <1>6 DEF LastSet
  <2>1. PICK l : l = table[Index[k]]
    OBVIOUS
  <2>2. Single(l)
    BY <2>1 DEF PairInv, Indices
  <2>3. PICK q : q = Assoc(k, l)
    OBVIOUS
  <2>4. Assoc(k, l)' = q /\ table'[Index[k]] = l
    BY <1>6, <1>9, <2>1, <2>2, <2>3
  <2>5. Href(k)' = IF q = 0 THEN None ELSE pairs'[q].value
    BY <2>4 DEF Href
  <2>6. Href(k) = IF q = 0 THEN None ELSE pairs[q].value
    BY <2>1, <2>3 DEF Href
  <2>7. q # 0 => q \in Made
    <3> SUFFICES ASSUME q # 0 PROVE q \in Made
      OBVIOUS
    <3>1. PICK n \in DOMAIN l : q = l[n]
      BY <1>6, <2>2, <2>3, Found
    <3> QED BY <2>2, <3>1 DEF Single
  <2> QED BY <1>7, <2>5, <2>6, <2>7 DEF PairInv, LastSet
<1>16. table' \in [Indices -> Seq(Made')]
  BY <1>6, <1>9 DEF PairInv
<1> QED BY <1>6, <1>7, <1>13, <1>14, <1>15, <1>16 DEF PairInv

LEMMA LinksSafely ==
    ASSUME EqualKeys, PairInv, StoreList
    PROVE  PairInv'
<1>1. ~Evaluating
  BY DEF StoreList, Allocates, Evaluating, AfterGc
<1>2. PICK c \in Range(calls) : c = Innermost
  BY <1>1, Inside DEF PairInv
<1>3. PICK key : key = KeyOf(c.cell)
  OBVIOUS
<1> DEFINE i == Index[key]
           list == <<c.cell>> \o c.l
<1>4. c \in Linking /\ Ready(key, c.l)
  <2>1. c.proc = "hset" /\ c.at = "list"
    BY <1>2 DEF StoreList, Allocates
  <2>2. KnowsPair(c)
    BY <2>1 DEF PairInv, GoodHset
  <2>3. c \in Linking
    BY <2>1, <2>2 DEF KnowsPair, Pairing, Linking
  <2> QED BY <1>3, <2>2, <2>3 DEF KnowsPair
<1>5. /\ c.cell \in Made /\ c.l \in Seq(Made) /\ key \in Keys /\ i \in Indices
      /\ pairs \in Seq(Pair) /\ pairs[c.cell] \in Pair
  <2>1. c.cell \in Made /\ c.l \in Seq(Made)
    BY <1>4 DEF Linking
  <2> QED BY <1>3, <2>1, Typed DEF PairInv, Indices
<1>6. PICK value : value = pairs[c.cell].value
  OBVIOUS
<1>7. /\ table' = [table EXCEPT ![i] = list]
      /\ late' = IF table[i] = c.l THEN late ELSE late \cup {i}
      /\ dict' = IsSet(key, value) /\ UNCHANGED pairs /\ Finish
  BY <1>2, <1>3, <1>6 DEF StoreList, KeyOf
<1>8. Made' = Made /\ (\A p : KeyOf(p)' = KeyOf(p)) /\ \A e : GoodHset(e) => GoodHset(e)'
  <2>1. Made' = Made /\ \A p : KeyOf(p)' = KeyOf(p)
    BY <1>7 DEF Made, KeyOf
  <2>2. pairs' = pairs /\ Len(pairs) <= Len(pairs')
    BY <1>5, <1>7
  <2> QED BY <1>5, <2>1, <2>2, Kept
<1>9. /\ Len(c.l) \in Nat /\ DOMAIN c.l = 1..Len(c.l) /\ list \in Seq(Made)
      /\ DOMAIN list = 1..(Len(c.l) + 1) /\ list[1] = c.cell
      /\ \A n \in 2..(Len(c.l) + 1) : list[n] = c.l[n - 1] /\ n - 1 \in DOMAIN c.l
      /\ \A n \in DOMAIN c.l : list[n + 1] = c.l[n] /\ n + 1 \in 2..(Len(c.l) + 1)
  BY <1>5
<1>10. ASSUME NEW n \in 2..(Len(c.l) + 1)
       PROVE  /\ <<KeyOf(list[n]), KeyOf(list[1])>> \notin Same
              /\ <<KeyOf(list[1]), KeyOf(list[n])>> \notin Same
  <2>1. <<KeyOf(c.l[n - 1]), key>> \notin Same /\ c.l[n - 1] \in Made
    <3>1. n - 1 \in DOMAIN c.l
      BY <1>9
    <3>2. \A m \in DOMAIN c.l : c.l[m] \in Made
      BY <1>5
    <3>3. \A m \in DOMAIN c.l : <<KeyOf(c.l[m]), key>> \notin Same
      BY <1>4 DEF Ready, Lacks
    <3> QED BY <3>1, <3>2, <3>3
  <2>2. KeyOf(c.l[n - 1]) \in Keys
    BY <1>5, <2>1, Typed
  <2>3. <<key, KeyOf(c.l[n - 1])>> \notin Same
    BY <1>5, <2>1, <2>2 DEF EqualKeys
  <2> QED BY <1>3, <1>9, <2>1, <2>3
<1>11. Single(list) /\ Filed(i, list)
  <2>1. \A n \in DOMAIN list : n = 1 \/ n \in 2..(Len(c.l) + 1)
    BY <1>9
  <2>2. ASSUME NEW m \in DOMAIN list, NEW n \in DOMAIN list,
               <<KeyOf(list[m]), KeyOf(list[n])>> \in Same
        PROVE  m = n
    <3>1. CASE m \in 2..(Len(c.l) + 1) /\ n \in 2..(Len(c.l) + 1)
      <4>1. m - 1 \in DOMAIN c.l /\ n - 1 \in DOMAIN c.l
        BY <1>9, <3>1
      <4>2. <<KeyOf(c.l[m - 1]), KeyOf(c.l[n - 1])>> \in Same
        BY <1>9, <2>2, <3>1
      <4>3. m - 1 = n - 1
        BY <1>4, <4>1, <4>2 DEF Ready, Single
      <4>4. m \in Nat /\ n \in Nat
        BY <1>9
      <4> QED BY <4>3, <4>4
    <3> QED BY <1>10, <2>1, <2>2, <3>1
  <2>3. \A n \in DOMAIN list : Index[KeyOf(list[n])] = i
    <3>1. \A m \in DOMAIN c.l : Index[KeyOf(c.l[m])] = i
      BY <1>4 DEF Ready, Filed
    <3>2. \A n \in 2..(Len(c.l) + 1) : Index[KeyOf(list[n])] = i
      BY <1>9, <3>1
    <3> QED BY <1>3, <1>9, <2>1, <3>2
  <2> QED BY <1>9, <2>2, <2>3 DEF Single, Filed
<1>12. table'[i] = list /\ \A j \in Indices : j # i => table'[j] = table[j]
  BY <1>5, <1>7 DEF PairInv
<1>13. ASSUME NEW k \in Keys, Index[k] \notin late' PROVE Href(k)' = dict'[k]
  <2>1. Index[k] \in Indices /\ Index[k] \notin late
    BY <1>7, <1>13 DEF Indices
  <2>2. \A l : Assoc(k, l)' = Assoc(k, l)
    BY <1>7 DEF Assoc
  <2>3. PICK new : new = table'[Index[k]]
    OBVIOUS
  <2>4. Href(k)' = IF Assoc(k, new) = 0 THEN None ELSE pairs[Assoc(k, new)].value
    BY <1>7, <2>3 DEF Href, Assoc
  <2>5. CASE <<k, key>> \in Same
    <3>1. new = list
      BY <1>5, <1>12, <2>3, <2>5 DEF EqualKeys
    <3>2. <<KeyOf(list[1]), k>> \in Same
      BY <1>3, <1>5, <1>9, <2>5 DEF EqualKeys
    <3>3. Assoc(k, list) = c.cell
      <4>1. 1 \in DOMAIN list /\ list[1] = c.cell
        BY <1>9
      <4> QED BY <1>5, <1>11, <3>2, <4>1, Found
    <3>4. c.cell # 0
      BY <1>5 DEF Made
    <3>5. dict'[k] = value
      BY <1>7, <2>5 DEF IsSet
    <3> QED BY <1>6, <2>4, <3>1, <3>3, <3>4, <3>5
  <2>6. CASE <<k, key>> \notin Same
    <3>1. dict'[k] = dict[k] /\ dict[k] = Href(k)
      BY <1>7, <2>1, <2>6 DEF IsSet, PairInv, LastSet
    <3>2. CASE Index[k] # i
      <4>1. new = table[Index[k]]
        BY <1>12, <2>1, <2>3, <3>2
      <4> QED BY <2>4, <3>1, <4>1 DEF Href
    <3>3. CASE Index[k] = i
      <4>1. table[Index[k]] = c.l /\ new = list
        BY <1>7, <1>12, <1>13, <2>3, <3>3
      <4>2. Assoc(k, list) = Assoc(k, c.l)
        <5>1. CASE Lacks(c.l, k)
          <6>1. <<KeyOf(list[1]), k>> \notin Same
            BY <1>3, <1>5, <1>9, <2>6 DEF EqualKeys
          <6>2. Lacks(list, k)
            <7>1. \A n \in DOMAIN list : n = 1 \/ n \in 2..(Len(c.l) + 1)
              BY <1>9
            <7> QED BY <1>9, <5>1, <6>1, <7>1 DEF Lacks
          <6> QED BY <1>4, <1>5, <1>11, <5>1, <6>2, Found DEF Ready
        <5>2. CASE ~Lacks(c.l, k)
          <6>1. PICK n \in DOMAIN c.l : <<KeyOf(c.l[n]), k>> \in Same
            BY <5>2 DEF Lacks
          <6>2. list[n + 1] = c.l[n] /\ n + 1 \in DOMAIN list
            BY <1>9
          <6>3. Assoc(k, c.l) = c.l[n]
            BY <1>4, <1>5, <6>1, Found DEF Ready
          <6>4. Assoc(k, list) = list[n + 1]
            BY <1>5, <1>11, <6>1, <6>2, Found
          <6> QED BY <6>2, <6>3, <6>4
        <5> QED BY <5>1, <5>2
      <4> QED BY <2>4, <3>1, <4>1, <4>2 DEF Href
    <3> QED BY <3>2, <3>3
  <2> QED BY <2>5, <2>6
<1>14. \A j \in Indices : (Single(table[j]) /\ Filed(j, table[j]))'
  <2> SUFFICES ASSUME NEW j \in Indices PROVE (Single(table[j]) /\ Filed(j, table[j]))'
    BY DEF Indices
  <2>1. PICK l : l = table'[j]
    OBVIOUS
  <2>2. Single(l) /\ Filed(j, l)
    BY <1>11, <1>12, <2>1 DEF PairInv
  <2> QED BY <1>8, <2>1, <2>2 DEF Single, Filed
<1>15. Stack' /\ \A e \in Range(calls)' : GoodHset(e)'
  <2>1. Stack' /\ Range(calls)' \subseteq Range(calls)
    BY <1>1, <1>7, Finishes DEF PairInv
  <2> QED BY <1>8, <2>1 DEF PairInv
<1>16. dict' \in [Keys -> Values \cup {None}]
  <2>1. value \in Values
    BY <1>5, <1>6 DEF Pair
  <2> QED BY <1>7, <2>1 DEF IsSet, PairInv
<1>17. table' \in [Indices -> Seq(Made')] /\ pairs' \in Seq(Pair) /\ LastSet'
  <2>1. LastSet'
    BY <1>13 DEF LastSet
  <2> QED BY <1>5, <1>7, <1>8, <1>9, <2>1 DEF PairInv
<1> QED BY <1>14, <1>15, <1>16, <1>17 DEF PairInv

LEMMA InternsSafely ==
    ASSUME PairInv, SymbolNext, UNCHANGED tableVars
    PROVE  PairInv'
<1>1. \A c : "proc" \in DOMAIN c /\ c.proc = "gen_intern" => GoodHset(c)
  BY DEF GoodHset
<1>2. Stack' /\ \A d \in Range(calls)' : GoodHset(d)
  <2>1. CASE UNCHANGED calls
    BY <2>1 DEF PairInv, Stack, Range
  <2>2. ASSUME NEW c, "proc" \in DOMAIN c, c.proc = "gen_intern", Begin(c)
        PROVE  Stack' /\ \A d \in Range(calls)' : GoodHset(d)
    BY <1>1, <2>2, Begins DEF PairInv
  <2>3. CASE MakeSymbol \/ StoreBucket
    <3>1. ~Evaluating
      BY <2>3 DEF MakeSymbol, StoreBucket, Allocates, Evaluating, AfterGc
    <3>2. PICK c : "proc" \in DOMAIN c /\ c.proc = "gen_intern" /\ Continue(c)
      <4>1. CASE MakeSymbol
        BY <4>1 DEF MakeSymbol
      <4>2. CASE StoreBucket
        BY <4>2 DEF StoreBucket
      <4> QED BY <2>3, <4>1, <4>2
    <3> QED BY <1>1, <3>1, <3>2, Continues DEF PairInv
  <2>4. CASE StoreOblist
    <3>1. ~Evaluating /\ Finish
      BY <2>4 DEF StoreOblist, Allocates, Evaluating, AfterGc
    <3> QED BY <3>1, Finishes DEF PairInv
  <2>5. ASSUME NEW name \in Names, Intern(name)
        PROVE  Stack' /\ \A d \in Range(calls)' : GoodHset(d)
    BY <2>1, <2>2, <2>5 DEF Intern
  <2> QED BY <2>3, <2>4, <2>5 DEF SymbolNext
<1> QED BY <1>2, SameTable

LEMMA ReentersKeepPairs ==
    ASSUME PairInv, Reenter
    PROVE  PairInv'
<1>1. /\ Stack'
      /\ \/ Range(calls)' \subseteq Range(calls)
         \/ /\ ~Evaluating
            /\ Range(calls)' \subseteq
                  Range(calls) \cup {[Innermost EXCEPT !.gc = TRUE], AfterGc}
  BY Reenters DEF PairInv, Reenter
<1>2. GoodHset(AfterGc)
  BY DEF GoodHset, AfterGc
<1>3. ~Evaluating => GoodHset([Innermost EXCEPT !.gc = TRUE])
  BY Inside, MarksHset DEF PairInv
<1>4. \A d \in Range(calls)' : GoodHset(d)
  BY <1>1, <1>2, <1>3 DEF PairInv
<1> QED BY <1>1, <1>4, SameTable DEF Reenter

LEMMA StuttersKeepPairs ==
    ASSUME PairInv, UNCHANGED vars
    PROVE  PairInv'
<1>1. Stack' /\ \A d \in Range(calls)' : GoodHset(d)
  BY DEF vars, PairInv, Stack, Range
<1> QED BY <1>1, SameTable DEF vars

LEMMA PairSteps ==
    ASSUME EqualKeys
    PROVE  PairInv /\ [Next]_vars => PairInv'
<1> SUFFICES ASSUME PairInv, [Next]_vars PROVE PairInv'
  OBVIOUS
<1>1. ASSUME NEW key \in Keys, NEW value \in Values, Hset(key, value) PROVE PairInv'
  BY <1>1, HsetsSafely
<1>2. CASE MakePair
  BY <1>2, MakesPairSafely
<1>3. CASE StoreList
  BY <1>3, LinksSafely
<1>4. CASE SymbolNext /\ UNCHANGED tableVars
  BY <1>4, InternsSafely
<1>5. CASE Reenter
  BY <1>5, ReentersKeepPairs
<1>6. CASE UNCHANGED vars
  BY <1>6, StuttersKeepPairs
<1> QED BY <1>1, <1>2, <1>3, <1>4, <1>5, <1>6 DEF Next, HashNext

-----------------------------------------------------------------------------
(* Where equal is an equivalence that c_sxhash agrees with, href returns   *)
(* the value last set for any equal key, at each index no call of hset was *)
(* overtaken at.                                                           *)
THEOREM ValuesAreKept ==
    ASSUME EqualKeys
    PROVE  Spec => []LastSet
<1>1. Init => PairInv
  BY PairsStart
<1>2. PairInv /\ [Next]_vars => PairInv'
  BY PairSteps
<1>3. PairInv => LastSet
  BY DEF PairInv
<1> QED BY <1>1, <1>2, <1>3, PTL DEF Spec

(* And no list of the table has two equal keys, also where calls have been *)
(* overtaken.                                                              *)
THEOREM NoneShadowed ==
    ASSUME EqualKeys
    PROVE  Spec => []NoShadows
<1>1. Init => PairInv
  BY PairsStart
<1>2. PairInv /\ [Next]_vars => PairInv'
  BY PairSteps
<1>3. PairInv => NoShadows
  BY DEF PairInv, Single, KeyOf, NoShadows
<1> QED BY <1>1, <1>2, <1>3, PTL DEF Spec
===============================================================================
