------------------------------ MODULE FastIOProof ------------------------------
(***************************************************************************)
(* The indices of symbols in the stream of fast_print, and what fast_read  *)
(* makes of the stream, for any objects without cycles, any number of      *)
(* prints and any depth of re-entries.                                     *)
(*                                                                         *)
(* An index below the doubtful ones is stored once, and the call that is   *)
(* about to store one has the next (Once, Alone).  An entry of the table,  *)
(* or of what a call has read of it, has its index and name in the stream, *)
(* but for one a call is about to write (TableNamed, ReadNamed), so that a *)
(* fetch comes behind the name it stands for (Behind).                     *)
(*                                                                         *)
(* The stream stands for the objects that were printed and for what the    *)
(* call under way has done (WholeInv).  That fast_read makes an object of  *)
(* what stands for it is by induction over the objects, whose parts are    *)
(* below them in some rank (Ranked); the functions Spine, Items, Canon and *)
(* FastRead, each a CHOOSE, satisfy their equations since these determine  *)
(* them place by place (Recursion, SpineIs, ItemsAre, CanonIs, FastReadIs).*)
(***************************************************************************)
EXTENDS FastIO, SequenceTheorems, FiniteSetTheorems, WellFoundedInduction, TLAPS

Types == {TypeOf(a) : a \in Objects}
Item == [op : {"cons", "FO_list", "FO_listd", "lisp_array"}, len : Nat]
          \cup [op : Types \ {"cons", "lisp_array"}, obj : Objects]
StoreOp == [op : {"FO_store"}, index : Nat]
FetchOp == [op : {"FO_fetch"}, index : Nat, sym : Objects]
Name == [op : {"symbol"}, obj : Objects]
Tokens == Item \cup StoreOp \cup FetchOp \cup Name \cup {LoneSymbol}
Entries == [sym : Objects, index : Nat]
Printing == [proc : {"fast_print"}, at : {"hset", "plus"}, gc : BOOLEAN, obj : Objects,
             sym : Objects, index : Nat, l : Seq(Entries), rest : Seq(Item)]
Call == Printing \cup {AfterGc}

Typing ==
    /\ calls \in Seq(Call) /\ file \in Seq(Tokens) /\ ht \in Seq(Entries)
    /\ next \in Nat /\ doubtful \in Nat /\ whole \in BOOLEAN

(* As long as no print was cut into or short no index is doubtful. *)
Unsure(i) == ~whole /\ doubtful <= i

(* A call whose index is not doubtful is the only one, and has the next    *)
(* index.                                                                  *)
Alone == \A i \in DOMAIN calls : calls[i] \in Printing =>
            /\ ~Unsure(calls[i].index) =>
                  /\ calls[i].index = next
                  /\ \A j \in DOMAIN calls : calls[j] \in Printing => j = i
            /\ Unsure(calls[i].index) => Unsure(next)

(* An index that is not doubtful is stored once, and below the next one. *)
Once == \A q \in DOMAIN file : file[q].op = "FO_store" /\ ~Unsure(file[q].index) =>
           /\ file[q].index < next
           /\ \A r \in DOMAIN file :
                 file[r].op = "FO_store" /\ file[r].index = file[q].index => r = q

(* An entry of the table, or of what a call has read of it, has its index  *)
(* and name in the stream, but for one whose call is about to write them.  *)
Names(q, sym, index) ==
    /\ q \in DOMAIN file /\ q + 1 \in DOMAIN file
    /\ file[q].op = "FO_store" /\ file[q].index = index
    /\ file[q + 1] = [op |-> "symbol", obj |-> sym]
Awaited(e) == \E i \in DOMAIN calls : /\ calls[i] \in Printing /\ calls[i].at = "plus"
                                      /\ calls[i].index = e.index /\ calls[i].sym = e.sym
Excused(e) == e.sym \in cut \/ Unsure(e.index)
Named(e) == Excused(e) \/ Awaited(e) \/ \E q \in DOMAIN file : Names(q, e.sym, e.index)
TableNamed == \A j \in DOMAIN ht : Named(ht[j])
ReadNamed == \A i \in DOMAIN calls : calls[i] \in Printing =>
                \A j \in DOMAIN calls[i].l : Named(calls[i].l[j])

(* A fetch comes behind the name it stands for. *)
Behind == \A p \in DOMAIN file : file[p].op = "FO_fetch" =>
             \/ Excused(file[p])
             \/ \E q \in DOMAIN file : q < p /\ Names(q, file[p].sym, file[p].index)

IInv == Typing /\ Alone /\ Once /\ TableNamed /\ ReadNamed /\ Behind

-----------------------------------------------------------------------------
(* Lists and sets. *)

LEMMA LeastIs ==
    ASSUME NEW S \in SUBSET Nat, S # {}
    PROVE  Least(S) \in S /\ \A j \in S : Least(S) <= j
<1> DEFINE R == OpToRel(<, Nat)
<1>1. IsWellFoundedOn(R, Nat)
  BY NatLessThanWellFounded
<1>2. \A i, j \in Nat : i < j => <<i, j>> \in R
  BY DEF OpToRel
<1> HIDE DEF R
<1>3. PICK i \in S : \A j \in S : ~(<<j, i>> \in R)
  BY <1>1, WFMin
<1>4. \A j \in S : i <= j
  <2> SUFFICES ASSUME NEW j \in S PROVE i <= j
    OBVIOUS
  <2>1. ~(j < i)
    BY <1>2, <1>3
  <2> QED BY <2>1
<1> QED BY <1>4 DEF Least

LEMMA Induction ==
    ASSUME NEW S, 0 \in S, \A n \in Nat : n \in S => n + 1 \in S
    PROVE  Nat \subseteq S
<1> SUFFICES ASSUME Nat \ S # {} PROVE FALSE
  OBVIOUS
<1>1. PICK n \in Nat \ S : \A m \in Nat \ S : n <= m
  <2>1. Nat \ S \in SUBSET Nat
    OBVIOUS
  <2> QED BY <2>1, LeastIs
<1>2. n # 0 /\ n - 1 \in Nat /\ n - 1 \in S
  BY <1>1
<1> QED BY <1>1, <1>2

Hereditary(S, D, rank) ==
    \A d \in D : (\A e \in D : rank[e] < rank[d] => e \in S) => d \in S

LEMMA RankInduction ==
    ASSUME NEW D, NEW M \in Nat, NEW rank \in [D -> 0..M], NEW S, Hereditary(S, D, rank)
    PROVE  D \subseteq S
<1> DEFINE P == {n \in Nat : \A d \in D : rank[d] < n => d \in S}
<1>1. \A d \in D : rank[d] \in Nat /\ rank[d] <= M
  OBVIOUS
<1>2. 0 \in P
  BY <1>1
<1>3. ASSUME NEW n \in Nat, n \in P PROVE n + 1 \in P
  <2>1. ASSUME NEW d \in D, rank[d] < n + 1 PROVE d \in S
    <3>1. \A e \in D : rank[e] < rank[d] => rank[e] < n
      BY <1>1, <2>1
    <3> QED BY <1>3, <3>1 DEF Hereditary
  <2> QED BY <2>1
<1> HIDE DEF P
<1>4. M + 1 \in P
  BY <1>2, <1>3, Induction
<1> QED BY <1>1, <1>4 DEF P

Solvable(F, W, D, M, rank, U, V) ==
    /\ M \in Nat /\ rank \in [D -> 0..M]
    /\ W = {g \in [D -> U] : \A d \in D : g[d] \in V[d]} /\ W # {}
    /\ \A d \in D : \A g \in W : F[d][g] \in U /\ F[d][g] \in V[d]
    /\ \A d \in D : \A g, h \in W :
          (\A e \in D : rank[e] < rank[d] => g[e] = h[e]) => F[d][g] = F[d][h]

LEMMA Recursion ==
    ASSUME NEW D, NEW M, NEW rank, NEW V, NEW U, NEW W, NEW F,
           Solvable(F, W, D, M, rank, U, V)
    PROVE  \E g \in W : \A d \in D : g[d] = F[d][g]
<1> USE DEF Solvable
<1> DEFINE P == {n \in Nat : \E g \in W : \A d \in D : rank[d] < n => g[d] = F[d][g]}
<1>1. \A d \in D : rank[d] \in Nat /\ rank[d] <= M
  OBVIOUS
<1>2. 0 \in P
  BY <1>1
<1>3. ASSUME NEW n \in Nat, n \in P PROVE n + 1 \in P
  <2>1. PICK g \in W : \A d \in D : rank[d] < n => g[d] = F[d][g]
    BY <1>3
  <2> DEFINE h == [d \in D |-> IF rank[d] < n THEN g[d] ELSE F[d][g]]
  <2>2. h \in W
    <3>1. \A d \in D : g[d] \in U /\ g[d] \in V[d] /\ F[d][g] \in U /\ F[d][g] \in V[d]
      BY <2>1
    <3> QED BY <3>1
  <2>3. \A d \in D : h[d] = F[d][g]
    BY <2>1
  <2>4. \A d \in D : rank[d] < n => h[d] = g[d]
    OBVIOUS
  <2> HIDE DEF h
  <2>5. ASSUME NEW d \in D, rank[d] < n + 1 PROVE h[d] = F[d][h]
    <3>1. \A e \in D : rank[e] < rank[d] => g[e] = h[e]
      BY <1>1, <2>4, <2>5
    <3> QED BY <2>1, <2>2, <2>3, <3>1
  <2> QED BY <2>2, <2>5
<1> HIDE DEF P
<1>4. M + 1 \in P
  BY <1>2, <1>3, Induction
<1>5. PICK g \in W : \A d \in D : rank[d] < M + 1 => g[d] = F[d][g]
  BY <1>4 DEF P
<1>6. \A d \in D : g[d] = F[d][g]
  BY <1>1, <1>5
<1> QED BY <1>6

(* The sequences of a sequence, one behind the other. *)
Joined(f, seqs, n) ==
    f[1] = seqs[1] /\ \A i \in 1..n : i # 1 => f[i] = f[i - 1] \o seqs[i]

LEMMA Flattened ==
    ASSUME NEW T, NEW n \in Nat \ {0}, NEW seqs \in Seq(Seq(T)), Len(seqs) = n
    PROVE  \E f \in [1..n -> Seq(T)] : Joined(f, seqs, n) /\ FlattenSeq(seqs) = f[n]
<1> DEFINE D == 1..n
           body(g, i) == IF i = 1 THEN seqs[i] ELSE g[i - 1] \o seqs[i]
           rank == [i \in D |-> i]
           U == Seq(T)
           W == [D -> U]
           V == [d \in D |-> U]
           F == [i \in D |-> [g \in W |-> body(g, i)]]
           f == CHOOSE g : g = [i \in D |-> body(g, i)]
<1>1. /\ FlattenSeq(seqs) = f[n]
  <2>1. n = Len(seqs) /\ Len(seqs) # 0
    OBVIOUS
  <2> QED BY <2>1 DEF FlattenSeq
<1>2. \A i \in D : /\ i \in Nat /\ seqs[i] \in Seq(T) /\ rank[i] = i
                   /\ i # 1 => i - 1 \in D /\ i - 1 < i
  OBVIOUS
<1>3. \A g \in W : \A i \in D : F[i][g] = body(g, i)
  OBVIOUS
<1>4. \A g \in W : \A i \in D : body(g, i) \in U
  BY <1>2
<1>5. \A g, h : \A i \in D : (\A j \in D : j < i => g[j] = h[j]) => body(g, i) = body(h, i)
  BY <1>2
<1>6. rank \in [D -> 0..n] /\ W # {} /\ n \in Nat
  <2>1. [i \in D |-> seqs[i]] \in W
    BY <1>2
  <2> QED BY <2>1
<1>13. /\ W = {g \in [D -> U] : \A d \in D : g[d] \in V[d]}
       /\ \A d \in D : V[d] = U
  OBVIOUS
<1> HIDE DEF body, F, rank, U, W, V, D, f
<1>7. PICK g \in W : \A i \in D : g[i] = F[i][g]
  <2>1. \A d \in D : \A h \in W : F[d][h] \in U /\ F[d][h] \in V[d]
    <3> SUFFICES ASSUME NEW d \in D, NEW h \in W PROVE F[d][h] \in U /\ F[d][h] \in V[d]
      OBVIOUS
    <3>1. F[d][h] \in U /\ V[d] = U
      BY <1>3, <1>4, <1>13
    <3> QED BY <3>1
  <2>2. \A d \in D : \A h, k \in W :
           (\A e \in D : rank[e] < rank[d] => h[e] = k[e]) => F[d][h] = F[d][k]
    <3> SUFFICES ASSUME NEW d \in D, NEW h \in W, NEW k \in W,
                        \A e \in D : rank[e] < rank[d] => h[e] = k[e]
                 PROVE  F[d][h] = F[d][k]
      OBVIOUS
    <3>1. \A j \in D : j < d => h[j] = k[j]
      BY <1>2
    <3>2. body(h, d) = body(k, d)
      BY <1>5, <3>1
    <3> QED BY <1>3, <3>2
  <2>3. Solvable(F, W, D, n, rank, U, V)
    BY <1>6, <1>13, <2>1, <2>2 DEF Solvable
  <2> QED BY <2>3, Recursion
<1>8. \A i \in D : g[i] = body(g, i)
  BY <1>3, <1>7
<1>14. g \in [D -> Seq(T)]
  BY DEF W, U
<1>9. g = [i \in D |-> body(g, i)]
  BY <1>8, <1>14
<1>10. f = [i \in D |-> body(f, i)]
  BY <1>9 DEF f
<1>11. D \subseteq {i \in D : f[i] = g[i]}
  <2> DEFINE S == {i \in D : f[i] = g[i]}
  <2>1. ASSUME NEW d \in D, \A e \in D : rank[e] < rank[d] => e \in S PROVE d \in S
    <3>1. \A j \in D : j < d => f[j] = g[j]
      BY <1>2, <2>1
    <3>2. f[d] = body(f, d) /\ g[d] = body(g, d)
      BY <1>8, <1>10
    <3> QED BY <1>5, <3>1, <3>2
  <2> HIDE DEF S, D
  <2>2. D \subseteq S
    <3>1. Hereditary(S, D, rank)
      BY <2>1 DEF Hereditary
    <3> QED BY <1>6, <3>1, RankInduction
  <2> QED BY <2>2 DEF S
<1>12. f[n] = g[n] /\ n \in D
  BY <1>11 DEF D
<1>15. Joined(g, seqs, n)
  <2>1. 1 \in D
    BY DEF D
  <2> QED BY <1>8, <2>1 DEF body, D, Joined
<1> QED BY <1>1, <1>12, <1>14, <1>15 DEF D

LEMMA Together ==
    ASSUME NEW T, NEW s \in Seq(T), NEW t \in Seq(T)
    PROVE  /\ s \o t \in Seq(T) /\ Len(s \o t) = Len(s) + Len(t)
           /\ \A i \in DOMAIN s : (s \o t)[i] = s[i]
           /\ \A k \in DOMAIN t : (s \o t)[Len(s) + k] = t[k]
           /\ \A p \in DOMAIN (s \o t) :
                 p \in DOMAIN s \/ (p - Len(s) \in DOMAIN t /\ (s \o t)[p] = t[p - Len(s)])
<1>1. /\ s \o t \in Seq(T) /\ Len(s \o t) = Len(s) + Len(t)
      /\ \A i \in 1..(Len(s) + Len(t)) :
            (s \o t)[i] = IF i <= Len(s) THEN s[i] ELSE t[i - Len(s)]
  BY ConcatProperties
<1>2. /\ Len(s) \in Nat /\ Len(t) \in Nat /\ DOMAIN s = 1..Len(s) /\ DOMAIN t = 1..Len(t)
      /\ DOMAIN (s \o t) = 1..(Len(s) + Len(t))
  BY <1>1
<1>3. ASSUME NEW k \in DOMAIN t PROVE (s \o t)[Len(s) + k] = t[k]
  <2>1. /\ Len(s) + k \in 1..(Len(s) + Len(t)) /\ ~(Len(s) + k <= Len(s))
        /\ Len(s) + k - Len(s) = k
    BY <1>2
  <2> QED BY <1>1, <2>1
<1>4. \A i \in DOMAIN s : (s \o t)[i] = s[i]
  BY <1>1, <1>2
<1>5. ASSUME NEW p \in DOMAIN (s \o t), p \notin DOMAIN s
      PROVE  p - Len(s) \in DOMAIN t /\ (s \o t)[p] = t[p - Len(s)]
  BY <1>1, <1>2, <1>5
<1> QED BY <1>1, <1>3, <1>4, <1>5

LEMMA Mapped ==
    ASSUME NEW T, NEW m \in Nat, NEW s, s = [i \in 1..m |-> s[i]],
           \A i \in 1..m : s[i] \in T
    PROVE  s \in Seq(T) /\ Len(s) = m /\ DOMAIN s = 1..m
<1>1. s \in [1..m -> T]
  OBVIOUS
<1> QED BY <1>1

-----------------------------------------------------------------------------
(* The recursive definitions: what a function is below a place determines  *)
(* what it is there, and parts are below what they are parts of.           *)

Settled(f, g, D, rank) ==
    \A d \in D : (\A e \in D : rank[e] < rank[d] => f[e] = g[e]) => f[d] = g[d]

Ranking(rank, D, M) == M \in Nat /\ rank \in [D -> 0..M]
SameOn(f, g, D) == \A d \in D : f[d] = g[d]

LEMMA SameFunction ==
    \A D, M, rank, f, g : Ranking(rank, D, M) /\ Settled(f, g, D, rank) => SameOn(f, g, D)
<1> SUFFICES ASSUME NEW D, NEW M, NEW rank, NEW f, NEW g,
                    Ranking(rank, D, M), Settled(f, g, D, rank)
             PROVE  SameOn(f, g, D)
  OBVIOUS
<1>0. M \in Nat /\ rank \in [D -> 0..M]
  BY DEF Ranking
<1> DEFINE S == {d \in D : f[d] = g[d]}
<1>1. ASSUME NEW d \in D, \A e \in D : rank[e] < rank[d] => e \in S PROVE d \in S
  BY <1>1 DEF Settled
<1> HIDE DEF S
<1>2. Hereditary(S, D, rank)
  BY <1>1 DEF Hereditary
<1>3. D \subseteq S
  BY <1>0, <1>2, RankInduction
<1> QED BY <1>3 DEF S, SameOn

Below(rank) == \A a \in Objects : \A b \in Parts(a) : b \in Objects /\ rank[b] < rank[a]

LEMMA Ranked == \E M \in Nat : \E rank \in [Objects -> 0..M] : Below(rank)
<1> DEFINE m == Cardinality(Objects)
           Sinks(S, n, rank) == \A a \in S : \A b \in Parts(a) : b \in S /\ rank[b] < rank[a]
           P == {n \in Nat : n <= m => \E S \in SUBSET Objects :
                                /\ Cardinality(S) = n
                                /\ \E rank \in [S -> 0..n] : Sinks(S, n, rank)}
<1>1. IsFiniteSet(Objects) /\ m \in Nat
  BY ObjectAssumption, FS_CardinalityType
<1>2. 0 \in P
  <2>1. {} \in SUBSET Objects /\ Cardinality({}) = 0
    BY FS_EmptySet
  <2>2. [a \in {} |-> 0] \in [{} -> 0..0] /\ Sinks({}, 0, [a \in {} |-> 0])
    OBVIOUS
  <2> QED BY <2>1, <2>2
<1>3. ASSUME NEW n \in Nat, n \in P PROVE n + 1 \in P
  <2> SUFFICES ASSUME n + 1 <= m
               PROVE  \E S \in SUBSET Objects :
                         /\ Cardinality(S) = n + 1
                         /\ \E rank \in [S -> 0..(n + 1)] : Sinks(S, n + 1, rank)
    OBVIOUS
  <2>1. n <= m
    BY <1>1
  <2>2. PICK S \in SUBSET Objects : Cardinality(S) = n /\ \E rank \in [S -> 0..n] : Sinks(S, n, rank)
    BY <1>3, <2>1
  <2>3. PICK rank \in [S -> 0..n] : Sinks(S, n, rank)
    BY <2>2
  <2>4. Objects \ S # {}
    <3>1. S = Objects => n = m
      BY <2>2
    <3> QED BY <1>1, <3>1
  <2>5. PICK a \in Objects \ S : Parts(a) \cap (Objects \ S) = {}
    BY <2>4, NoCycles
  <2>6. Parts(a) \subseteq S
    BY <2>5, ObjectAssumption
  <2> DEFINE T == S \cup {a}
             r == [b \in T |-> IF b = a THEN n + 1 ELSE rank[b]]
  <2>7. T \in SUBSET Objects /\ Cardinality(T) = n + 1
    <3>1. IsFiniteSet(S)
      BY <1>1, FS_Subset
    <3> QED BY <2>2, <3>1, FS_AddElement
  <2>8. \A b \in S : rank[b] \in 0..n /\ b # a
    OBVIOUS
  <2>9. r \in [T -> 0..(n + 1)]
    BY <2>8
  <2>10. Sinks(T, n + 1, r)
    <3> SUFFICES ASSUME NEW c \in T, NEW b \in Parts(c) PROVE b \in T /\ r[b] < r[c]
      OBVIOUS
    <3>1. CASE c = a
      BY <2>6, <2>8, <3>1
    <3>2. CASE c \in S
      <4>1. b \in S /\ rank[b] < rank[c]
        BY <2>3, <3>2
      <4> QED BY <2>8, <3>2, <4>1
    <3> QED BY <3>1, <3>2
  <2> HIDE DEF T, r, Sinks
  <2> QED BY <2>7, <2>9, <2>10
<1> HIDE DEF P
<1>4. m \in P
  BY <1>1, <1>2, <1>3, Induction
<1>5. PICK S \in SUBSET Objects : Cardinality(S) = m /\ \E rank \in [S -> 0..m] : Sinks(S, m, rank)
  BY <1>1, <1>4 DEF P
<1>6. S = Objects
  BY <1>1, <1>5, FS_Subset
<1> QED BY <1>1, <1>5, <1>6 DEF Below

SpineBody(spine, a) == IF TypeOf(a) = "cons" THEN <<a>> \o spine[Object[a].cdr] ELSE <<>>

LEMMA SpineIs ==
    /\ Spine \in [Objects -> Seq(Objects)]
    /\ \A a \in Objects : Spine[a] = SpineBody(Spine, a)
<1> DEFINE D == Objects
           U == Seq(Objects)
           W == [D -> U]
           V == [d \in D |-> U]
           F == [a \in D |-> [g \in W |-> SpineBody(g, a)]]
<1>0. Spine = CHOOSE g : g = [a \in D |-> SpineBody(g, a)]
  BY DEF Spine, SpineBody
<1>1. PICK M \in Nat : \E rank \in [Objects -> 0..M] : Below(rank)
  BY Ranked
<1>2. PICK rank \in [Objects -> 0..M] : Below(rank)
  BY <1>1
<1>3. \A a \in D : TypeOf(a) = "cons" =>
         Object[a].cdr \in D /\ Object[a].car \in D /\ rank[Object[a].cdr] < rank[a]
  BY <1>2 DEF Below, Parts
<1>4. \A g \in W : \A a \in D : SpineBody(g, a) \in U
  <2> SUFFICES ASSUME NEW g \in W, NEW a \in D PROVE SpineBody(g, a) \in U
    OBVIOUS
  <2>1. CASE TypeOf(a) = "cons"
    <3>1. <<a>> \in U /\ g[Object[a].cdr] \in U
      BY <1>3, <2>1
    <3>2. <<a>> \o g[Object[a].cdr] \in U
      BY <3>1
    <3> QED BY <2>1, <3>2 DEF SpineBody
  <2>2. CASE TypeOf(a) # "cons"
    <3>1. SpineBody(g, a) = <<>>
      BY <2>2 DEF SpineBody
    <3> QED BY <3>1
  <2> QED BY <2>1, <2>2
<1>5. \A g, h : \A a \in D : (\A b \in D : rank[b] < rank[a] => g[b] = h[b])
                                => SpineBody(g, a) = SpineBody(h, a)
  BY <1>3 DEF SpineBody
<1>6. \A g \in W : \A a \in D : F[a][g] = SpineBody(g, a)
  OBVIOUS
<1>7. W = {g \in [D -> U] : \A d \in D : g[d] \in V[d]} /\ W # {} /\ \A d \in D : V[d] = U
  <2>1. [d \in D |-> <<>>] \in W
    OBVIOUS
  <2> QED BY <2>1
<1>11. rank \in [D -> 0..M]
  OBVIOUS
<1> HIDE DEF F, W, V, U, D
<1>8. PICK g \in W : \A a \in D : g[a] = F[a][g]
  <2>1. Solvable(F, W, D, M, rank, U, V)
    BY <1>1, <1>11, <1>4, <1>5, <1>6, <1>7 DEF Solvable
  <2> QED BY <2>1, Recursion
<1>9. g \in [D -> U] /\ \A a \in D : g[a] = SpineBody(g, a)
  BY <1>6, <1>8 DEF W
<1>10. Spine = [a \in D |-> SpineBody(Spine, a)]
  <2>1. g = [a \in D |-> SpineBody(g, a)]
    BY <1>9
  <2> QED BY <1>0, <2>1
<1>12. \A a \in D : Spine[a] = g[a]
  <2>1. Settled(Spine, g, D, rank)
    BY <1>5, <1>9, <1>10 DEF Settled
  <2>2. Ranking(rank, D, M)
    BY <1>1, <1>11 DEF Ranking
  <2>3. SameOn(Spine, g, D)
    BY <2>1, <2>2, SameFunction
  <2> QED BY <2>3 DEF SameOn
<1> QED BY <1>9, <1>10, <1>12 DEF D, U

(* The spine of a list: one cons behind the other, to what is none. *)
Conses(a, s, rank) ==
    /\ s \in Seq(Objects) /\ Len(s) \in Nat /\ Len(s) # 0 /\ s[1] = a
    /\ \A k \in 1..Len(s) : TypeOf(s[k]) = "cons" /\ rank[s[k]] <= rank[a]
    /\ \A k \in 1..(Len(s) - 1) : s[k + 1] = Object[s[k]].cdr
    /\ TypeOf(Object[s[Len(s)]].cdr) # "cons"

LEMMA ConsIs ==
    ASSUME NEW rank, Below(rank), NEW a \in Objects, TypeOf(a) = "cons"
    PROVE  /\ Object[a].car \in Objects /\ rank[Object[a].car] < rank[a]
           /\ Object[a].cdr \in Objects /\ rank[Object[a].cdr] < rank[a]
BY DEF Below, Parts

LEMMA SpineOf ==
    ASSUME NEW M \in Nat, NEW rank \in [Objects -> 0..M], Below(rank)
    PROVE  \A a \in Objects : TypeOf(a) = "cons" => Conses(a, Spine[a], rank)
<1> DEFINE S == {a \in Objects : TypeOf(a) = "cons" => Conses(a, Spine[a], rank)}
<1>0. \A a \in Objects : rank[a] \in Nat
  OBVIOUS
<1>1. ASSUME NEW a \in Objects, \A b \in Objects : rank[b] < rank[a] => b \in S, TypeOf(a) = "cons"
      PROVE  Conses(a, Spine[a], rank)
  <2>1. PICK d \in Objects : d = Object[a].cdr /\ rank[d] < rank[a]
    BY <1>1, ConsIs
  <2>2. PICK s : s = Spine[a]
    OBVIOUS
  <2>3. PICK t \in Seq(Objects) : t = Spine[d]
    BY SpineIs
  <2>4. s = <<a>> \o t
    BY <1>1, <2>1, <2>2, <2>3, SpineIs DEF SpineBody
  <2>5. /\ s \in Seq(Objects) /\ Len(s) = Len(t) + 1 /\ s[1] = a
        /\ \A k \in 1..Len(t) : s[k + 1] = t[k]
        /\ Len(t) \in Nat
    <3>1. <<a>> \in Seq(Objects) /\ Len(<<a>>) = 1 /\ <<a>>[1] = a /\ Len(t) \in Nat
      OBVIOUS
    <3>2. /\ s \in Seq(Objects) /\ Len(s) = 1 + Len(t)
          /\ \A i \in 1..(1 + Len(t)) : s[i] = IF i <= 1 THEN <<a>>[1] ELSE t[i - 1]
      BY <2>4, <3>1, ConcatProperties
    <3> QED BY SMTT(30), <3>1, <3>2
  <2>6. CASE TypeOf(d) # "cons"
    <3>1. t = <<>>
      BY <2>3, <2>6, SpineIs DEF SpineBody
    <3>2. Len(s) = 1
      BY <2>5, <3>1
    <3>3. rank[a] <= rank[a]
      BY <1>0
    <3>4. /\ Len(s) \in Nat /\ Len(s) # 0
          /\ \A k \in 1..Len(s) : TypeOf(s[k]) = "cons" /\ rank[s[k]] <= rank[a]
          /\ \A k \in 1..(Len(s) - 1) : s[k + 1] = Object[s[k]].cdr
          /\ TypeOf(Object[s[Len(s)]].cdr) # "cons"
      <4>1. 1..Len(s) = {1} /\ 1..(Len(s) - 1) = {} /\ Len(s) \in Nat /\ Len(s) # 0
        BY <3>2
      <4>2. s[1] = a /\ s[Len(s)] = a
        BY <2>5, <3>2
      <4> QED BY <1>1, <2>1, <2>6, <3>3, <4>1, <4>2
    <3> QED BY <2>2, <2>5, <3>4 DEF Conses
  <2>7. CASE TypeOf(d) = "cons"
    <3>1. Conses(d, t, rank)
      BY <1>1, <2>1, <2>3, <2>7
    <3>2. /\ Len(t) # 0 /\ t[1] = d
          /\ \A k \in 1..Len(t) : TypeOf(t[k]) = "cons" /\ rank[t[k]] <= rank[d] /\ t[k] \in Objects
          /\ \A k \in 1..(Len(t) - 1) : t[k + 1] = Object[t[k]].cdr
          /\ TypeOf(Object[t[Len(t)]].cdr) # "cons"
      BY <3>1 DEF Conses
    <3>3. ASSUME NEW k \in 1..Len(s) PROVE TypeOf(s[k]) = "cons" /\ rank[s[k]] <= rank[a]
      <4>1. CASE k = 1
        BY <1>0, <1>1, <2>5, <4>1
      <4>2. CASE k # 1
        <5>1. k - 1 \in 1..Len(t) /\ k - 1 + 1 = k
          BY SMTT(30), <2>5, <4>2
        <5>2. s[k] = t[k - 1]
          BY <2>5, <5>1
        <5>3. rank[t[k - 1]] <= rank[d] /\ rank[t[k - 1]] \in Nat /\ TypeOf(t[k - 1]) = "cons"
          BY <1>0, <3>2, <5>1
        <5>4. rank[d] < rank[a] /\ rank[d] \in Nat /\ rank[a] \in Nat
          BY <1>0, <2>1
        <5>5. rank[t[k - 1]] <= rank[a]
          BY <5>3, <5>4
        <5> QED BY <5>2, <5>3, <5>5
      <4> QED BY <4>1, <4>2
    <3>4. ASSUME NEW k \in 1..(Len(s) - 1) PROVE s[k + 1] = Object[s[k]].cdr
      <4>1. CASE k = 1
        <5>1. 1 \in 1..Len(t)
          BY <2>5, <3>2
        <5>2. s[1 + 1] = t[1]
          BY <2>5, <5>1
        <5> QED BY <2>1, <2>5, <3>2, <4>1, <5>2
      <4>2. CASE k # 1
        <5>1. k - 1 \in 1..(Len(t) - 1) /\ k - 1 + 1 = k /\ k \in 1..Len(t) /\ k - 1 \in 1..Len(t)
          BY <2>5, <4>2
        <5>2. s[k] = t[k - 1] /\ s[k + 1] = t[k]
          BY <2>5, <5>1
        <5>3. t[k] = Object[t[k - 1]].cdr
          BY <3>2, <5>1
        <5> QED BY <5>2, <5>3
      <4> QED BY <4>1, <4>2
    <3>5. s[Len(s)] = t[Len(t)]
      <4>1. Len(t) \in 1..Len(t)
        BY <2>5, <3>2
      <4> QED BY <2>5, <4>1
    <3>6. Len(s) \in Nat /\ Len(s) # 0
      BY <2>5
    <3> QED BY <2>2, <2>5, <3>2, <3>3, <3>4, <3>5, <3>6 DEF Conses
  <2> QED BY <2>6, <2>7
<1> HIDE DEF S
<1>2. Hereditary(S, Objects, rank)
  BY <1>1 DEF Hereditary, S
<1>3. Objects \subseteq S
  BY <1>2, RankInduction
<1> QED BY <1>3 DEF S

(* What fast_print writes of a list or an array, and what it goes into. *)
Cars(a) == [k \in DOMAIN Spine[a] |-> Object[Spine[a][k]].car]
Opcode(a) == IF TypeOf(a) = "cons" THEN ListOp(Len(Cars(a)), AfterSpine(a)) ELSE ArrayOp(a)
Elements(a) ==
    IF TypeOf(a) = "cons"
    THEN IF Opcode(a).op = "FO_list" THEN Cars(a) ELSE Append(Cars(a), AfterSpine(a))
    ELSE Object[a].data
Compound(a) == TypeOf(a) \in {"cons", "lisp_array"}
Each(f, objs) == [k \in DOMAIN objs |-> f[objs[k]]]

LEMMA CarsAre ==
    ASSUME NEW M \in Nat, NEW rank \in [Objects -> 0..M], Below(rank), NEW a \in Objects,
           TypeOf(a) = "cons"
    PROVE  /\ Cars(a) \in Seq(Objects) /\ Len(Cars(a)) = Len(Spine[a]) /\ Len(Cars(a)) \in Nat
           /\ \A k \in 1..Len(Cars(a)) : /\ rank[Cars(a)[k]] < rank[a]
                                         /\ Cars(a)[k] = Object[Spine[a][k]].car
           /\ AfterSpine(a) \in Objects /\ rank[AfterSpine(a)] < rank[a]
           /\ AfterSpine(a) = Object[Spine[a][Len(Spine[a])]].cdr
           /\ TypeOf(AfterSpine(a)) # "cons"
<1>1. PICK s : s = Spine[a]
  OBVIOUS
<1>2. Conses(a, s, rank)
  BY <1>1, SpineOf
<1>3. /\ s \in Seq(Objects) /\ Len(s) \in Nat /\ Len(s) # 0 /\ DOMAIN s = 1..Len(s)
      /\ \A k \in 1..Len(s) : s[k] \in Objects /\ TypeOf(s[k]) = "cons" /\ rank[s[k]] <= rank[a]
      /\ TypeOf(Object[s[Len(s)]].cdr) # "cons"
  BY <1>2 DEF Conses
<1>4. \A b \in Objects : rank[b] \in Nat
  OBVIOUS
<1>5. ASSUME NEW k \in 1..Len(s)
      PROVE  /\ Object[s[k]].car \in Objects /\ rank[Object[s[k]].car] < rank[a]
             /\ Object[s[k]].cdr \in Objects /\ rank[Object[s[k]].cdr] < rank[a]
  <2>1. PICK b \in Objects : b = s[k]
    BY <1>3
  <2>2. TypeOf(b) = "cons" /\ rank[b] <= rank[a]
    BY <1>3, <2>1
  <2>3. /\ Object[b].car \in Objects /\ rank[Object[b].car] < rank[b]
        /\ Object[b].cdr \in Objects /\ rank[Object[b].cdr] < rank[b]
    BY <2>2, ConsIs
  <2> QED BY <1>4, <2>1, <2>2, <2>3
<1>6. PICK c : c = Cars(a)
  OBVIOUS
<1>7. c = [k \in 1..Len(s) |-> Object[s[k]].car]
  BY <1>1, <1>3, <1>6 DEF Cars
<1>8. c \in Seq(Objects) /\ Len(c) = Len(s) /\ \A k \in 1..Len(s) : c[k] = Object[s[k]].car
  <2>1. \A k \in 1..Len(s) : c[k] = Object[s[k]].car /\ c[k] \in Objects
    BY <1>5, <1>7
  <2>2. c \in [1..Len(s) -> Objects]
    BY <1>7, <2>1
  <2> QED BY <1>3, <2>1, <2>2
<1>9. Len(s) \in 1..Len(s) /\ AfterSpine(a) = Object[s[Len(s)]].cdr
  BY <1>1, <1>3 DEF AfterSpine, Last
<1> QED BY <1>1, <1>3, <1>5, <1>6, <1>8, <1>9

LEMMA ElementsAre ==
    ASSUME NEW M \in Nat, NEW rank \in [Objects -> 0..M], Below(rank), NEW a \in Objects,
           Compound(a)
    PROVE  /\ Elements(a) \in Seq(Objects) /\ \A k \in DOMAIN Elements(a) : rank[Elements(a)[k]] < rank[a]
           /\ Opcode(a) \in [op : {"cons", "FO_list", "FO_listd", "lisp_array"}, len : Nat]
<1>1. CASE TypeOf(a) = "cons"
  <2>1. PICK c \in Seq(Objects) : c = Cars(a)
    BY <1>1, CarsAre
  <2>2. PICK d \in Objects : d = AfterSpine(a)
    BY <1>1, CarsAre
  <2>3. /\ Len(c) \in Nat /\ DOMAIN c = 1..Len(c) /\ \A k \in 1..Len(c) : rank[c[k]] < rank[a]
        /\ rank[d] < rank[a]
    BY <1>1, <2>1, <2>2, CarsAre
  <2>4. Opcode(a) = ListOp(Len(c), d)
    BY <1>1, <2>1, <2>2 DEF Opcode
  <2>5. Opcode(a) \in [op : {"cons", "FO_list", "FO_listd", "lisp_array"}, len : Nat]
    BY <2>3, <2>4 DEF ListOp
  <2>6. Elements(a) \in {c, Append(c, d)}
    BY <1>1, <2>1, <2>2 DEF Elements
  <2>7. /\ Append(c, d) \in Seq(Objects) /\ DOMAIN Append(c, d) = 1..(Len(c) + 1)
        /\ \A k \in 1..(Len(c) + 1) : Append(c, d)[k] = IF k <= Len(c) THEN c[k] ELSE d
    OBVIOUS
  <2>8. \A k \in DOMAIN Append(c, d) : rank[Append(c, d)[k]] < rank[a]
    BY <2>3, <2>7
  <2> QED BY <2>3, <2>5, <2>6, <2>7, <2>8
<1>2. CASE TypeOf(a) # "cons"
  <2>1. TypeOf(a) = "lisp_array" /\ "lisp_array" # "cons"
    BY <1>2 DEF Compound
  <2>2. PICK s \in Seq(Objects) : s = Object[a].data
    BY <2>1, ObjectAssumption
  <2>3. Elements(a) = s /\ Opcode(a) = [op |-> "lisp_array", len |-> Len(s)]
    BY <1>2, <2>2 DEF Elements, Opcode, ArrayOp
  <2>4. \A k \in DOMAIN s : s[k] \in Parts(a)
    BY <2>1, <2>2 DEF Parts, Range
  <2> QED BY <2>3, <2>4 DEF Below
<1> QED BY <1>1, <1>2

LEMMA EachIs ==
    ASSUME NEW T, NEW f \in [Objects -> Seq(T)], NEW objs \in Seq(Objects)
    PROVE  /\ Each(f, objs) \in Seq(Seq(T)) /\ Len(Each(f, objs)) = Len(objs)
           /\ DOMAIN Each(f, objs) = DOMAIN objs
           /\ \A k \in DOMAIN objs : Each(f, objs)[k] = f[objs[k]]
           /\ FlattenSeq(Each(f, objs)) \in Seq(T)
<1>1. Len(objs) \in Nat /\ DOMAIN objs = 1..Len(objs) /\ \A k \in 1..Len(objs) : objs[k] \in Objects
  OBVIOUS
<1>2. PICK e : e = Each(f, objs)
  OBVIOUS
<1>3. e = [k \in 1..Len(objs) |-> f[objs[k]]]
  BY <1>1, <1>2 DEF Each
<1>4. \A k \in 1..Len(objs) : e[k] = f[objs[k]] /\ e[k] \in Seq(T)
  BY <1>1, <1>3
<1>5. e \in [1..Len(objs) -> Seq(T)]
  BY <1>3, <1>4
<1>6. e \in Seq(Seq(T)) /\ Len(e) = Len(objs)
  <2>1. PICK n \in Nat : n = Len(objs)
    BY <1>1
  <2>2. PICK U : U = Seq(T)
    OBVIOUS
  <2>3. e \in [1..n -> U]
    BY <1>5, <2>1, <2>2
  <2>4. e \in Seq(U) /\ Len(e) = n
    BY <2>3
  <2> QED BY <2>1, <2>2, <2>4
<1>7. CASE Len(e) = 0
  <2>1. FlattenSeq(e) = e
    BY <1>7 DEF FlattenSeq
  <2>2. e \in [1..0 -> T]
    BY <1>5, <1>6, <1>7
  <2> QED BY <1>1, <1>2, <1>4, <1>6, <2>1, <2>2
<1>8. CASE Len(e) # 0
  <2>1. PICK n \in Nat \ {0} : n = Len(e)
    BY <1>1, <1>6, <1>8
  <2>2. PICK g \in [1..n -> Seq(T)] : FlattenSeq(e) = g[n]
    BY <1>6, <2>1, Flattened
  <2>3. n \in 1..n
    BY <2>1
  <2> QED BY <1>1, <1>2, <1>4, <1>6, <2>2, <2>3
<1> QED BY <1>7, <1>8

ItemsBody(items, a) ==
    IF Compound(a) THEN <<Opcode(a)>> \o FlattenSeq(Each(items, Elements(a)))
    ELSE <<[op |-> TypeOf(a), obj |-> a]>>

LEMMA ItemsAre ==
    /\ Items \in [Objects -> Seq(Item)]
    /\ \A a \in Objects : Items[a] = ItemsBody(Items, a)
<1> DEFINE D == Objects
           U == Seq(Item)
           W == [D -> U]
           V == [d \in D |-> U]
           F == [a \in D |-> [g \in W |-> ItemsBody(g, a)]]
           Written0(items, a) ==
             LET each(objs) == FlattenSeq([k \in DOMAIN objs |-> items[objs[k]]])
                 cars == [k \in DOMAIN Spine[a] |-> Object[Spine[a][k]].car]
                 op == ListOp(Len(cars), AfterSpine(a))
             IN  CASE TypeOf(a) = "cons" ->
                        <<op>> \o each(IF op.op = "FO_list" THEN cars ELSE Append(cars, AfterSpine(a)))
                   [] TypeOf(a) = "lisp_array" ->
                        <<ArrayOp(a)>> \o each(Object[a].data)
                   [] OTHER -> <<[op |-> TypeOf(a), obj |-> a]>>
<1>01. Items = CHOOSE g : g = [a \in D |-> Written0(g, a)]
  BY DEF Items
<1>02. \A g, a : Written0(g, a) = ItemsBody(g, a)
  <2> SUFFICES ASSUME NEW g, NEW a PROVE Written0(g, a) = ItemsBody(g, a)
    OBVIOUS
  <2>1. CASE TypeOf(a) = "cons"
    <3>1. Written0(g, a) =
            <<ListOp(Len(Cars(a)), AfterSpine(a))>> \o
            FlattenSeq(Each(g, IF ListOp(Len(Cars(a)), AfterSpine(a)).op = "FO_list"
                               THEN Cars(a) ELSE Append(Cars(a), AfterSpine(a))))
      BY <2>1 DEF Cars, Each
    <3>2. /\ Opcode(a) = ListOp(Len(Cars(a)), AfterSpine(a))
          /\ Elements(a) = IF ListOp(Len(Cars(a)), AfterSpine(a)).op = "FO_list"
                           THEN Cars(a) ELSE Append(Cars(a), AfterSpine(a))
      BY <2>1 DEF Opcode, Elements
    <3> QED BY <2>1, <3>1, <3>2 DEF ItemsBody, Compound
  <2>2. CASE TypeOf(a) = "lisp_array"
    <3>1. Written0(g, a) = <<ArrayOp(a)>> \o FlattenSeq(Each(g, Object[a].data))
      BY <2>2 DEF Each
    <3> QED BY <2>2, <3>1 DEF ItemsBody, Compound, Opcode, Elements
  <2>3. CASE TypeOf(a) \notin {"cons", "lisp_array"}
    BY <2>3 DEF ItemsBody, Compound
  <2> QED BY <2>1, <2>2, <2>3
<1> HIDE DEF Written0
<1>0. Items = CHOOSE g : g = [a \in D |-> ItemsBody(g, a)]
  BY <1>01, <1>02
<1>1. PICK M \in Nat : \E rank \in [Objects -> 0..M] : Below(rank)
  BY Ranked
<1>2. PICK rank \in [Objects -> 0..M] : Below(rank)
  BY <1>1
<1>3. \A a \in D : Compound(a) =>
         /\ Elements(a) \in Seq(Objects) /\ Opcode(a) \in Item
         /\ \A k \in DOMAIN Elements(a) : /\ Elements(a)[k] \in Objects
                                          /\ rank[Elements(a)[k]] < rank[a]
  <2> SUFFICES ASSUME NEW a \in Objects, Compound(a)
               PROVE  /\ Elements(a) \in Seq(Objects) /\ Opcode(a) \in Item
                      /\ \A k \in DOMAIN Elements(a) : /\ Elements(a)[k] \in Objects
                                                       /\ rank[Elements(a)[k]] < rank[a]
    OBVIOUS
  <2>1. /\ Elements(a) \in Seq(Objects) /\ \A k \in DOMAIN Elements(a) : rank[Elements(a)[k]] < rank[a]
        /\ Opcode(a) \in [op : {"cons", "FO_list", "FO_listd", "lisp_array"}, len : Nat]
    BY <1>2, ElementsAre
  <2>2. \A k \in DOMAIN Elements(a) : Elements(a)[k] \in Objects
    BY <2>1
  <2> QED BY <2>1, <2>2 DEF Item
<1>4. \A g \in W : \A a \in D : ItemsBody(g, a) \in U
  <2> SUFFICES ASSUME NEW g \in W, NEW a \in D PROVE ItemsBody(g, a) \in U
    OBVIOUS
  <2>1. CASE Compound(a)
    <3>1. PICK s \in Seq(Item) : s = FlattenSeq(Each(g, Elements(a)))
      BY <1>3, <2>1, EachIs
    <3>2. PICK o \in Item : o = Opcode(a)
      BY <1>3, <2>1
    <3>3. <<o>> \o s \in Seq(Item)
      OBVIOUS
    <3> QED BY <2>1, <3>1, <3>2, <3>3 DEF ItemsBody
  <2>2. CASE ~Compound(a)
    <3>1. TypeOf(a) \in Types \ {"cons", "lisp_array"}
      BY <2>2 DEF Compound, Types
    <3>2. [op |-> TypeOf(a), obj |-> a] \in Item
      BY <3>1 DEF Item
    <3> QED BY <2>2, <3>2 DEF ItemsBody
  <2> QED BY <2>1, <2>2
<1>5. \A g, h : \A a \in D : (\A b \in D : rank[b] < rank[a] => g[b] = h[b])
                                => ItemsBody(g, a) = ItemsBody(h, a)
  <2> SUFFICES ASSUME NEW g, NEW h, NEW a \in D, \A b \in D : rank[b] < rank[a] => g[b] = h[b],
                      Compound(a)
               PROVE  Each(g, Elements(a)) = Each(h, Elements(a))
    BY DEF ItemsBody
  <2> QED BY <1>3 DEF Each
<1>6. \A g \in W : \A a \in D : F[a][g] = ItemsBody(g, a)
  OBVIOUS
<1>7. W = {g \in [D -> U] : \A d \in D : g[d] \in V[d]} /\ W # {} /\ \A d \in D : V[d] = U
  <2>1. [d \in D |-> <<>>] \in W
    OBVIOUS
  <2> QED BY <2>1
<1>11. rank \in [D -> 0..M]
  OBVIOUS
<1> HIDE DEF F, W, V, U, D
<1>8. PICK g \in W : \A a \in D : g[a] = F[a][g]
  <2>1. Solvable(F, W, D, M, rank, U, V)
    BY <1>1, <1>11, <1>4, <1>5, <1>6, <1>7 DEF Solvable
  <2> QED BY <2>1, Recursion
<1>9. g \in [D -> U] /\ \A a \in D : g[a] = ItemsBody(g, a)
  BY <1>6, <1>8 DEF W
<1>10. Items = [a \in D |-> ItemsBody(Items, a)]
  <2>1. g = [a \in D |-> ItemsBody(g, a)]
    BY <1>9
  <2> QED BY <1>0, <2>1
<1>12. \A a \in D : Items[a] = g[a]
  <2>1. Settled(Items, g, D, rank)
    BY <1>5, <1>9, <1>10 DEF Settled
  <2>2. Ranking(rank, D, M)
    BY <1>1, <1>11 DEF Ranking
  <2>3. SameOn(Items, g, D)
    BY <2>1, <2>2, SameFunction
  <2> QED BY <2>3 DEF SameOn
<1> QED BY <1>9, <1>10, <1>12 DEF D, U

CanonBody(canon, a) ==
    CASE TypeOf(a) = "cons" ->
           <<[op |-> "cons", len |-> 1]>> \o canon[Object[a].car] \o canon[Object[a].cdr]
      [] TypeOf(a) = "lisp_array" -> <<ArrayOp(a)>> \o FlattenSeq(Each(canon, Object[a].data))
      [] OTHER -> <<[op |-> TypeOf(a), obj |-> a]>>

LEMMA CanonIs ==
    /\ Canon \in [Objects -> Seq(Tokens)]
    /\ \A a \in Objects : Canon[a] = CanonBody(Canon, a)
<1> DEFINE D == Objects
           U == Seq(Tokens)
           W == [D -> U]
           V == [d \in D |-> U]
           F == [a \in D |-> [g \in W |-> CanonBody(g, a)]]
<1>0. Canon = CHOOSE g : g = [a \in D |-> CanonBody(g, a)]
  BY DEF Canon, CanonBody, Each
<1>1. PICK M \in Nat : \E rank \in [Objects -> 0..M] : Below(rank)
  BY Ranked
<1>2. PICK rank \in [Objects -> 0..M] : Below(rank)
  BY <1>1
<1>3. \A a \in D : TypeOf(a) = "lisp_array" =>
         /\ Object[a].data \in Seq(Objects)
         /\ ArrayOp(a) \in Tokens
         /\ \A k \in DOMAIN Object[a].data : /\ Object[a].data[k] \in Objects
                                             /\ rank[Object[a].data[k]] < rank[a]
  <2> SUFFICES ASSUME NEW a \in Objects, TypeOf(a) = "lisp_array"
               PROVE  /\ Object[a].data \in Seq(Objects)
                      /\ ArrayOp(a) \in Tokens
                      /\ \A k \in DOMAIN Object[a].data : /\ Object[a].data[k] \in Objects
                                                          /\ rank[Object[a].data[k]] < rank[a]
    OBVIOUS
  <2>1. Compound(a) /\ TypeOf(a) # "cons"
    BY DEF Compound
  <2>2. Elements(a) = Object[a].data /\ Opcode(a) = ArrayOp(a)
    BY <2>1 DEF Elements, Opcode
  <2>3. /\ Elements(a) \in Seq(Objects) /\ \A k \in DOMAIN Elements(a) : rank[Elements(a)[k]] < rank[a]
        /\ Opcode(a) \in [op : {"cons", "FO_list", "FO_listd", "lisp_array"}, len : Nat]
    BY <1>2, <2>1, ElementsAre
  <2>4. \A k \in DOMAIN Elements(a) : Elements(a)[k] \in Objects
    BY <2>3
  <2> QED BY <2>2, <2>3, <2>4 DEF Item, Tokens
<1>13. \A a \in D : TypeOf(a) = "cons" =>
          /\ Object[a].car \in D /\ rank[Object[a].car] < rank[a]
          /\ Object[a].cdr \in D /\ rank[Object[a].cdr] < rank[a]
  BY <1>2, ConsIs
<1>4. \A g \in W : \A a \in D : CanonBody(g, a) \in U
  <2> SUFFICES ASSUME NEW g \in W, NEW a \in D PROVE CanonBody(g, a) \in U
    OBVIOUS
  <2>1. CASE TypeOf(a) = "lisp_array"
    <3>1. PICK s \in Seq(Tokens) : s = FlattenSeq(Each(g, Object[a].data))
      BY <1>3, <2>1, EachIs
    <3>2. PICK o \in Tokens : o = ArrayOp(a)
      BY <1>3, <2>1
    <3>3. <<o>> \o s \in Seq(Tokens)
      OBVIOUS
    <3> QED BY <2>1, <3>1, <3>2, <3>3 DEF CanonBody
  <2>2. CASE TypeOf(a) \notin {"cons", "lisp_array"}
    <3>1. TypeOf(a) \in Types \ {"cons", "lisp_array"}
      BY <2>2 DEF Types
    <3>2. [op |-> TypeOf(a), obj |-> a] \in Tokens
      BY <3>1 DEF Item, Tokens
    <3> QED BY <2>2, <3>2 DEF CanonBody
  <2>3. CASE TypeOf(a) = "cons"
    <3>1. PICK s \in Seq(Tokens) : s = g[Object[a].car]
      BY <1>13, <2>3
    <3>2. PICK t \in Seq(Tokens) : t = g[Object[a].cdr]
      BY <1>13, <2>3
    <3>3. PICK o \in Tokens : o = [op |-> "cons", len |-> 1]
      BY DEF Item, Tokens
    <3>4. <<o>> \o s \o t \in Seq(Tokens)
      OBVIOUS
    <3> QED BY <2>3, <3>1, <3>2, <3>3, <3>4 DEF CanonBody
  <2> QED BY <2>1, <2>2, <2>3
<1>5. \A g, h : \A a \in D : (\A b \in D : rank[b] < rank[a] => g[b] = h[b])
                                => CanonBody(g, a) = CanonBody(h, a)
  <2> SUFFICES ASSUME NEW g, NEW h, NEW a \in D, \A b \in D : rank[b] < rank[a] => g[b] = h[b]
               PROVE  CanonBody(g, a) = CanonBody(h, a)
    OBVIOUS
  <2>1. CASE TypeOf(a) = "lisp_array"
    <3>1. Each(g, Object[a].data) = Each(h, Object[a].data)
      BY <1>3, <2>1 DEF Each
    <3> QED BY <2>1, <3>1 DEF CanonBody
  <2>2. CASE TypeOf(a) # "lisp_array"
    BY <1>13, <2>2 DEF CanonBody
  <2> QED BY <2>1, <2>2
<1>6. \A g \in W : \A a \in D : F[a][g] = CanonBody(g, a)
  OBVIOUS
<1>7. W = {g \in [D -> U] : \A d \in D : g[d] \in V[d]} /\ W # {} /\ \A d \in D : V[d] = U
  <2>1. [d \in D |-> <<>>] \in W
    OBVIOUS
  <2> QED BY <2>1
<1>11. rank \in [D -> 0..M]
  OBVIOUS
<1> HIDE DEF F, W, V, U, D
<1>8. PICK g \in W : \A a \in D : g[a] = F[a][g]
  <2>1. Solvable(F, W, D, M, rank, U, V)
    BY <1>1, <1>11, <1>4, <1>5, <1>6, <1>7 DEF Solvable
  <2> QED BY <2>1, Recursion
<1>9. g \in [D -> U] /\ \A a \in D : g[a] = CanonBody(g, a)
  BY <1>6, <1>8 DEF W
<1>10. Canon = [a \in D |-> CanonBody(Canon, a)]
  <2>1. g = [a \in D |-> CanonBody(g, a)]
    BY <1>9
  <2> QED BY <1>0, <2>1
<1>12. \A a \in D : Canon[a] = g[a]
  <2>1. Settled(Canon, g, D, rank)
    BY <1>5, <1>9, <1>10 DEF Settled
  <2>2. Ranking(rank, D, M)
    BY <1>1, <1>11 DEF Ranking
  <2>3. SameOn(Canon, g, D)
    BY <2>1, <2>2, SameFunction
  <2> QED BY <2>3 DEF SameOn
<1> QED BY <1>9, <1>10, <1>12 DEF D, U

-----------------------------------------------------------------------------
(* The stream from p to q stands for items: each has a token of its own,   *)
(* or, the symbols, a fetch or a store and the name.                       *)

Stands(tape, p, item, q) ==
    /\ p \in DOMAIN tape
    /\ \/ /\ item.op = "symbol" /\ tape[p].op = "FO_fetch" /\ tape[p].sym = item.obj
          /\ q = p + 1
       \/ /\ item.op = "symbol" /\ tape[p].op = "FO_store"
          /\ p + 1 \in DOMAIN tape /\ tape[p + 1] = item
          /\ q = p + 2
       \/ item.op # "symbol" /\ tape[p] = item /\ q = p + 1

Placed(tape, pos, p, items, q) ==
    /\ pos \in [1..(Len(items) + 1) -> Nat] /\ pos[1] = p /\ pos[Len(items) + 1] = q
    /\ \A i \in 1..Len(items) : Stands(tape, pos[i], items[i], pos[i + 1])
Rendered(tape, p, items, q) == \E pos : Placed(tape, pos, p, items, q)

LEMMA UpwardsTo ==
    ASSUME NEW n \in Nat, NEW S, 0 \in S, \A k \in Nat : k < n /\ k \in S => k + 1 \in S
    PROVE  \A k \in 0..n : k \in S
<1> DEFINE P == {k \in Nat : k <= n => k \in S}
<1>1. 0 \in P /\ \A k \in Nat : k \in P => k + 1 \in P
  OBVIOUS
<1> HIDE DEF P
<1>2. Nat \subseteq P
  BY <1>1, Induction
<1> QED BY <1>2 DEF P

LEMMA RenderedNone ==
    ASSUME NEW tape, NEW items \in Seq(Item), Len(items) = 0, NEW p \in Nat
    PROVE  Rendered(tape, p, items, p)
<1> DEFINE pos == [i \in {1} |-> p]
<1>1. 1..(Len(items) + 1) = {1} /\ 1..Len(items) = {} /\ Len(items) + 1 = 1
  OBVIOUS
<1>2. pos \in [{1} -> Nat] /\ pos[1] = p
  OBVIOUS
<1> HIDE DEF pos
<1> QED BY <1>1, <1>2 DEF Rendered, Placed

LEMMA RenderedOne ==
    ASSUME NEW tape, NEW item, NEW p \in Nat, NEW q \in Nat
    PROVE  Rendered(tape, p, <<item>>, q) <=> Stands(tape, p, item, q)
<1>1. Len(<<item>>) = 1 /\ 1..Len(<<item>>) = {1} /\ 1..(Len(<<item>>) + 1) = {1, 2} /\ <<item>>[1] = item
  OBVIOUS
<1>2. ASSUME Stands(tape, p, item, q) PROVE Rendered(tape, p, <<item>>, q)
  <2> DEFINE pos == [i \in {1, 2} |-> IF i = 1 THEN p ELSE q]
  <2>1. pos \in [{1, 2} -> Nat] /\ pos[1] = p /\ pos[2] = q
    OBVIOUS
  <2> HIDE DEF pos
  <2>2. Placed(tape, pos, p, <<item>>, q)
    BY <1>1, <1>2, <2>1 DEF Placed
  <2> QED BY <2>2 DEF Rendered
<1>3. ASSUME Rendered(tape, p, <<item>>, q) PROVE Stands(tape, p, item, q)
  <2>1. PICK pos : Placed(tape, pos, p, <<item>>, q)
    BY <1>3 DEF Rendered
  <2> QED BY <1>1, <2>1 DEF Placed
<1> QED BY <1>2, <1>3

LEMMA RenderedApart ==
    ASSUME NEW tape, NEW s \in Seq(Item), NEW t \in Seq(Item), NEW p \in Nat, NEW q \in Nat,
           Rendered(tape, p, s \o t, q)
    PROVE  \E r \in Nat : Rendered(tape, p, s, r) /\ Rendered(tape, r, t, q)
<1>1. PICK x : x = s \o t
  OBVIOUS
<1>2. PICK pos : Placed(tape, pos, p, x, q)
  BY <1>1 DEF Rendered
<1>3. PICK m \in Nat : m = Len(s)
  OBVIOUS
<1>4. PICK n \in Nat : n = Len(t)
  OBVIOUS
<1>5. Len(x) = m + n /\ \A i \in 1..(m + n) : x[i] = IF i <= m THEN s[i] ELSE t[i - m]
  BY <1>1, <1>3, <1>4, ConcatProperties
<1>6. /\ pos \in [1..(m + n + 1) -> Nat] /\ pos[1] = p /\ pos[m + n + 1] = q
      /\ \A i \in 1..(m + n) : Stands(tape, pos[i], x[i], pos[i + 1])
  BY <1>2, <1>5 DEF Placed
<1> DEFINE f == [i \in 1..(m + 1) |-> pos[i]]
           g == [i \in 1..(n + 1) |-> pos[m + i]]
<1>7. Placed(tape, f, p, s, pos[m + 1])
  <2>1. f \in [1..(m + 1) -> Nat] /\ \A i \in 1..(m + 1) : f[i] = pos[i]
    BY <1>6
  <2>2. \A i \in 1..m : /\ i \in 1..(m + n) /\ i \in 1..(m + 1) /\ i + 1 \in 1..(m + 1)
                        /\ i <= m
    OBVIOUS
  <2>3. 1 \in 1..(m + 1) /\ m + 1 \in 1..(m + 1)
    OBVIOUS
  <2> HIDE DEF f
  <2>4. \A i \in 1..m : Stands(tape, f[i], s[i], f[i + 1])
    BY <1>5, <1>6, <2>1, <2>2
  <2> QED BY <1>3, <1>6, <2>1, <2>3, <2>4 DEF Placed
<1>8. Placed(tape, g, pos[m + 1], t, q)
  <2>1. g \in [1..(n + 1) -> Nat] /\ \A i \in 1..(n + 1) : g[i] = pos[m + i]
    BY <1>6
  <2>2. \A i \in 1..n : /\ m + i \in 1..(m + n) /\ i \in 1..(n + 1) /\ i + 1 \in 1..(n + 1)
                        /\ ~(m + i <= m) /\ m + i - m = i /\ m + (i + 1) = m + i + 1
    OBVIOUS
  <2>3. 1 \in 1..(n + 1) /\ n + 1 \in 1..(n + 1) /\ m + (n + 1) = m + n + 1
    OBVIOUS
  <2> HIDE DEF g
  <2>4. \A i \in 1..n : Stands(tape, g[i], t[i], g[i + 1])
    <3> SUFFICES ASSUME NEW i \in 1..n PROVE Stands(tape, g[i], t[i], g[i + 1])
      OBVIOUS
    <3>1. g[i] = pos[m + i] /\ g[i + 1] = pos[m + i + 1] /\ x[m + i] = t[i]
      BY SMTT(30), <1>5, <2>1, <2>2
    <3>2. Stands(tape, pos[m + i], x[m + i], pos[m + i + 1])
      BY <1>6, <2>2
    <3> QED BY <3>1, <3>2
  <2> QED BY <1>4, <1>6, <2>1, <2>3, <2>4 DEF Placed
<1>9. pos[m + 1] \in Nat
  <2>1. m + 1 \in 1..(m + n + 1)
    OBVIOUS
  <2> QED BY <1>6, <2>1
<1> QED BY <1>7, <1>8, <1>9 DEF Rendered

LEMMA RenderedTogether ==
    ASSUME NEW tape, NEW s \in Seq(Item), NEW t \in Seq(Item), NEW p \in Nat, NEW q \in Nat, NEW r \in Nat,
           Rendered(tape, p, s, r), Rendered(tape, r, t, q)
    PROVE  Rendered(tape, p, s \o t, q)
<1>1. PICK x : x = s \o t
  OBVIOUS
<1>2. PICK f : Placed(tape, f, p, s, r)
  BY DEF Rendered
<1>20. PICK g : Placed(tape, g, r, t, q)
  BY DEF Rendered
<1>3. PICK m \in Nat : m = Len(s)
  OBVIOUS
<1>4. PICK n \in Nat : n = Len(t)
  OBVIOUS
<1>5. Len(x) = m + n /\ \A i \in 1..(m + n) : x[i] = IF i <= m THEN s[i] ELSE t[i - m]
  BY <1>1, <1>3, <1>4, ConcatProperties
<1>6. /\ f \in [1..(m + 1) -> Nat] /\ f[1] = p /\ f[m + 1] = r
      /\ \A i \in 1..m : Stands(tape, f[i], s[i], f[i + 1])
  BY <1>2, <1>3 DEF Placed
<1>7. /\ g \in [1..(n + 1) -> Nat] /\ g[1] = r /\ g[n + 1] = q
      /\ \A i \in 1..n : Stands(tape, g[i], t[i], g[i + 1])
  BY <1>20, <1>4 DEF Placed
<1> DEFINE pos == [i \in 1..(m + n + 1) |-> IF i <= m THEN f[i] ELSE g[i - m]]
<1>8. pos \in [1..(m + n + 1) -> Nat]
  <2>1. \A i \in 1..(m + n + 1) : IF i <= m THEN i \in 1..(m + 1) ELSE i - m \in 1..(n + 1)
    OBVIOUS
  <2> QED BY <1>6, <1>7, <2>1
<1>9. \A i \in 1..(m + 1) : i \in 1..(m + n + 1) /\ pos[i] = f[i]
  <2> SUFFICES ASSUME NEW i \in 1..(m + 1) PROVE i \in 1..(m + n + 1) /\ pos[i] = f[i]
    OBVIOUS
  <2>1. CASE i <= m
    BY <2>1
  <2>2. CASE i = m + 1
    <3>1. pos[i] = g[1]
      BY <2>2
    <3> QED BY <1>6, <1>7, <2>2, <3>1
  <2> QED BY <2>1, <2>2
<1>10. \A i \in 1..(n + 1) : m + i \in 1..(m + n + 1) /\ pos[m + i] = g[i]
  OBVIOUS
<1> HIDE DEF pos
<1>11. ASSUME NEW i \in 1..(m + n) PROVE Stands(tape, pos[i], x[i], pos[i + 1])
  <2>1. CASE i <= m
    <3>1. i \in 1..m /\ i \in 1..(m + 1) /\ i + 1 \in 1..(m + 1)
      BY <2>1
    <3> QED BY <1>5, <1>6, <1>9, <2>1, <3>1
  <2>2. CASE ~(i <= m)
    <3>1. PICK j \in 1..n : i = m + j
      <4>1. i - m \in 1..n /\ i = m + (i - m)
        BY <2>2
      <4> QED BY <4>1
    <3>2. /\ j \in 1..(n + 1) /\ j + 1 \in 1..(n + 1) /\ i + 1 = m + (j + 1) /\ i - m = j
      BY <3>1
    <3>3. pos[i] = g[j] /\ pos[i + 1] = g[j + 1] /\ x[i] = t[j]
      BY <1>5, <1>10, <2>2, <3>1, <3>2
    <3> QED BY <1>7, <3>3
  <2> QED BY <2>1, <2>2
<1>12. pos[1] = p /\ pos[m + n + 1] = q
  <2>1. 1 \in 1..(m + 1) /\ n + 1 \in 1..(n + 1) /\ m + (n + 1) = m + n + 1
    OBVIOUS
  <2> QED BY <1>6, <1>7, <1>9, <1>10, <2>1
<1>13. Placed(tape, pos, p, x, q)
  BY <1>5, <1>8, <1>11, <1>12 DEF Placed
<1> QED BY <1>1, <1>13 DEF Rendered

EachRendered(tape, at, f, objs, p, q) ==
    /\ at \in [0..Len(objs) -> Nat] /\ at[0] = p /\ at[Len(objs)] = q
    /\ \A k \in 1..Len(objs) : Rendered(tape, at[k - 1], f[objs[k]], at[k])

LEMMA RenderedEach ==
    ASSUME NEW tape, NEW f \in [Objects -> Seq(Item)], NEW objs \in Seq(Objects), NEW p \in Nat, NEW q \in Nat,
           Rendered(tape, p, FlattenSeq(Each(f, objs)), q)
    PROVE  \E at : EachRendered(tape, at, f, objs, p, q)
<1>1. PICK n \in Nat : n = Len(objs)
  OBVIOUS
<1>2. PICK e : e = Each(f, objs)
  OBVIOUS
<1>3. /\ e \in Seq(Seq(Item)) /\ Len(e) = n
      /\ \A k \in 1..n : e[k] = f[objs[k]] /\ objs[k] \in Objects /\ e[k] \in Seq(Item)
  <2>1. /\ e \in Seq(Seq(Item)) /\ Len(e) = n /\ \A k \in DOMAIN objs : e[k] = f[objs[k]]
    BY <1>1, <1>2, EachIs
  <2>2. DOMAIN objs = 1..n /\ \A k \in 1..n : objs[k] \in Objects
    BY <1>1
  <2> QED BY <2>1, <2>2
<1>4. CASE n = 0
  <2>1. FlattenSeq(e) = e
    BY <1>3, <1>4 DEF FlattenSeq
  <2>2. PICK pos : Placed(tape, pos, p, e, q)
    BY <1>2, <2>1 DEF Rendered
  <2>3. p = q
    BY <1>3, <1>4, <2>2 DEF Placed
  <2> DEFINE at == [k \in 0..0 |-> p]
  <2>4. at \in [0..0 -> Nat] /\ at[0] = p
    OBVIOUS
  <2>5. 1..0 = {}
    OBVIOUS
  <2> HIDE DEF at
  <2>6. EachRendered(tape, at, f, objs, p, q)
    BY <1>1, <1>4, <2>3, <2>4, <2>5 DEF EachRendered
  <2> QED BY <2>6
<1>5. CASE n # 0
  <2>1. PICK h \in [1..n -> Seq(Item)] : Joined(h, e, n) /\ FlattenSeq(e) = h[n]
    <3>1. PICK m \in Nat \ {0} : m = n
      BY <1>5
    <3>2. PICK seqs \in Seq(Seq(Item)) : seqs = e /\ Len(seqs) = m
      BY <1>3, <3>1
    <3>3. \E g \in [1..m -> Seq(Item)] : Joined(g, seqs, m) /\ FlattenSeq(seqs) = g[m]
      BY <3>2, Flattened
    <3> QED BY <3>1, <3>2, <3>3
  <2>6. /\ 1 \in 1..n /\ h[1] = e[1]
        /\ \A i \in 1..n : i # 1 => h[i] = h[i - 1] \o e[i]
    <3>1. 1 \in 1..n
      BY <1>5
    <3> QED BY <2>1, <3>1 DEF Joined
  <2> DEFINE Good(at, i, r) == /\ at \in [0..n -> Nat] /\ at[0] = p /\ at[i] = r
                               /\ \A k \in 1..i : Rendered(tape, at[k - 1], e[k], at[k])
             S == {i \in Nat : i # 0 => \A r \in Nat : Rendered(tape, p, h[i], r) => \E at : Good(at, i, r)}
  <2> HIDE DEF Good
  <2>2. 0 \in S
    OBVIOUS
  <2>3. ASSUME NEW i \in Nat, i < n, i \in S PROVE i + 1 \in S
    <3> SUFFICES ASSUME NEW r \in Nat, Rendered(tape, p, h[i + 1], r) PROVE \E at : Good(at, i + 1, r)
      OBVIOUS
    <3>1. i + 1 \in 1..n /\ e[i + 1] \in Seq(Item)
      BY <1>3, <2>3
    <3>2. CASE i = 0
      <4> DEFINE at == [k \in 0..n |-> IF k = 0 THEN p ELSE r]
      <4>1. at \in [0..n -> Nat] /\ at[0] = p /\ at[1] = r
        BY <1>5
      <4> HIDE DEF at
      <4>3. Good(at, 1, r)
        <5>1. Rendered(tape, at[1 - 1], e[1], at[1])
          BY <2>6, <3>2, <4>1
        <5>2. 1..1 = {1}
          OBVIOUS
        <5> QED BY <4>1, <5>1, <5>2 DEF Good
      <4> QED BY <3>2, <4>3
    <3>3. CASE i # 0
      <4>1. h[i + 1] = h[i] \o e[i + 1] /\ h[i] \in Seq(Item) /\ i \in 0..n
        <5>1. i \in 1..n /\ i + 1 # 1 /\ i + 1 - 1 = i /\ i \in 0..n
          BY <2>3, <3>3
        <5>2. PICK j \in 1..n : j = i + 1 /\ j # 1 /\ j - 1 = i
          BY <3>1, <5>1
        <5>3. h[j] = h[j - 1] \o e[j]
          BY <2>6, <5>2
        <5>4. h[i] \in Seq(Item)
          BY <5>1
        <5> QED BY <5>1, <5>2, <5>3, <5>4
      <4>2. PICK r1 \in Nat : Rendered(tape, p, h[i], r1) /\ Rendered(tape, r1, e[i + 1], r)
        BY <3>1, <4>1, RenderedApart
      <4>3. PICK at1 : Good(at1, i, r1)
        BY <2>3, <3>3, <4>2
      <4> DEFINE at == [k \in 0..n |-> IF k <= i THEN at1[k] ELSE r]
      <4>4. /\ at \in [0..n -> Nat] /\ \A k \in 0..n : at[k] = IF k <= i THEN at1[k] ELSE r
        BY <4>3 DEF Good
      <4> HIDE DEF at
      <4>5. at[0] = p /\ at[i] = r1 /\ at[i + 1] = r
        BY <2>3, <3>1, <3>3, <4>1, <4>3, <4>4 DEF Good
      <4>6. ASSUME NEW k \in 1..(i + 1) PROVE Rendered(tape, at[k - 1], e[k], at[k])
        <5>1. CASE k = i + 1
          BY <4>2, <4>5, <5>1
        <5>2. CASE k # i + 1
          <6>1. k \in 1..i /\ k \in 0..n /\ k - 1 \in 0..n /\ k <= i /\ k - 1 <= i
            BY <2>3, <5>2
          <6>2. at[k] = at1[k] /\ at[k - 1] = at1[k - 1]
            BY <4>4, <6>1
          <6> QED BY <4>3, <6>1, <6>2 DEF Good
        <5> QED BY <5>1, <5>2
      <4>7. Good(at, i + 1, r)
        BY <4>4, <4>5, <4>6 DEF Good
      <4> QED BY <4>7
    <3> QED BY <3>2, <3>3
  <2> HIDE DEF S
  <2>4. n \in S
    <3>1. \A k \in 0..n : k \in S
      BY <2>2, <2>3, UpwardsTo
    <3> QED BY <3>1
  <2>5. \E at : Good(at, n, q)
    BY <1>2, <1>5, <2>1, <2>4 DEF S
  <2>7. PICK at : Good(at, n, q)
    BY <2>5
  <2>8. EachRendered(tape, at, f, objs, p, q)
    BY <1>1, <1>3, <2>7 DEF Good, EachRendered
  <2> QED BY <2>8
<1> QED BY <1>4, <1>5

-----------------------------------------------------------------------------
(* The calls of fast_print on the stack. *)

LEMMA Kinds ==
    /\ \A c \in Printing : /\ c.proc = "fast_print" /\ c.sym \in Objects /\ c.index \in Nat
                        /\ c.obj \in Objects /\ c.l \in Seq(Entries) /\ c.rest \in Seq(Item)
    /\ AfterGc \notin Printing
    /\ \A c \in Call : c.proc = "fast_print" => c \in Printing
<1>1. AfterGc.proc # "fast_print"
  BY DEF AfterGc
<1> QED BY <1>1 DEF Printing, Call

LEMMA Prefix ==
    ASSUME NEW s \in Seq(Call), NEW n \in 0..Len(s)
    PROVE  /\ SubSeq(s, 1, n) \in Seq(Call) /\ Len(SubSeq(s, 1, n)) = n
           /\ \A i \in 1..n : SubSeq(s, 1, n)[i] = s[i]
<1>1. \A i \in 1..n : s[i] \in Call
  OBVIOUS
<1> QED BY <1>1, SubSeqProperties

LEMMA InnermostIs ==
    ASSUME calls \in Seq(Call), Innermost # AfterGc
    PROVE  /\ Len(calls) \in DOMAIN calls /\ Len(calls) \in Nat /\ DOMAIN calls = 1..Len(calls)
           /\ Innermost = calls[Len(calls)] /\ Innermost \in Printing
           /\ Outer \in Seq(Call) /\ Len(Outer) = Len(calls) - 1
           /\ \A i \in 1..(Len(calls) - 1) : Outer[i] = calls[i]
<1>1. calls # <<>> /\ Innermost = calls[Len(calls)]
  BY DEF Innermost
<1>2. Len(calls) \in DOMAIN calls /\ Len(calls) \in Nat /\ DOMAIN calls = 1..Len(calls)
  BY <1>1
<1>3. Innermost \in Printing
  BY <1>1, <1>2 DEF Call
<1>4. Len(calls) - 1 \in 0..Len(calls)
  BY <1>2
<1> QED BY <1>1, <1>2, <1>3, <1>4, Prefix DEF Outer

-----------------------------------------------------------------------------
(* Where the stream stays, and the calls, or some of them: what is new in  *)
(* the table has its name, or is awaited.                                  *)

Same(c, d) == d \in Printing =>
                 /\ c \in Printing /\ d.sym = c.sym /\ d.index = c.index /\ d.l = c.l
                 /\ c.at = "plus" => d.at = "plus"

LEMMA SameCalls ==
    ASSUME IInv, calls' \in Seq(Call), ht' \in Seq(Entries),
           UNCHANGED <<file, next, doubtful>>, cut \subseteq cut', whole' => whole, whole' \in BOOLEAN,
           \A i \in DOMAIN calls' : calls'[i] \in Printing =>
              i \in DOMAIN calls /\ Same(calls[i], calls'[i]),
           \A i \in DOMAIN calls : calls[i] \in Printing /\ calls[i].at = "plus" =>
              \/ calls[i].sym \in cut'
              \/ i \in DOMAIN calls' /\ calls'[i] \in Printing /\ Same(calls[i], calls'[i]),
           \A e : (\E j \in DOMAIN ht' : e = ht'[j]) => Named(e) \/ Awaited(e)'
    PROVE  IInv'
<1>1. Typing'
  BY DEF IInv, Typing
<1>2. Alone'
  <2> SUFFICES ASSUME NEW i \in DOMAIN calls', calls'[i] \in Printing
               PROVE  /\ ~Unsure(calls[i].index)' =>
                            /\ calls'[i].index = next'
                            /\ \A j \in DOMAIN calls' : calls'[j] \in Printing => j = i
                      /\ Unsure(calls[i].index)' => Unsure(next)'
    BY DEF Alone
  <2>1. i \in DOMAIN calls /\ calls[i] \in Printing /\ calls'[i].index = calls[i].index
    BY DEF Same
  <2>2. \A j \in DOMAIN calls' : calls'[j] \in Printing => j \in DOMAIN calls /\ calls[j] \in Printing
    BY DEF Same
  <2> QED BY <2>1, <2>2 DEF IInv, Alone, Unsure
<1>3. Once'
  BY DEF IInv, Once, Unsure
<1>4. \A q, sym, index : Names(q, sym, index)' <=> Names(q, sym, index)
  BY DEF Names
<1>5. \A e : Excused(e) => Excused(e)'
  BY DEF Excused, Unsure
<1>6. ASSUME NEW e, Named(e) PROVE Named(e)'
  <2>1. CASE Excused(e)
    BY <1>5, <2>1 DEF Named
  <2>2. CASE Awaited(e)
    <3>1. PICK i \in DOMAIN calls : /\ calls[i] \in Printing /\ calls[i].at = "plus"
                                    /\ calls[i].index = e.index /\ calls[i].sym = e.sym
      BY <2>2 DEF Awaited
    <3>2. CASE calls[i].sym \in cut'
      BY <3>1, <3>2 DEF Named, Excused
    <3>3. CASE i \in DOMAIN calls' /\ calls'[i] \in Printing /\ Same(calls[i], calls'[i])
      BY <3>1, <3>3 DEF Named, Awaited, Same
    <3> QED BY <3>1, <3>2, <3>3
  <2>3. CASE \E q \in DOMAIN file : Names(q, e.sym, e.index)
    BY <1>4, <2>3 DEF Named
  <2> QED BY <1>6, <2>1, <2>2, <2>3 DEF Named
<1>7. TableNamed'
  <2>1. ASSUME NEW j \in DOMAIN ht', NEW e, e = ht'[j] PROVE Named(e)'
    <3>1. Named(e) \/ Awaited(e)'
      BY <2>1
    <3>2. CASE Named(e)
      BY <1>6, <3>2
    <3>3. CASE Awaited(e)'
      BY <3>3 DEF Named
    <3> QED BY <3>1, <3>2, <3>3
  <2> QED BY <2>1 DEF TableNamed
<1>8. ReadNamed'
  <2>1. ASSUME NEW i \in DOMAIN calls', calls'[i] \in Printing, NEW j \in DOMAIN calls'[i].l,
               NEW e, e = calls'[i].l[j]
        PROVE  Named(e)'
    <3>1. i \in DOMAIN calls /\ calls[i] \in Printing /\ calls'[i].l = calls[i].l
      BY <2>1 DEF Same
    <3>2. Named(e)
      BY <2>1, <3>1 DEF IInv, ReadNamed
    <3> QED BY <1>6, <3>2
  <2> QED BY <2>1 DEF ReadNamed
<1>9. Behind'
  BY <1>4, <1>5 DEF IInv, Behind
<1> QED BY <1>1, <1>2, <1>3, <1>7, <1>8, <1>9 DEF IInv

-----------------------------------------------------------------------------
(* Where the stream grows: a name that a call was to write is in it, at h, *)
(* or excused, and every new fetch, behind h, is of an entry of the table. *)

LEMMA FetchIs ==
    ASSUME NEW t \in Tokens, t.op \in {"FO_fetch", "FO_store"}
    PROVE  t.index \in Nat
<1>1. CASE t \in Item
  <2>1. CASE t \in [op : {"cons", "FO_list", "FO_listd", "lisp_array"}, len : Nat]
    BY <2>1
  <2>2. CASE t \in [op : Types \ {"cons", "lisp_array"}, obj : Objects]
    <3>1. t.op \in Types
      BY <2>2
    <3> QED BY <3>1, ObjectAssumption DEF Types
  <2> QED BY <1>1, <2>1, <2>2 DEF Item
<1>2. CASE t \in StoreOp \cup FetchOp
  BY <1>2 DEF StoreOp, FetchOp
<1>3. CASE t \in Name \cup {LoneSymbol}
  BY <1>3 DEF Name, LoneSymbol
<1> QED BY <1>1, <1>2, <1>3 DEF Tokens

LEMMA Written ==
    ASSUME IInv, calls' \in Seq(Call), file' \in Seq(Tokens), ht' = ht, next' \in Nat,
           doubtful' \in Nat, doubtful' <= doubtful, cut \subseteq cut', NEW h \in Nat,
           whole' => whole, whole' \in BOOLEAN,
           \A p \in DOMAIN file : p \in DOMAIN file' /\ file'[p] = file[p],
           Once', Alone',
           \A i \in DOMAIN calls : calls[i] \in Printing /\ calls[i].at = "plus" =>
              \/ calls[i].sym \in cut' \/ (~whole' /\ doubtful' <= calls[i].index)
              \/ \E sym, index : /\ sym = calls[i].sym /\ index = calls[i].index
                                 /\ Names(h, sym, index)',
           \A i \in DOMAIN calls' : calls'[i] \in Printing =>
              \/ calls'[i].l = ht
              \/ \E j \in DOMAIN calls : calls[j] \in Printing /\ calls'[i].l = calls[j].l,
           \A p \in DOMAIN file' : (p \notin DOMAIN file /\ file'[p].op = "FO_fetch") =>
              /\ h < p
              /\ \E j \in DOMAIN ht : file'[p].sym = ht[j].sym /\ file'[p].index = ht[j].index
    PROVE  IInv'
<1>1. Typing'
  BY DEF IInv, Typing
<1>2. /\ file \in Seq(Tokens) /\ Len(file) \in Nat /\ DOMAIN file = 1..Len(file)
      /\ DOMAIN file' = 1..Len(file') /\ Len(file') \in Nat /\ doubtful \in Nat
      /\ ht \in Seq(Entries) /\ \A j \in DOMAIN ht : ht[j].index \in Nat
  <2>1. /\ file \in Seq(Tokens) /\ ht \in Seq(Entries) /\ doubtful \in Nat
    BY DEF IInv, Typing
  <2>2. \A j \in DOMAIN ht : ht[j] \in Entries
    BY <2>1
  <2> QED BY <2>1, <2>2 DEF Entries
<1>3. \A q, sym, index : Names(q, sym, index) => Names(q, sym, index)'
  BY DEF Names
<1>4. \A e : (e.index \in Nat /\ Excused(e)) => Excused(e)'
  BY <1>2 DEF Excused, Unsure
<1>5. ASSUME NEW e, e.index \in Nat, Named(e)
      PROVE  \/ Excused(e)' \/ Names(h, e.sym, e.index)'
             \/ \E q \in DOMAIN file : Names(q, e.sym, e.index)'
  <2>1. CASE Excused(e)
    BY <1>4, <1>5, <2>1
  <2>2. CASE Awaited(e)
    <3>1. PICK i \in DOMAIN calls : /\ calls[i] \in Printing /\ calls[i].at = "plus"
                                    /\ calls[i].index = e.index /\ calls[i].sym = e.sym
      BY <2>2 DEF Awaited
    <3>2. \/ e.sym \in cut' \/ (~whole' /\ doubtful' <= e.index)
          \/ \E sym, index : sym = e.sym /\ index = e.index /\ Names(h, sym, index)'
      BY <3>1
    <3> QED BY <3>2 DEF Excused, Unsure
  <2>3. CASE \E q \in DOMAIN file : Names(q, e.sym, e.index)
    BY <1>3, <2>3
  <2> QED BY <1>5, <2>1, <2>2, <2>3 DEF Named
<1>6. ASSUME NEW e, e.index \in Nat, Named(e) PROVE Named(e)'
  <2>1. \A q, sym, index : Names(q, sym, index)' => q \in DOMAIN file'
    BY DEF Names
  <2>2. \/ Excused(e)' \/ \E q \in DOMAIN file' : Names(q, e.sym, e.index)'
    BY <1>5, <1>6, <2>1
  <2> QED BY <2>2 DEF Named
<1>7. TableNamed'
  <2>1. ASSUME NEW j \in DOMAIN ht, NEW e, e = ht[j] PROVE Named(e)'
    <3>1. Named(e) /\ e.index \in Nat
      BY <1>2, <2>1 DEF IInv, TableNamed
    <3> QED BY <1>6, <3>1
  <2> QED BY <2>1 DEF TableNamed
<1>8. ReadNamed'
  <2>1. ASSUME NEW i \in DOMAIN calls', calls'[i] \in Printing, NEW j \in DOMAIN calls'[i].l,
               NEW e, e = calls'[i].l[j]
        PROVE  Named(e)'
    <3>1. CASE calls'[i].l = ht
      BY <1>7, <2>1, <3>1 DEF TableNamed
    <3>2. CASE \E k \in DOMAIN calls : calls[k] \in Printing /\ calls'[i].l = calls[k].l
      <4>1. PICK k \in DOMAIN calls : calls[k] \in Printing /\ calls'[i].l = calls[k].l
        BY <3>2
      <4>2. Named(e)
        BY <2>1, <4>1 DEF IInv, ReadNamed
      <4>3. e.index \in Nat
        <5>1. calls[k].l \in Seq(Entries) /\ j \in DOMAIN calls[k].l
          BY <2>1, <4>1, Kinds
        <5>2. e \in Entries
          BY <2>1, <4>1, <5>1
        <5> QED BY <5>2 DEF Entries
      <4> QED BY <1>6, <4>2, <4>3
    <3> QED BY <2>1, <3>1, <3>2
  <2> QED BY <2>1 DEF ReadNamed
<1>9. ASSUME NEW p \in DOMAIN file', NEW t, t = file'[p], t.op = "FO_fetch"
      PROVE  Excused(t)' \/ \E q \in DOMAIN file' : q < p /\ Names(q, t.sym, t.index)'
  <2>1. CASE p \in DOMAIN file
    <3>1. t = file[p]
      BY <1>9, <2>1
    <3>2. \/ Excused(t) \/ \E q \in DOMAIN file : q < p /\ Names(q, t.sym, t.index)
      BY <1>9, <2>1, <3>1 DEF IInv, Behind
    <3>3. t.index \in Nat
      <4>1. t \in Tokens
        BY <1>2, <2>1, <3>1
      <4> QED BY <1>9, <4>1, FetchIs
    <3>4. CASE Excused(t)
      BY <1>4, <3>3, <3>4
    <3>5. CASE \E q \in DOMAIN file : q < p /\ Names(q, t.sym, t.index)
      BY <1>3, <3>5
    <3> QED BY <3>2, <3>4, <3>5
  <2>2. CASE p \notin DOMAIN file
    <3>1. h < p
      BY <1>9, <2>2
    <3>2. PICK j \in DOMAIN ht : t.sym = ht[j].sym /\ t.index = ht[j].index
      BY <1>9, <2>2
    <3>3. PICK e : e = ht[j]
      OBVIOUS
    <3>4. Named(e) /\ e.index \in Nat /\ t.sym = e.sym /\ t.index = e.index
      BY <1>2, <3>2, <3>3 DEF IInv, TableNamed
    <3>5. \/ Excused(e)' \/ Names(h, e.sym, e.index)'
          \/ \E q \in DOMAIN file : Names(q, e.sym, e.index)'
      BY <1>5, <3>4
    <3>6. CASE Excused(e)'
      BY <3>4, <3>6 DEF Excused, Unsure
    <3>7. CASE Names(h, e.sym, e.index)'
      <4>1. Names(h, t.sym, t.index)' /\ h \in DOMAIN file'
        BY <3>4, <3>7 DEF Names
      <4> QED BY <3>1, <4>1
    <3>8. CASE \E q \in DOMAIN file : Names(q, e.sym, e.index)'
      <4>1. PICK q \in DOMAIN file : Names(q, e.sym, e.index)'
        BY <3>8
      <4>2. Names(q, t.sym, t.index)' /\ q \in DOMAIN file'
        BY <3>4, <4>1 DEF Names
      <4>3. q < p
        BY <1>2, <2>2
      <4> QED BY <4>2, <4>3
    <3> QED BY <3>5, <3>6, <3>7, <3>8
  <2> QED BY <2>1, <2>2
<1>10. Behind'
  BY <1>9 DEF Behind
<1> QED BY <1>1, <1>7, <1>8, <1>10 DEF IInv

-----------------------------------------------------------------------------
(* What a run of fast_print up to its next allocation writes, and leaves   *)
(* on the stack.                                                           *)

LEMMA TokenIs ==
    ASSUME ht \in Seq(Entries), NEW item \in Item, ~IsNew(item)
    PROVE  /\ Token(item) \in Tokens /\ Token(item).op # "FO_store"
           /\ Token(item).op = "FO_fetch" =>
                 \E j \in DOMAIN ht : /\ Token(item).sym = ht[j].sym
                                      /\ Token(item).index = ht[j].index
<1>1. /\ item.op \notin {"FO_store", "FO_fetch"}
      /\ item.op = "symbol" => item.obj \in Objects
  <2>1. CASE item \in [op : {"cons", "FO_list", "FO_listd", "lisp_array"}, len : Nat]
    BY <2>1
  <2>2. CASE item \in [op : Types \ {"cons", "lisp_array"}, obj : Objects]
    <3>1. item.op \in Types /\ item.obj \in Objects
      BY <2>2
    <3> QED BY <3>1, ObjectAssumption DEF Types
  <2> QED BY <2>1, <2>2 DEF Item
<1>2. CASE item.op # "symbol"
  BY <1>1, <1>2 DEF Token, Tokens
<1>3. CASE item.op = "symbol"
  <2> DEFINE S == Entry(item.obj)
             j == Least(S)
  <2>1. S \in SUBSET Nat /\ S # {}
    BY <1>3 DEF Entry, IsNew
  <2>2. j \in S
    BY <2>1, LeastIs
  <2>3. j \in DOMAIN ht /\ ht[j].sym = item.obj /\ ht[j] \in Entries
    BY <2>2 DEF Entry
  <2>4. Token(item) = [op |-> "FO_fetch", index |-> ht[j].index, sym |-> item.obj]
    BY <1>3 DEF Token
  <2> HIDE DEF S, j
  <2>5. ht[j].index \in Nat
    BY <2>3 DEF Entries
  <2> QED BY <1>1, <1>3, <2>3, <2>4, <2>5 DEF Tokens, FetchOp
<1> QED BY <1>2, <1>3

(* Where fast_print stops: behind the items, or at the first that is new   *)
(* or cannot be printed.                                                   *)
StopOf(items) ==
    LET stops == {i \in DOMAIN items : IsNew(items[i]) \/ items[i].op = "closure"}
    IN  IF stops = {} THEN Len(items) + 1 ELSE Least(stops)

LEMMA StopIs ==
    \A items \in Seq(Item) :
       /\ StopOf(items) \in 1..(Len(items) + 1)
       /\ \A i \in 1..(StopOf(items) - 1) : i \in DOMAIN items /\ ~IsNew(items[i])
       /\ StopOf(items) \in DOMAIN items =>
             IsNew(items[StopOf(items)]) \/ items[StopOf(items)].op = "closure"
<1> SUFFICES ASSUME NEW items \in Seq(Item)
             PROVE  /\ StopOf(items) \in 1..(Len(items) + 1)
                    /\ \A i \in 1..(StopOf(items) - 1) : i \in DOMAIN items /\ ~IsNew(items[i])
                    /\ StopOf(items) \in DOMAIN items =>
                          IsNew(items[StopOf(items)]) \/ items[StopOf(items)].op = "closure"
  OBVIOUS
<1> DEFINE stops == {i \in DOMAIN items : IsNew(items[i]) \/ items[i].op = "closure"}
<1>1. PICK n : n = IF stops = {} THEN Len(items) + 1 ELSE Least(stops)
  OBVIOUS
<1>2. StopOf(items) = n
  BY <1>1 DEF StopOf
<1>3. Len(items) \in Nat /\ DOMAIN items = 1..Len(items)
  OBVIOUS
<1>4. CASE stops = {}
  <2>1. n = Len(items) + 1
    BY <1>1, <1>4
  <2>2. \A i \in DOMAIN items : ~IsNew(items[i])
    BY <1>4
  <2> HIDE DEF stops
  <2>3. n \in 1..(Len(items) + 1) /\ 1..(n - 1) = DOMAIN items /\ n \notin DOMAIN items
    BY <1>3, <2>1
  <2> QED BY <1>2, <2>2, <2>3
<1>5. CASE stops # {}
  <2>1. stops \in SUBSET Nat
    BY <1>3
  <2>2. n \in stops /\ \A j \in stops : n <= j
    <3> HIDE DEF stops
    <3> QED BY <1>1, <1>5, <2>1, LeastIs
  <2>3. n \in DOMAIN items /\ (IsNew(items[n]) \/ items[n].op = "closure")
    BY <2>2
  <2>4. ASSUME NEW i \in 1..(n - 1) PROVE i \in DOMAIN items /\ ~IsNew(items[i])
    <3>1. i \in DOMAIN items /\ ~(n <= i)
      BY <1>3, <2>3
    <3> QED BY <2>2, <3>1
  <2>5. n \in 1..(Len(items) + 1)
    BY <1>3, <2>3
  <2> QED BY <1>2, <2>3, <2>4, <2>5
<1> QED BY <1>4, <1>5

LEMMA PrintsOn ==
    ASSUME file \in Seq(Tokens), ht \in Seq(Entries), next' \in Nat,
           NEW base \in Seq(Call), NEW before \in Seq(Tokens), NEW obj \in Objects,
           NEW items \in Seq(Item), PrintOn(base, obj, before, items)
    PROVE  /\ file' \in Seq(Tokens)
           /\ \A p \in DOMAIN file : p \in DOMAIN file' /\ file'[p] = file[p]
           /\ \A k \in DOMAIN before : /\ Len(file) + k \in DOMAIN file'
                                       /\ file'[Len(file) + k] = before[k]
           /\ \A p \in DOMAIN file' :
                 \/ p \in DOMAIN file
                 \/ p - Len(file) \in DOMAIN before /\ file'[p] = before[p - Len(file)]
                 \/ /\ p > Len(file) + Len(before) /\ file'[p].op # "FO_store"
                    /\ file'[p].op = "FO_fetch" =>
                          \E j \in DOMAIN ht : /\ file'[p].sym = ht[j].sym
                                               /\ file'[p].index = ht[j].index
           /\ whole' \in BOOLEAN
           /\ whole' => whole /\ \A j \in DOMAIN base : base[j] \notin Printing
           /\ \/ calls' = <<>>
              \/ calls' = base
              \/ \E c \in Printing : /\ c.at = "hset" /\ c.index = next' /\ c.l = ht
                                     /\ calls' = Append(base, c)
<1> DEFINE n == StopOf(items)
           ends == n > Len(items)
           fails == ~ends /\ items[n].op = "closure"
           out == [i \in 1..(n - 1) |-> Token(items[i])]
           c == [proc |-> "fast_print", at |-> "hset", gc |-> FALSE,
                 obj |-> obj, sym |-> items[n].obj, index |-> next',
                 l |-> ht, rest |-> SubSeq(items, n + 1, Len(items))]
<1>0. /\ whole' \in BOOLEAN
      /\ whole' => whole /\ \A j \in DOMAIN base : base[j] \notin Printing
  <2>1. whole' = (whole /\ ~fails /\ \A j \in DOMAIN base : base[j].proc # "fast_print")
    BY DEF PrintOn, StopOf
  <2> HIDE DEF fails
  <2> QED BY <2>1, Kinds
<1>1. /\ file' = file \o before \o out
      /\ calls' = IF ends THEN base ELSE IF fails THEN <<>> ELSE Append(base, c)
  BY DEF PrintOn, StopOf, out, c
<1> HIDE DEF c, out
<1>2. Len(items) \in Nat /\ DOMAIN items = 1..Len(items)
  OBVIOUS
<1> HIDE DEF n
<1>3. /\ n \in 1..(Len(items) + 1)
      /\ \A i \in 1..(n - 1) : i \in DOMAIN items /\ ~IsNew(items[i])
      /\ ~ends => n \in DOMAIN items /\ (~fails => IsNew(items[n]))
  <2>1. \A s \in Seq(Item) :
           /\ StopOf(s) \in 1..(Len(s) + 1)
           /\ \A i \in 1..(StopOf(s) - 1) : i \in DOMAIN s /\ ~IsNew(s[i])
           /\ StopOf(s) \in DOMAIN s => IsNew(s[StopOf(s)]) \/ s[StopOf(s)].op = "closure"
    BY StopIs
  <2>2. /\ n \in 1..(Len(items) + 1)
        /\ \A i \in 1..(n - 1) : i \in DOMAIN items /\ ~IsNew(items[i])
        /\ n \in DOMAIN items => IsNew(items[n]) \/ items[n].op = "closure"
    BY <2>1 DEF n
  <2> QED BY <1>2, <2>2
<1>4. /\ out \in Seq(Tokens) /\ Len(out) = n - 1
      /\ \A i \in DOMAIN out :
            /\ out[i].op # "FO_store"
            /\ out[i].op = "FO_fetch" =>
                  \E j \in DOMAIN ht : out[i].sym = ht[j].sym /\ out[i].index = ht[j].index
  <2>1. \A i \in 1..(n - 1) :
           /\ Token(items[i]) \in Tokens /\ Token(items[i]).op # "FO_store"
           /\ Token(items[i]).op = "FO_fetch" =>
                 \E j \in DOMAIN ht : /\ Token(items[i]).sym = ht[j].sym
                                      /\ Token(items[i]).index = ht[j].index
    <3> SUFFICES ASSUME NEW i \in 1..(n - 1)
                 PROVE  /\ Token(items[i]) \in Tokens /\ Token(items[i]).op # "FO_store"
                        /\ Token(items[i]).op = "FO_fetch" =>
                              \E j \in DOMAIN ht : /\ Token(items[i]).sym = ht[j].sym
                                                   /\ Token(items[i]).index = ht[j].index
      OBVIOUS
    <3>1. items[i] \in Item /\ ~IsNew(items[i])
      BY <1>3
    <3> QED BY <3>1, TokenIs
  <2>2. n - 1 \in Nat
    BY <1>2, <1>3
  <2> DEFINE T(i) == Token(items[i])
  <2>3. out = [i \in 1..(n - 1) |-> T(i)]
    BY DEF out
  <2> HIDE DEF T
  <2>4. out \in Seq(Tokens) /\ Len(out) = n - 1 /\ \A i \in DOMAIN out : i \in 1..(n - 1) /\ out[i] = T(i)
    <3>1. \A i \in 1..(n - 1) : T(i) \in Tokens
      BY <2>1 DEF T
    <3>2. PICK m \in Nat : m = n - 1
      BY <2>2
    <3>3. out = [i \in 1..m |-> T(i)] /\ \A i \in 1..m : T(i) \in Tokens
      BY <2>3, <3>1, <3>2
    <3> HIDE DEF out, n, ends, fails
    <3>4. out = [i \in 1..m |-> out[i]] /\ \A i \in 1..m : out[i] \in Tokens /\ out[i] = T(i)
      BY <3>3
    <3>5. out \in Seq(Tokens) /\ Len(out) = m /\ DOMAIN out = 1..m
      BY <3>4, Mapped
    <3> QED BY <3>2, <3>4, <3>5
  <2> QED BY <2>1, <2>4 DEF T
<1>5. ASSUME ~ends, ~fails PROVE c \in Printing
  <2>1. n \in DOMAIN items /\ items[n] \in Item /\ IsNew(items[n])
    BY <1>3, <1>5
  <2>2. items[n].obj \in Objects
    <3>1. items[n].op = "symbol"
      BY <2>1 DEF IsNew
    <3> QED BY <2>1, <3>1 DEF Item
  <2>3. SubSeq(items, n + 1, Len(items)) \in Seq(Item)
    <3>1. n + 1 \in 1..(Len(items) + 1) /\ Len(items) \in n..Len(items)
      BY <1>2, <2>1
    <3>2. \A i \in (n + 1)..Len(items) : items[i] \in Item
      BY <1>2, <2>1
    <3>3. n + 1 \in Nat
      BY <1>2, <2>1
    <3> QED BY <1>2, <3>1, <3>2, <3>3, SubSeqProperties
  <2> QED BY <2>2, <2>3 DEF Printing, c
<1> HIDE DEF ends, fails
<1> DEFINE g == file \o before
<1>6. /\ g \in Seq(Tokens) /\ Len(g) = Len(file) + Len(before)
      /\ \A i \in DOMAIN file : g[i] = file[i]
      /\ \A k \in DOMAIN before : g[Len(file) + k] = before[k]
      /\ \A p \in DOMAIN g :
            p \in DOMAIN file \/ (p - Len(file) \in DOMAIN before /\ g[p] = before[p - Len(file)])
  BY Together
<1>7. file' = g \o out
  BY <1>1
<1> HIDE DEF g
<1>8. /\ file' \in Seq(Tokens) /\ Len(file') = Len(g) + Len(out)
      /\ \A i \in DOMAIN g : file'[i] = g[i]
      /\ \A p \in DOMAIN file' :
            p \in DOMAIN g \/ (p - Len(g) \in DOMAIN out /\ file'[p] = out[p - Len(g)])
  <2>0. \A s, u \in Seq(Tokens) :
           /\ s \o u \in Seq(Tokens) /\ Len(s \o u) = Len(s) + Len(u)
           /\ \A i \in DOMAIN s : (s \o u)[i] = s[i]
           /\ \A p \in DOMAIN (s \o u) :
                 p \in DOMAIN s \/ (p - Len(s) \in DOMAIN u /\ (s \o u)[p] = u[p - Len(s)])
    BY Together
  <2>1. /\ g \o out \in Seq(Tokens) /\ Len(g \o out) = Len(g) + Len(out)
        /\ \A i \in DOMAIN g : (g \o out)[i] = g[i]
        /\ \A p \in DOMAIN (g \o out) :
              p \in DOMAIN g \/ (p - Len(g) \in DOMAIN out /\ (g \o out)[p] = out[p - Len(g)])
    BY <1>4, <1>6, <2>0
  <2> QED BY <1>7, <2>1
<1>9. /\ Len(file) \in Nat /\ Len(before) \in Nat /\ Len(out) \in Nat /\ Len(g) \in Nat
      /\ DOMAIN file = 1..Len(file) /\ DOMAIN before = 1..Len(before)
      /\ DOMAIN g = 1..Len(g) /\ DOMAIN out = 1..Len(out) /\ DOMAIN file' = 1..Len(file')
  BY <1>4, <1>6, <1>8
<1>10. \A p \in DOMAIN file : p \in DOMAIN file' /\ file'[p] = file[p]
  <2> SUFFICES ASSUME NEW p \in DOMAIN file PROVE p \in DOMAIN file' /\ file'[p] = file[p]
    OBVIOUS
  <2>1. p \in DOMAIN g /\ p \in DOMAIN file'
    BY <1>6, <1>8, <1>9
  <2> QED BY <1>6, <1>8, <2>1
<1>11. ASSUME NEW k \in DOMAIN before
       PROVE  Len(file) + k \in DOMAIN file' /\ file'[Len(file) + k] = before[k]
  <2>1. Len(file) + k \in DOMAIN g /\ Len(file) + k \in DOMAIN file'
    BY <1>6, <1>8, <1>9
  <2> QED BY <1>6, <1>8, <2>1
<1>12. ASSUME NEW p \in DOMAIN file'
       PROVE  \/ p \in DOMAIN file
              \/ p - Len(file) \in DOMAIN before /\ file'[p] = before[p - Len(file)]
              \/ /\ p > Len(file) + Len(before) /\ file'[p].op # "FO_store"
                 /\ file'[p].op = "FO_fetch" =>
                       \E j \in DOMAIN ht : /\ file'[p].sym = ht[j].sym
                                            /\ file'[p].index = ht[j].index
  <2>1. CASE p \in DOMAIN g
    BY <1>6, <1>8, <2>1
  <2>2. CASE p \notin DOMAIN g
    <3>1. p - Len(g) \in DOMAIN out /\ file'[p] = out[p - Len(g)]
      BY <1>8, <2>2
    <3>2. p > Len(file) + Len(before)
      BY <1>6, <1>9, <2>2
    <3>3. PICK k \in DOMAIN out : file'[p] = out[k]
      BY <3>1
    <3>4. /\ file'[p].op # "FO_store"
          /\ file'[p].op = "FO_fetch" =>
                \E j \in DOMAIN ht : /\ file'[p].sym = ht[j].sym
                                     /\ file'[p].index = ht[j].index
      BY <1>4, <3>3
    <3> QED BY <3>2, <3>4
  <2> QED BY <2>1, <2>2
<1>13. \/ calls' = <<>>
       \/ calls' = base
       \/ \E d \in Printing : /\ d.at = "hset" /\ d.index = next' /\ d.l = ht
                              /\ calls' = Append(base, d)
  <2>1. c.at = "hset" /\ c.index = next' /\ c.l = ht
    BY DEF c
  <2> QED BY <1>1, <1>5, <2>1
<1> QED BY <1>0, <1>8, <1>10, <1>11, <1>12, <1>13

-----------------------------------------------------------------------------
(* The steps. *)

LEMMA TwoCalls ==
    ASSUME NEW s \in Seq(Call), NEW c \in Call, NEW d \in Call
    PROVE  /\ s \o <<c, d>> \in Seq(Call)
           /\ DOMAIN (s \o <<c, d>>) = 1..(Len(s) + 2)
           /\ \A i \in 1..Len(s) : (s \o <<c, d>>)[i] = s[i]
           /\ (s \o <<c, d>>)[Len(s) + 1] = c /\ (s \o <<c, d>>)[Len(s) + 2] = d
<1>1. <<c, d>> \in Seq(Call) /\ Len(<<c, d>>) = 2 /\ <<c, d>>[1] = c /\ <<c, d>>[2] = d
  OBVIOUS
<1>2. Len(s) \in Nat
  OBVIOUS
<1> QED BY <1>1, <1>2, ConcatProperties

LEMMA OneCall ==
    ASSUME NEW s \in Seq(Call), NEW c \in Call
    PROVE  /\ Append(s, c) \in Seq(Call) /\ DOMAIN Append(s, c) = 1..(Len(s) + 1)
           /\ \A i \in 1..Len(s) : Append(s, c)[i] = s[i]
           /\ Append(s, c)[Len(s) + 1] = c
BY AppendProperties

LEMMA InitKeeps == Init => IInv
<1> SUFFICES ASSUME Init PROVE IInv
  OBVIOUS
<1>1. /\ calls = <<>> /\ file = <<>> /\ ht = <<>> /\ next = 0
      /\ doubtful = MaxPrints * Cardinality(Objects)
  BY DEF Init
<1>0. whole \in BOOLEAN
  BY DEF Init
<1>2. doubtful \in Nat
  <2>1. Cardinality(Objects) \in Nat
    BY ObjectAssumption, FS_CardinalityType
  <2> QED BY <1>1, <2>1, PrintsAssumption
<1>3. DOMAIN calls = {} /\ DOMAIN file = {} /\ DOMAIN ht = {}
  BY <1>1
<1>4. Typing
  BY <1>0, <1>1, <1>2 DEF Typing
<1> QED BY <1>3, <1>4 DEF IInv, Alone, Once, TableNamed, ReadNamed, Behind

LEMMA HsetKeeps == IInv /\ Hset => IInv'
<1> SUFFICES ASSUME IInv, Hset PROVE IInv'
  OBVIOUS
<1> DEFINE c == Innermost
           k == Len(calls)
<1>1. /\ c.proc = "fast_print" /\ c.at = "hset"
      /\ ht' = <<[sym |-> c.sym, index |-> c.index]>> \o c.l
      /\ calls' = Append(Outer, [c EXCEPT !.at = "plus", !.gc = FALSE])
      /\ UNCHANGED <<file, next, doubtful, cut, whole>>
  BY DEF Hset, Allocates, Continue, history
<1>2. calls \in Seq(Call) /\ c # AfterGc /\ whole \in BOOLEAN
  BY <1>1 DEF IInv, Typing, AfterGc
<1>3. /\ k \in DOMAIN calls /\ k \in Nat /\ DOMAIN calls = 1..k
      /\ c = calls[k] /\ c \in Printing
      /\ Outer \in Seq(Call) /\ Len(Outer) = k - 1
      /\ \A i \in 1..(k - 1) : Outer[i] = calls[i]
  BY <1>2, InnermostIs
<1> HIDE DEF c, k
<1>4. PICK d : d = [c EXCEPT !.at = "plus", !.gc = FALSE]
  OBVIOUS
<1>5. /\ d \in Printing /\ d.at = "plus" /\ d.sym = c.sym /\ d.index = c.index /\ d.l = c.l
      /\ d \in Call
  BY <1>3, <1>4 DEF Printing, Call
<1>6. /\ calls' \in Seq(Call) /\ DOMAIN calls' = 1..k /\ calls'[k] = d
      /\ \A i \in 1..(k - 1) : calls'[i] = calls[i]
  <2>1. calls' = Append(Outer, d)
    BY <1>1, <1>4
  <2>2. Len(Outer) + 1 = k
    BY <1>3
  <2> QED BY <1>3, <1>5, <2>1, <2>2, OneCall
<1>7. \A i \in DOMAIN calls : i \in DOMAIN calls' /\ Same(calls[i], calls'[i])
                              /\ (calls[i] \in Printing => calls'[i] \in Printing)
  <2>1. Same(c, d)
    BY <1>3, <1>5 DEF Same
  <2>2. \A i \in 1..(k - 1) : Same(calls[i], calls'[i])
    BY <1>6 DEF Same
  <2>3. \A i \in DOMAIN calls : i = k \/ i \in 1..(k - 1)
    BY <1>3
  <2> QED BY <1>3, <1>5, <1>6, <2>1, <2>2, <2>3
<1>8. PICK n : n = [sym |-> c.sym, index |-> c.index]
  OBVIOUS
<1>9. n \in Entries /\ n.sym = c.sym /\ n.index = c.index /\ c.l \in Seq(Entries)
  BY <1>3, <1>8, Kinds DEF Entries
<1>10. /\ ht' \in Seq(Entries)
       /\ \A j \in DOMAIN ht' : ht'[j] = n \/ \E i \in DOMAIN c.l : ht'[j] = c.l[i]
  <2>1. ht' = <<n>> \o c.l
    BY <1>1, <1>8
  <2>2. <<n>> \in Seq(Entries) /\ Len(<<n>>) = 1 /\ DOMAIN <<n>> = {1} /\ <<n>>[1] = n
    BY <1>9
  <2>3. PICK s \in Seq(Entries) : s = <<n>>
    BY <2>2
  <2>4. PICK l \in Seq(Entries) : l = c.l
    BY <1>9
  <2>5. /\ s \o l \in Seq(Entries)
        /\ \A i \in DOMAIN s : (s \o l)[i] = s[i]
        /\ \A p \in DOMAIN (s \o l) :
              p \in DOMAIN s \/ (p - Len(s) \in DOMAIN l /\ (s \o l)[p] = l[p - Len(s)])
    BY Together
  <2>6. ht' = s \o l
    BY <2>1, <2>3, <2>4
  <2>7. ASSUME NEW j \in DOMAIN ht' PROVE ht'[j] = n \/ \E i \in DOMAIN l : ht'[j] = l[i]
    <3>1. CASE j \in DOMAIN s
      BY <2>2, <2>3, <2>5, <2>6, <3>1
    <3>2. CASE j \notin DOMAIN s
      BY <2>5, <2>6, <2>7, <3>2
    <3> QED BY <3>1, <3>2
  <2> QED BY <2>4, <2>5, <2>6, <2>7
<1>11. ASSUME NEW e, \E j \in DOMAIN ht' : e = ht'[j] PROVE Named(e) \/ Awaited(e)'
  <2>1. CASE e = n
    BY <1>3, <1>5, <1>6, <1>9, <2>1 DEF Awaited
  <2>2. CASE \E i \in DOMAIN c.l : e = c.l[i]
    BY <1>3, <2>2 DEF IInv, ReadNamed
  <2> QED BY <1>10, <1>11, <2>1, <2>2
<1> QED BY <1>1, <1>2, <1>3, <1>6, <1>7, <1>10, <1>11, SameCalls

LEMMA CollectKeeps == IInv /\ GcForNewcell => IInv'
<1> SUFFICES ASSUME IInv, GcForNewcell PROVE IInv'
  OBVIOUS
<1> DEFINE c == Innermost
           k == Len(calls)
<1>1. /\ c # AfterGc /\ calls' = Outer \o <<[c EXCEPT !.gc = TRUE], AfterGc>>
      /\ UNCHANGED <<file, ht, next, doubtful, cut, whole>>
  BY DEF GcForNewcell, Collect, Evaluating, stream, history
<1>2. calls \in Seq(Call) /\ whole \in BOOLEAN
  BY DEF IInv, Typing
<1>3. /\ k \in DOMAIN calls /\ k \in Nat /\ DOMAIN calls = 1..k
      /\ c = calls[k] /\ c \in Printing
      /\ Outer \in Seq(Call) /\ Len(Outer) = k - 1
      /\ \A i \in 1..(k - 1) : Outer[i] = calls[i]
  BY <1>1, <1>2, InnermostIs
<1> HIDE DEF c, k
<1>4. PICK d : d = [c EXCEPT !.gc = TRUE]
  OBVIOUS
<1>5. /\ d \in Printing /\ d.at = c.at /\ d.sym = c.sym /\ d.index = c.index /\ d.l = c.l
      /\ d \in Call /\ AfterGc \in Call
  BY <1>3, <1>4 DEF Printing, Call
<1>6. /\ calls' \in Seq(Call) /\ DOMAIN calls' = 1..(k + 1) /\ calls'[k] = d
      /\ calls'[k + 1] = AfterGc /\ \A i \in 1..(k - 1) : calls'[i] = calls[i]
  <2>1. calls' = Outer \o <<d, AfterGc>>
    BY <1>1, <1>4
  <2>2. Len(Outer) + 1 = k /\ Len(Outer) + 2 = k + 1
    BY <1>3
  <2>3. \A x, y \in Call :
           /\ Outer \o <<x, y>> \in Seq(Call)
           /\ DOMAIN (Outer \o <<x, y>>) = 1..(Len(Outer) + 2)
           /\ \A i \in 1..Len(Outer) : (Outer \o <<x, y>>)[i] = Outer[i]
           /\ (Outer \o <<x, y>>)[Len(Outer) + 1] = x /\ (Outer \o <<x, y>>)[Len(Outer) + 2] = y
    BY <1>3, TwoCalls
  <2>4. /\ calls' \in Seq(Call) /\ DOMAIN calls' = 1..(Len(Outer) + 2)
        /\ \A i \in 1..Len(Outer) : calls'[i] = Outer[i]
        /\ calls'[Len(Outer) + 1] = d /\ calls'[Len(Outer) + 2] = AfterGc
    BY <1>5, <2>1, <2>3
  <2> QED BY <1>3, <2>2, <2>4
<1>7. \A i \in DOMAIN calls : i \in DOMAIN calls' /\ Same(calls[i], calls'[i])
                              /\ (calls[i] \in Printing => calls'[i] \in Printing)
  <2>1. Same(c, d)
    BY <1>3, <1>5 DEF Same
  <2>2. \A i \in 1..(k - 1) : Same(calls[i], calls'[i])
    BY <1>6 DEF Same
  <2>3. \A i \in DOMAIN calls : i = k \/ i \in 1..(k - 1)
    BY <1>3
  <2>4. k \in DOMAIN calls' /\ \A i \in 1..(k - 1) : i \in DOMAIN calls'
    BY <1>3, <1>6
  <2> QED BY <1>3, <1>5, <1>6, <2>1, <2>2, <2>3, <2>4
<1>8. \A i \in DOMAIN calls' : calls'[i] \in Printing => i \in DOMAIN calls
  <2>1. \A i \in DOMAIN calls' : i = k + 1 \/ i \in DOMAIN calls
    BY <1>3, <1>6
  <2> QED BY <1>6, <2>1, Kinds
<1>9. \A e : (\E j \in DOMAIN ht' : e = ht'[j]) => Named(e)
  BY <1>1 DEF IInv, TableNamed
<1>10. ht' \in Seq(Entries)
  BY <1>1 DEF IInv, Typing
<1> QED BY <1>1, <1>2, <1>6, <1>7, <1>8, <1>9, <1>10, SameCalls

(* Calls that are left, their names with them. *)
LEMMA LeftKeeps ==
    ASSUME IInv, NEW n \in 0..Len(calls), calls' = SubSeq(calls, 1, n),
           UNCHANGED <<file, ht, next, doubtful>>, cut \subseteq cut',
           whole' => whole, whole' \in BOOLEAN,
           \A i \in DOMAIN calls : (calls[i] \in Printing /\ calls[i].at = "plus" /\ i > n) =>
              calls[i].sym \in cut'
    PROVE  IInv'
<1>1. calls \in Seq(Call) /\ Len(calls) \in Nat /\ DOMAIN calls = 1..Len(calls)
  BY DEF IInv, Typing
<1>2. /\ calls' \in Seq(Call) /\ DOMAIN calls' = 1..n
      /\ \A i \in 1..n : calls'[i] = calls[i] /\ i \in DOMAIN calls
  BY <1>1, Prefix
<1>3. \A i \in 1..n : Same(calls[i], calls'[i])
  BY <1>2 DEF Same
<1>4. ASSUME NEW i \in DOMAIN calls, calls[i] \in Printing, calls[i].at = "plus"
      PROVE  \/ calls[i].sym \in cut'
             \/ i \in DOMAIN calls' /\ calls'[i] \in Printing /\ Same(calls[i], calls'[i])
  <2>1. i > n \/ i \in 1..n
    BY <1>1
  <2> QED BY <1>2, <1>3, <1>4, <2>1
<1>5. \A e : (\E j \in DOMAIN ht' : e = ht'[j]) => Named(e)
  BY DEF IInv, TableNamed
<1>6. ht' \in Seq(Entries)
  BY DEF IInv, Typing
<1> QED BY <1>2, <1>3, <1>4, <1>5, <1>6, SameCalls

LEMMA FormEndsKeeps == IInv /\ FormEndsHere => IInv'
<1> SUFFICES ASSUME IInv, FormEndsHere PROVE IInv'
  OBVIOUS
<1>1. /\ calls # <<>> /\ Innermost = AfterGc /\ calls' = SubSeq(calls, 1, Len(calls) - 1)
      /\ UNCHANGED <<file, ht, next, doubtful, cut, whole>>
  BY DEF FormEndsHere, FormEnds, Finish, Outer, stream, history
<1>2. calls \in Seq(Call) /\ whole \in BOOLEAN
  BY DEF IInv, Typing
<1>3. Len(calls) - 1 \in 0..Len(calls) /\ calls[Len(calls)] = AfterGc
  BY <1>1, <1>2 DEF Innermost
<1>4. \A i \in DOMAIN calls : i > Len(calls) - 1 => calls[i] \notin Printing
  <2>1. \A i \in DOMAIN calls : i > Len(calls) - 1 => i = Len(calls)
    BY <1>2
  <2> QED BY <1>3, <2>1, Kinds
<1> QED BY <1>1, <1>2, <1>3, <1>4, LeftKeeps

LEMMA LeaveKeeps == IInv /\ Leave => IInv'
<1> SUFFICES ASSUME IInv, Leave PROVE IInv'
  OBVIOUS
<1> DEFINE left == {calls[i] : i \in {j \in DOMAIN calls :
                        j > Len(calls') /\ calls[j].proc = "fast_print"}}
<1>1. /\ Unwind /\ cut' = cut \cup {c.sym : c \in {d \in left : d.at = "plus"}}
      /\ UNCHANGED <<file, ht, next, doubtful>>
  BY DEF Leave, stream
<1>2. calls \in Seq(Call)
  BY DEF IInv, Typing
<1>3. PICK n \in 0..Len(calls) : calls' = SubSeq(calls, 1, n)
  <2>1. CASE Fail
    <3>1. SubSeq(calls, 1, 0) = <<>> /\ 0 \in 0..Len(calls)
      BY <1>2
    <3> QED BY <2>1, <3>1 DEF Fail
  <2>2. CASE ThrowOut
    BY <1>2, <2>2 DEF ThrowOut
  <2> QED BY <1>1, <2>1, <2>2 DEF Unwind
<1>4. Len(calls') = n
  BY <1>2, <1>3, Prefix
<1>5. ASSUME NEW i \in DOMAIN calls, calls[i] \in Printing, calls[i].at = "plus", i > n
      PROVE  calls[i].sym \in cut'
  <2>1. calls[i] \in left
    BY <1>4, <1>5, Kinds
  <2> HIDE DEF left
  <2> QED BY <1>1, <1>5, <2>1
<1>6. cut \subseteq cut' /\ (whole' => whole) /\ whole' \in BOOLEAN
  <2>1. whole' = (whole /\ left = {})
    BY DEF Leave
  <2> HIDE DEF left
  <2> QED BY <1>1, <2>1
<1> QED BY <1>1, <1>3, <1>5, <1>6, LeftKeeps

LEMMA FastPrintKeeps ==
    ASSUME IInv, NEW obj \in Objects, FastPrint(obj)
    PROVE  IInv'
<1> DEFINE S == {doubtful} \cup {c.index : c \in Under}
<1>1. /\ UNCHANGED <<ht, next, cut>> /\ doubtful' = Least(S)
      /\ PrintOn(calls, obj, <<>>, Items[obj])
  BY DEF FastPrint
<1>2. /\ calls \in Seq(Call) /\ file \in Seq(Tokens) /\ ht \in Seq(Entries) /\ next \in Nat
      /\ doubtful \in Nat /\ Items[obj] \in Seq(Item) /\ <<>> \in Seq(Tokens)
  BY ItemsAre DEF IInv, Typing
<1>3. \A i \in DOMAIN calls : calls[i] \in Printing => calls[i].index \in S /\ calls[i].index \in Nat
  BY Kinds DEF Under
<1>4. S \in SUBSET Nat
  <2>1. \A c \in Under : c.index \in Nat
    <3>1. \A i \in DOMAIN calls : calls[i] \in Call
      BY <1>2
    <3> QED BY <3>1, Kinds DEF Under
  <2> QED BY <1>2, <2>1
<1>5. doubtful' \in S /\ \A i \in S : doubtful' <= i
  BY <1>1, <1>4, LeastIs
<1>6. /\ doubtful' \in Nat /\ doubtful' <= doubtful
      /\ \A i \in DOMAIN calls : calls[i] \in Printing => doubtful' <= calls[i].index
  BY <1>3, <1>4, <1>5
<1> HIDE DEF S
<1>8. /\ file' \in Seq(Tokens)
      /\ whole' \in BOOLEAN
      /\ whole' => whole /\ \A j \in DOMAIN calls : calls[j] \notin Printing
      /\ \A p \in DOMAIN file : p \in DOMAIN file' /\ file'[p] = file[p]
      /\ \A p \in DOMAIN file' :
            \/ p \in DOMAIN file
            \/ /\ p > Len(file) /\ file'[p].op # "FO_store"
               /\ file'[p].op = "FO_fetch" =>
                     \E j \in DOMAIN ht : /\ file'[p].sym = ht[j].sym
                                          /\ file'[p].index = ht[j].index
      /\ \/ calls' = <<>>
         \/ calls' = calls
         \/ \E c \in Printing : /\ c.at = "hset" /\ c.index = next' /\ c.l = ht
                                /\ calls' = Append(calls, c)
  <2>1. next' \in Nat /\ Len(file) + 0 = Len(file)
    BY <1>1, <1>2
  <2>2. PICK before \in Seq(Tokens) : before = <<>>
    BY <1>2
  <2>3. PICK items \in Seq(Item) : items = Items[obj]
    BY <1>2
  <2>4. PICK base \in Seq(Call) : base = calls
    BY <1>2
  <2>5. PrintOn(base, obj, before, items)
    BY <1>1, <2>2, <2>3, <2>4
  <2>6. /\ file' \in Seq(Tokens)
        /\ \A p \in DOMAIN file : p \in DOMAIN file' /\ file'[p] = file[p]
        /\ \A p \in DOMAIN file' :
              \/ p \in DOMAIN file
              \/ p - Len(file) \in DOMAIN before /\ file'[p] = before[p - Len(file)]
              \/ /\ p > Len(file) + Len(before) /\ file'[p].op # "FO_store"
                 /\ file'[p].op = "FO_fetch" =>
                       \E j \in DOMAIN ht : /\ file'[p].sym = ht[j].sym
                                            /\ file'[p].index = ht[j].index
        /\ whole' \in BOOLEAN
        /\ whole' => whole /\ \A j \in DOMAIN base : base[j] \notin Printing
        /\ \/ calls' = <<>>
           \/ calls' = base
           \/ \E c \in Printing : /\ c.at = "hset" /\ c.index = next' /\ c.l = ht
                                  /\ calls' = Append(base, c)
    BY <1>2, <2>1, <2>5, PrintsOn
  <2>7. DOMAIN before = {} /\ Len(before) = 0
    BY <2>2
  <2> QED BY <2>1, <2>4, <2>6, <2>7
<1>7. \A i \in DOMAIN calls : calls[i] \in Printing => ~whole' /\ doubtful' <= next
  <2> SUFFICES ASSUME NEW i \in DOMAIN calls, calls[i] \in Printing
               PROVE  ~whole' /\ doubtful' <= next
    OBVIOUS
  <2>1. calls[i].index = next \/ doubtful <= next
    BY DEF IInv, Alone, Unsure
  <2>2. ~whole'
    BY <1>8
  <2>3. doubtful' <= calls[i].index
    BY <1>6
  <2> QED BY <1>2, <1>6, <2>1, <2>2, <2>3
<1>9. /\ calls' \in Seq(Call)
      /\ \A i \in DOMAIN calls' : calls'[i] \in Printing =>
            \/ i \in DOMAIN calls /\ calls'[i] = calls[i]
            \/ /\ i \notin DOMAIN calls /\ calls'[i].index = next /\ calls'[i].l = ht
               /\ \A j \in DOMAIN calls' : j \in DOMAIN calls \/ j = i
               /\ \A j \in DOMAIN calls : calls'[j] = calls[j]
  <2>1. CASE calls' = calls
    BY <1>2, <2>1
  <2>0. CASE calls' = <<>>
    <3>1. calls' \in Seq(Call) /\ DOMAIN calls' = {}
      BY <2>0
    <3> QED BY <3>1
  <2>2. CASE \E c \in Printing : /\ c.at = "hset" /\ c.index = next' /\ c.l = ht
                                 /\ calls' = Append(calls, c)
    <3>1. PICK c \in Printing : c.index = next' /\ c.l = ht /\ calls' = Append(calls, c)
      BY <2>2
    <3>2. /\ calls' \in Seq(Call) /\ DOMAIN calls' = 1..(Len(calls) + 1)
          /\ \A i \in 1..Len(calls) : calls'[i] = calls[i]
          /\ calls'[Len(calls) + 1] = c
      BY <1>2, <3>1, OneCall DEF Call
    <3>3. DOMAIN calls = 1..Len(calls) /\ Len(calls) \in Nat
      BY <1>2
    <3> QED BY <1>1, <3>1, <3>2, <3>3
  <2> QED BY <1>8, <2>0, <2>1, <2>2
<1>10. Alone'
  <2> SUFFICES ASSUME NEW i \in DOMAIN calls', calls'[i] \in Printing
               PROVE  /\ ~Unsure(calls[i].index)' =>
                            /\ calls'[i].index = next'
                            /\ \A j \in DOMAIN calls' : calls'[j] \in Printing => j = i
                      /\ Unsure(calls[i].index)' => Unsure(next)'
    BY DEF Alone
  <2>1. CASE i \in DOMAIN calls /\ calls'[i] = calls[i]
    BY <1>1, <1>2, <1>3, <1>6, <1>7, <2>1 DEF Unsure
  <2>2. CASE /\ i \notin DOMAIN calls /\ calls'[i].index = next
             /\ \A j \in DOMAIN calls' : j \in DOMAIN calls \/ j = i
             /\ \A j \in DOMAIN calls : calls'[j] = calls[j]
    BY <1>1, <1>2, <1>6, <1>7, <2>2 DEF Unsure
  <2> QED BY <1>9, <2>1, <2>2
<1>11. Once'
  <2>1. \A p \in DOMAIN file' : file'[p].op = "FO_store" => p \in DOMAIN file
    BY <1>8
  <2>2. ASSUME NEW q \in DOMAIN file, file[q].op = "FO_store",
               whole' \/ file[q].index < doubtful'
        PROVE  ~Unsure(file[q].index) /\ file[q].index \in Nat
    <3>1. file[q].index \in Nat
      <4>1. file[q] \in Tokens
        BY <1>2
      <4> QED BY <2>2, <4>1, FetchIs
    <3> QED BY <1>2, <1>6, <1>8, <2>2, <3>1 DEF Unsure
  <2> SUFFICES ASSUME NEW q \in DOMAIN file', file'[q].op = "FO_store", ~Unsure(file[q].index)'
               PROVE  /\ file'[q].index < next'
                      /\ \A r \in DOMAIN file' :
                            (file'[r].op = "FO_store" /\ file'[r].index = file'[q].index) => r = q
    BY DEF Once
  <2>3. q \in DOMAIN file /\ file'[q] = file[q] /\ file[q].op = "FO_store"
    BY <1>8, <2>1
  <2>4. whole' \/ file[q].index < doubtful'
    <3>1. file[q].index \in Nat
      <4>1. file[q] \in Tokens
        BY <1>2, <2>3
      <4> QED BY <2>3, <4>1, FetchIs
    <3> QED BY <1>6, <2>3, <3>1 DEF Unsure
  <2>5. /\ file[q].index < next
        /\ \A r \in DOMAIN file :
              (file[r].op = "FO_store" /\ file[r].index = file[q].index) => r = q
    BY <2>2, <2>3, <2>4 DEF IInv, Once
  <2> QED BY <1>1, <1>8, <2>1, <2>3, <2>5
<1>12. PICK h \in Nat : h = Len(file)
  BY <1>2
<1>13. \A p \in DOMAIN file' : (p \notin DOMAIN file /\ file'[p].op = "FO_fetch") =>
          /\ h < p
          /\ \E j \in DOMAIN ht : file'[p].sym = ht[j].sym /\ file'[p].index = ht[j].index
  <2>1. DOMAIN file' = 1..Len(file')
    BY <1>8
  <2> QED BY <1>8, <1>12, <2>1
<1> QED BY <1>1, <1>2, <1>6, <1>8, <1>9, <1>10, <1>11, <1>13, Written

LEMMA StoreKeeps == IInv /\ Store => IInv'
<1> SUFFICES ASSUME IInv, Store PROVE IInv'
  OBVIOUS
<1> DEFINE c == Innermost
           k == Len(calls)
           store == [op |-> "FO_store", index |-> c.index]
           name == [op |-> "symbol", obj |-> c.sym]
<1>1. /\ c.proc = "fast_print" /\ c.at = "plus" /\ next' = c.index + 1
      /\ UNCHANGED <<ht, doubtful>>
      /\ \/ /\ PrintOn(Outer, c.obj, <<store, name>>, c.rest)
            /\ UNCHANGED cut
         \/ /\ file' = file \o <<store, LoneSymbol>> /\ calls' = <<>>
            /\ cut' = cut \cup {c.sym} /\ whole' = FALSE
  BY DEF Store, Allocates
<1>2. /\ calls \in Seq(Call) /\ file \in Seq(Tokens) /\ ht \in Seq(Entries) /\ next \in Nat
      /\ doubtful \in Nat /\ c # AfterGc /\ whole \in BOOLEAN
  BY <1>1 DEF IInv, Typing, AfterGc
<1>3. /\ k \in DOMAIN calls /\ k \in Nat /\ DOMAIN calls = 1..k
      /\ c = calls[k] /\ c \in Printing
      /\ Outer \in Seq(Call) /\ Len(Outer) = k - 1
      /\ \A i \in 1..(k - 1) : Outer[i] = calls[i]
  BY <1>2, InnermostIs
<1> HIDE DEF c, k
<1>4. /\ c.index \in Nat /\ c.sym \in Objects /\ c.obj \in Objects /\ c.rest \in Seq(Item)
      /\ next' \in Nat
  BY <1>1, <1>3, Kinds
<1>5. /\ store \in Tokens /\ store.op = "FO_store" /\ store.index = c.index
      /\ name \in Tokens /\ name.op = "symbol" /\ name = [op |-> "symbol", obj |-> c.sym]
  BY <1>4 DEF Tokens, StoreOp, Name
<1>6. /\ <<store, name>> \in Seq(Tokens) /\ Len(<<store, name>>) = 2
      /\ DOMAIN <<store, name>> = 1..2
      /\ <<store, name>>[1] = store /\ <<store, name>>[2] = name
  <2> HIDE DEF store, name
  <2> QED BY <1>5
<1> HIDE DEF store, name
(* The other calls have doubtful indices, this one the next or one as well. *)
<1>7. /\ ~Unsure(c.index) => /\ c.index = next
                               /\ \A i \in DOMAIN calls : calls[i] \in Printing => i = k
      /\ Unsure(c.index) => Unsure(next)
  BY <1>3 DEF IInv, Alone
<1>8. \A i \in DOMAIN calls : (calls[i] \in Printing /\ i # k) => Unsure(calls[i].index)
  <2>1. ASSUME NEW i \in DOMAIN calls, calls[i] \in Printing, ~Unsure(calls[i].index)
        PROVE  i = k
    BY <1>3, <2>1 DEF IInv, Alone
  <2>2. \A i \in DOMAIN calls : calls[i] \in Printing => calls[i].index \in Nat
    BY Kinds
  <2> QED BY <1>2, <2>1, <2>2
<1>9. /\ file' \in Seq(Tokens)
      /\ whole' \in BOOLEAN /\ (whole' => whole)
      /\ \A p \in DOMAIN file : p \in DOMAIN file' /\ file'[p] = file[p]
      /\ Len(file) + 1 \in DOMAIN file' /\ file'[Len(file) + 1] = store
      /\ \/ c.sym \in cut'
         \/ Len(file) + 2 \in DOMAIN file' /\ file'[Len(file) + 2] = name
      /\ \A p \in DOMAIN file' :
            \/ p \in DOMAIN file
            \/ p = Len(file) + 1
            \/ /\ p > Len(file) + 1 /\ file'[p].op # "FO_store"
               /\ file'[p].op = "FO_fetch" =>
                     \E j \in DOMAIN ht : /\ file'[p].sym = ht[j].sym
                                          /\ file'[p].index = ht[j].index
      /\ \/ calls' = <<>>
         \/ calls' = Outer
         \/ \E d \in Printing : /\ d.index = next' /\ d.l = ht /\ calls' = Append(Outer, d)
  <2>1. CASE PrintOn(Outer, c.obj, <<store, name>>, c.rest)
    <3>1. PICK before \in Seq(Tokens) : before = <<store, name>>
      BY <1>6
    <3>2. /\ Len(before) = 2 /\ DOMAIN before = 1..2 /\ before[1] = store /\ before[2] = name
          /\ PrintOn(Outer, c.obj, before, c.rest)
      BY <1>6, <2>1, <3>1
    <3>3. /\ file' \in Seq(Tokens)
          /\ whole' \in BOOLEAN /\ (whole' => whole)
          /\ \A p \in DOMAIN file : p \in DOMAIN file' /\ file'[p] = file[p]
          /\ \A i \in DOMAIN before : /\ Len(file) + i \in DOMAIN file'
                                      /\ file'[Len(file) + i] = before[i]
          /\ \A p \in DOMAIN file' :
                \/ p \in DOMAIN file
                \/ p - Len(file) \in DOMAIN before /\ file'[p] = before[p - Len(file)]
                \/ /\ p > Len(file) + Len(before) /\ file'[p].op # "FO_store"
                   /\ file'[p].op = "FO_fetch" =>
                         \E j \in DOMAIN ht : /\ file'[p].sym = ht[j].sym
                                              /\ file'[p].index = ht[j].index
          /\ \/ calls' = <<>>
             \/ calls' = Outer
             \/ \E d \in Printing : /\ d.at = "hset" /\ d.index = next' /\ d.l = ht
                                    /\ calls' = Append(Outer, d)
      BY <1>2, <1>3, <1>4, <3>2, PrintsOn
    <3>4. 1 \in DOMAIN before /\ 2 \in DOMAIN before /\ Len(file) \in Nat /\ DOMAIN file' = 1..Len(file')
      BY <1>2, <3>2, <3>3
    <3>5. ASSUME NEW p \in DOMAIN file'
          PROVE  \/ p \in DOMAIN file
                 \/ p = Len(file) + 1
                 \/ /\ p > Len(file) + 1 /\ file'[p].op # "FO_store"
                    /\ file'[p].op = "FO_fetch" =>
                          \E j \in DOMAIN ht : /\ file'[p].sym = ht[j].sym
                                               /\ file'[p].index = ht[j].index
      <4>1. CASE p - Len(file) \in DOMAIN before /\ file'[p] = before[p - Len(file)]
        <5>1. p = Len(file) + 1 \/ p = Len(file) + 2
          BY <3>2, <3>4, <4>1
        <5>2. p = Len(file) + 2 => file'[p] = name
          BY <3>2, <3>3, <3>4
        <5> QED BY <1>5, <3>4, <5>1, <5>2
      <4>2. p > Len(file) + Len(before) => p > Len(file) + 1
        BY <3>2, <3>4
      <4> QED BY <3>3, <4>1, <4>2
    <3>6. /\ Len(file) + 1 \in DOMAIN file' /\ file'[Len(file) + 1] = store
          /\ Len(file) + 2 \in DOMAIN file' /\ file'[Len(file) + 2] = name
      BY <3>2, <3>3, <3>4
    <3> QED BY <3>3, <3>5, <3>6
  <2>2. CASE /\ file' = file \o <<store, LoneSymbol>> /\ calls' = <<>>
             /\ cut' = cut \cup {c.sym} /\ whole' = FALSE
    <3>1. PICK lone \in Tokens : lone = LoneSymbol /\ lone.op = "tc_symbol"
      <4>1. LoneSymbol \in Tokens
        BY DEF Tokens
      <4>2. LoneSymbol.op = "tc_symbol"
        BY DEF LoneSymbol
      <4> QED BY <4>1, <4>2
    <3>2. PICK tail \in Seq(Tokens) : tail = <<store, lone>> /\ Len(tail) = 2
      <4>1. <<store, lone>> \in Seq(Tokens) /\ Len(<<store, lone>>) = 2
        BY <1>5
      <4> QED BY <4>1
    <3>0. /\ DOMAIN tail = 1..2 /\ tail[1] = store /\ tail[2] = lone
          /\ file' = file \o tail
      BY <2>2, <3>1, <3>2
    <3>3. /\ Len(file) \in Nat /\ DOMAIN file = 1..Len(file)
          /\ file' \in Seq(Tokens) /\ Len(file') = Len(file) + 2
          /\ \A p \in DOMAIN file : file'[p] = file[p]
          /\ \A i \in DOMAIN tail : file'[Len(file) + i] = tail[i]
      <4>1. file \o tail \in Seq(Tokens) /\ Len(file \o tail) = Len(file) + Len(tail)
        BY <1>2, Together
      <4>2. \A p \in DOMAIN file : (file \o tail)[p] = file[p]
        BY <1>2, Together
      <4>3. \A i \in DOMAIN tail : (file \o tail)[Len(file) + i] = tail[i]
        BY <1>2, Together
      <4> QED BY <1>2, <3>0, <3>2, <4>1, <4>2, <4>3
    <3>4. DOMAIN file' = 1..(Len(file) + 2)
      BY <3>3
    <3>5. /\ file'[Len(file) + 1] = store /\ file'[Len(file) + 2] = lone
          /\ Len(file) + 1 \in DOMAIN file'
      BY <3>0, <3>3, <3>4
    <3>6. \A p \in DOMAIN file' : p \in DOMAIN file \/ p = Len(file) + 1 \/ p = Len(file) + 2
      BY <3>3, <3>4
    <3>7. \A p \in DOMAIN file : p \in DOMAIN file'
      BY <3>3, <3>4
    <3>8. Len(file) + 2 > Len(file) + 1
      BY <3>3
    <3>9. c.sym \in cut'
      BY <2>2
    <3> QED BY <2>2, <3>1, <3>3, <3>5, <3>6, <3>7, <3>8, <3>9
  <2> QED BY <1>1, <2>1, <2>2
<1>10. /\ calls' \in Seq(Call)
       /\ \A i \in DOMAIN calls' : calls'[i] \in Printing =>
             \/ i \in DOMAIN calls /\ i # k /\ calls'[i] = calls[i]
             \/ /\ i = k /\ calls'[i].index = next' /\ calls'[i].l = ht
                /\ \A j \in DOMAIN calls' : j = i \/ (j \in DOMAIN calls /\ calls'[j] = calls[j])
  <2>1. CASE calls' = <<>>
    BY <2>1
  <2>2. CASE calls' = Outer
    <3>1. DOMAIN Outer = 1..(k - 1)
      BY <1>3
    <3>2. \A i \in 1..(k - 1) : i \in DOMAIN calls /\ i # k
      BY <1>3
    <3> QED BY <1>3, <2>2, <3>1, <3>2
  <2>3. CASE \E d \in Printing : d.index = next' /\ d.l = ht /\ calls' = Append(Outer, d)
    <3>1. PICK d \in Printing : d.index = next' /\ d.l = ht /\ calls' = Append(Outer, d)
      BY <2>3
    <3>2. /\ calls' \in Seq(Call) /\ DOMAIN calls' = 1..(Len(Outer) + 1)
          /\ \A i \in 1..Len(Outer) : calls'[i] = Outer[i]
          /\ calls'[Len(Outer) + 1] = d
      BY <1>3, <3>1, OneCall DEF Call
    <3>3. DOMAIN calls' = 1..k /\ calls'[k] = d /\ \A i \in 1..(k - 1) : calls'[i] = calls[i]
      BY <1>3, <3>2
    <3>4. \A i \in 1..k : i = k \/ (i \in 1..(k - 1) /\ i \in DOMAIN calls /\ i # k)
      BY <1>3
    <3>5. ASSUME NEW i \in DOMAIN calls', calls'[i] \in Printing
          PROVE  \/ i \in DOMAIN calls /\ i # k /\ calls'[i] = calls[i]
                 \/ /\ i = k /\ calls'[i].index = next' /\ calls'[i].l = ht
                    /\ \A j \in DOMAIN calls' : j = i \/ (j \in DOMAIN calls /\ calls'[j] = calls[j])
      <4>1. CASE i = k
        <5>1. calls'[i].index = next' /\ calls'[i].l = ht
          BY <3>1, <3>3, <4>1
        <5>2. \A j \in DOMAIN calls' : j = i \/ (j \in DOMAIN calls /\ calls'[j] = calls[j])
          BY <3>3, <3>4, <4>1
        <5> QED BY <4>1, <5>1, <5>2
      <4>2. CASE i # k
        BY <3>3, <3>4, <4>2
      <4> QED BY <4>1, <4>2
    <3> QED BY <3>2, <3>5
  <2> QED BY <1>9, <2>1, <2>2, <2>3
<1>11. Alone'
  <2> SUFFICES ASSUME NEW i \in DOMAIN calls', calls'[i] \in Printing
               PROVE  /\ ~Unsure(calls[i].index)' =>
                            /\ calls'[i].index = next'
                            /\ \A j \in DOMAIN calls' : calls'[j] \in Printing => j = i
                      /\ Unsure(calls[i].index)' => Unsure(next)'
    BY DEF Alone
  <2>1. CASE i \in DOMAIN calls /\ i # k /\ calls'[i] = calls[i]
    <3>1. Unsure(calls[i].index) /\ calls[i].index \in Nat
      BY <1>8, <2>1, Kinds
    <3>2. Unsure(c.index)
      BY <1>7, <2>1
    <3> QED BY <1>1, <1>2, <1>4, <1>9, <2>1, <3>1, <3>2 DEF Unsure
  <2>2. CASE /\ i = k /\ calls'[i].index = next'
             /\ \A j \in DOMAIN calls' : j = i \/ (j \in DOMAIN calls /\ calls'[j] = calls[j])
    <3>1. ~Unsure(next)' => ~Unsure(c.index)
      BY <1>1, <1>2, <1>4, <1>9 DEF Unsure
    <3>2. calls'[i].index = next'
      BY <2>2
    <3>3. Unsure(calls[i].index)' <=> Unsure(next)'
      BY <3>2 DEF Unsure
    <3> QED BY <1>7, <2>2, <3>1, <3>2, <3>3
  <2> QED BY <1>10, <2>1, <2>2
<1>12. Once'
  <2>1. \A p \in DOMAIN file' : file'[p].op = "FO_store" => p \in DOMAIN file \/ p = Len(file) + 1
    BY <1>9
  <2>2. ASSUME NEW q \in DOMAIN file, file[q].op = "FO_store", ~Unsure(file[q].index)
        PROVE  /\ file[q].index < next' /\ file[q].index # c.index
               /\ \A r \in DOMAIN file :
                     file[r].op = "FO_store" /\ file[r].index = file[q].index => r = q
    <3>1. file[q].index \in Nat
      <4>1. file[q] \in Tokens
        BY <1>2
      <4> QED BY <2>2, <4>1, FetchIs
    <3>2. /\ file[q].index < next
          /\ \A r \in DOMAIN file :
                file[r].op = "FO_store" /\ file[r].index = file[q].index => r = q
      BY <2>2 DEF IInv, Once
    <3>3. CASE ~Unsure(c.index)
      BY <1>1, <1>2, <1>7, <3>1, <3>2, <3>3
    <3>4. CASE Unsure(c.index)
      BY <1>1, <1>2, <1>4, <2>2, <3>1, <3>2, <3>4 DEF Unsure
    <3> QED BY <1>2, <1>4, <3>3, <3>4
  <2>3. Len(file) + 1 \notin DOMAIN file
    BY <1>2
  <2>4. c.index < next'
    BY <1>1, <1>4
  <2> SUFFICES ASSUME NEW q \in DOMAIN file', file'[q].op = "FO_store", ~Unsure(file[q].index)'
               PROVE  /\ file'[q].index < next'
                      /\ \A r \in DOMAIN file' :
                            (file'[r].op = "FO_store" /\ file'[r].index = file'[q].index) => r = q
    BY DEF Once
  <2>0. \A i : i = file'[q].index => ~Unsure(i)
    BY <1>1, <1>9 DEF Unsure
  <2>5. CASE q \in DOMAIN file
    BY <1>5, <1>9, <2>0, <2>1, <2>2, <2>5
  <2>6. CASE q = Len(file) + 1
    <3>1. file'[q].index = c.index
      BY <1>5, <1>9, <2>6
    <3>2. ASSUME NEW r \in DOMAIN file', file'[r].op = "FO_store", file'[r].index = c.index
          PROVE  r = q
      <4>1. CASE r \in DOMAIN file
        <5>1. /\ file[r].op = "FO_store" /\ file[r].index = c.index /\ ~Unsure(file[r].index)
          BY <1>9, <2>0, <3>1, <3>2, <4>1
        <5> QED BY <2>2, <4>1, <5>1
      <4> QED BY <2>1, <2>6, <3>2, <4>1
    <3> QED BY <2>4, <3>1, <3>2
  <2> QED BY <2>1, <2>5, <2>6
<1>13. PICK h \in Nat : h = Len(file) + 1
  BY <1>2
<1>14. \A p \in DOMAIN file' : (p \notin DOMAIN file /\ file'[p].op = "FO_fetch") =>
          /\ h < p
          /\ \E j \in DOMAIN ht : file'[p].sym = ht[j].sym /\ file'[p].index = ht[j].index
  BY <1>5, <1>9, <1>13
<1>15. ASSUME NEW i \in DOMAIN calls, calls[i] \in Printing, calls[i].at = "plus"
       PROVE  \/ calls[i].sym \in cut' \/ (~whole' /\ doubtful' <= calls[i].index)
              \/ \E sym, index : /\ sym = calls[i].sym /\ index = calls[i].index
                                 /\ Names(h, sym, index)'
  <2>1. CASE i # k
    BY <1>1, <1>8, <1>9, <1>15, <2>1 DEF Unsure
  <2>2. CASE i = k /\ c.sym \in cut'
    BY <1>3, <2>2
  <2>3. CASE i = k /\ Len(file) + 2 \in DOMAIN file' /\ file'[Len(file) + 2] = name
    <3>1. PICK sym, index : sym = c.sym /\ index = c.index
      OBVIOUS
    <3>2. h \in DOMAIN file' /\ file'[h] = store /\ h + 1 = Len(file) + 2
      BY <1>2, <1>9, <1>13
    <3>3. Names(h, sym, index)'
      BY <1>5, <2>3, <3>1, <3>2 DEF Names
    <3> QED BY <1>3, <2>3, <3>1, <3>3
  <2> QED BY <1>9, <2>1, <2>2, <2>3
<1>16. cut \subseteq cut'
  BY <1>1
<1>17. \A i \in DOMAIN calls' : calls'[i] \in Printing =>
          \/ calls'[i].l = ht
          \/ \E j \in DOMAIN calls : calls[j] \in Printing /\ calls'[i].l = calls[j].l
  BY <1>10
<1>18. doubtful' \in Nat /\ doubtful' <= doubtful /\ ht' = ht
  BY <1>1, <1>2
<1>19. \A p \in DOMAIN file : p \in DOMAIN file' /\ file'[p] = file[p]
  BY <1>9
<1>20. file' \in Seq(Tokens) /\ calls' \in Seq(Call) /\ whole' \in BOOLEAN /\ (whole' => whole)
  BY <1>9, <1>10
<1> HIDE DEF c, k
<1> QED BY <1>4, <1>11, <1>12, <1>14, <1>15, <1>16, <1>17, <1>18, <1>19, <1>20, Written

LEMMA Keeps == IInv /\ [Next]_vars => IInv'
<1> SUFFICES ASSUME IInv, [Next]_vars PROVE IInv'
  OBVIOUS
<1>1. CASE \E obj \in Objects : FastPrint(obj)
  BY <1>1, FastPrintKeeps
<1>2. CASE Hset
  BY <1>2, HsetKeeps
<1>3. CASE Store
  BY <1>3, StoreKeeps
<1>4. CASE GcForNewcell
  BY <1>4, CollectKeeps
<1>5. CASE FormEndsHere
  BY <1>5, FormEndsKeeps
<1>6. CASE Leave
  BY <1>6, LeaveKeeps
<1>7. CASE UNCHANGED vars
  <2>1. UNCHANGED <<calls, file, ht, next, doubtful, cut, whole>>
    BY <1>7 DEF vars, stream, history
  <2>2. Typing'
    BY <2>1 DEF IInv, Typing
  <2>3. Alone' /\ Once'
    BY <2>1 DEF IInv, Alone, Once, Unsure
  <2>5. TableNamed' /\ ReadNamed'
    BY <2>1 DEF IInv, TableNamed, ReadNamed, Named, Excused, Awaited, Names, Unsure
  <2>6. Behind'
    BY <2>1 DEF IInv, Behind, Excused, Names, Unsure
  <2> QED BY <2>2, <2>3, <2>5, <2>6 DEF IInv
<1> QED BY <1>1, <1>2, <1>3, <1>4, <1>5, <1>6, <1>7 DEF Next

LEMMA Fetches ==
    ASSUME IInv, NEW p \in DOMAIN file, file[p].op = "FO_fetch", ~Excused(file[p])
    PROVE  Fetched(p) = [op |-> "symbol", obj |-> file[p].sym]
<1>1. file \in Seq(Tokens) /\ doubtful \in Nat /\ DOMAIN file = 1..Len(file) /\ Len(file) \in Nat
  BY DEF IInv, Typing
<1>2. file[p].index \in Nat
  <2>1. file[p] \in Tokens
    BY <1>1
  <2> QED BY <2>1, FetchIs
<1>3. PICK q \in DOMAIN file : q < p /\ Names(q, file[p].sym, file[p].index)
  BY DEF IInv, Behind
<1>4. /\ q + 1 \in DOMAIN file /\ file[q].op = "FO_store" /\ file[q].index = file[p].index
      /\ file[q + 1] = [op |-> "symbol", obj |-> file[p].sym]
  BY <1>3 DEF Names
<1> DEFINE stores == {r \in 1..(p - 1) : file[r].op = "FO_store" /\ file[r].index = file[p].index}
<1>5. stores = {q}
  <2>1. q \in stores
    BY <1>1, <1>3, <1>4
  <2>2. \A r \in stores : r \in DOMAIN file
    BY <1>1
  <2>3. \A r \in DOMAIN file : (file[r].op = "FO_store" /\ file[r].index = file[p].index) => r = q
    BY <1>4 DEF IInv, Once, Excused
  <2> QED BY <2>1, <2>2, <2>3
<1>6. (CHOOSE s \in stores : \A r \in stores : r <= s) = q
  <2>1. q <= q
    BY <1>1
  <2> HIDE DEF stores
  <2> QED BY <1>5, <2>1
<1>7. q < Len(file)
  BY <1>1, <1>4
<1>8. Fetched(p) = IF stores = {} THEN [op |-> "nil", obj |-> NIL]
                   ELSE LET s == CHOOSE s \in stores : \A r \in stores : r <= s
                        IN  IF s < Len(file) THEN file[s + 1] ELSE [op |-> "nil", obj |-> NIL]
  BY DEF Fetched
<1> HIDE DEF stores
<1> QED BY <1>4, <1>5, <1>6, <1>7, <1>8

LEMMA Meant == IInv => FetchesMeant
<1> SUFFICES ASSUME IInv, NEW p \in DOMAIN file, file[p].op = "FO_fetch",
                    InStep(p), file[p].sym \notin cut, file[p].index < doubtful
             PROVE  Fetched(p) = [op |-> "symbol", obj |-> file[p].sym]
  BY DEF FetchesMeant
<1>1. file \in Seq(Tokens) /\ doubtful \in Nat
  BY DEF IInv, Typing
<1>2. file[p].index \in Nat
  <2>1. file[p] \in Tokens
    BY <1>1
  <2> QED BY <2>1, FetchIs
<1> QED BY <1>1, <1>2, Fetches DEF Excused, Unsure

(* Every fetch that fast_read comes to in step stands for the symbol it    *)
(* was printed for, but for symbols that an error left without a name and  *)
(* for doubtful indices, whatever the after-gc form prints in the middle   *)
(* (fast_print_table), for objects that fast_print gets through.           *)
THEOREM FetchesStandForTheirSymbols == Spec => []FetchesMeant
<1>1. IInv /\ [Next]_vars => IInv'
  BY Keeps
<1> QED BY <1>1, InitKeeps, Meant, PTL DEF Spec

-----------------------------------------------------------------------------
(* fast_read at each place of the stream. *)

Reading(m) == [is : Seq(Tokens), end : 1..m]

Upto(read, p, head, n) ==
    LET upto[k \in 0..n] ==
          IF k = 0 THEN [is |-> <<>>, end |-> p + 1]
          ELSE LET e == read[upto[k - 1].end]
               IN  [is |-> upto[k - 1].is \o head \o e.is, end |-> e.end]
    IN  upto

Reads(read, m) == read \in [1..m -> Reading(m)] /\ \A q \in 1..m : read[q].end >= q

(* The elements of a list or an array, one behind the other. *)
Follows(u, read, p, head, n, m) ==
    /\ u \in [0..n -> Reading(m)]
    /\ \A k \in 0..n : u[k].end > p
    /\ u[0] = [is |-> <<>>, end |-> p + 1]
    /\ \A k \in 1..n : u[k] = [is |-> u[k - 1].is \o head \o read[u[k - 1].end].is,
                               end |-> read[u[k - 1].end].end]

UptoBody(read, u, p, head, k) ==
    IF k = 0 THEN [is |-> <<>>, end |-> p + 1]
    ELSE [is |-> u[k - 1].is \o head \o read[u[k - 1].end].is, end |-> read[u[k - 1].end].end]

LEMMA UptoAlike ==
    ASSUME NEW read, NEW p, NEW head, NEW u, NEW v, NEW k \in Nat,
           k # 0 => u[k - 1] = v[k - 1]
    PROVE  UptoBody(read, u, p, head, k) = UptoBody(read, v, p, head, k)
<1>1. CASE k = 0
  BY <1>1 DEF UptoBody
<1>2. CASE k # 0
  <2>1. PICK j \in Nat : j = k - 1
    BY <1>2
  <2>2. u[j] = v[j]
    BY <1>2, <2>1
  <2>3. \A w : UptoBody(read, w, p, head, k) =
                 [is |-> w[j].is \o head \o read[w[j].end].is, end |-> read[w[j].end].end]
    BY <1>2, <2>1 DEF UptoBody
  <2> QED BY <2>2, <2>3
<1> QED BY <1>1, <1>2

LEMMA UptoExists ==
    ASSUME NEW m \in Nat, NEW read, Reads(read, m), NEW p \in Nat, p + 1 \in 1..m,
           NEW head \in Seq(Tokens), NEW n \in Nat
    PROVE  \E u : Follows(u, read, p, head, n, m)
<1> DEFINE D == 0..n
           U == Reading(m)
           R == {r \in U : r.end > p}
           W == [D -> R]
           V == [d \in D |-> R]
           rank == [k \in D |-> k]
           F == [k \in D |-> [u \in W |-> UptoBody(read, u, p, head, k)]]
<1>1. \A u \in W : \A k \in D : UptoBody(read, u, p, head, k) \in R
  <2> SUFFICES ASSUME NEW u \in W, NEW k \in D PROVE UptoBody(read, u, p, head, k) \in R
    OBVIOUS
  <2>1. CASE k = 0
    <3>1. UptoBody(read, u, p, head, k) = [is |-> <<>>, end |-> p + 1]
      BY <2>1 DEF UptoBody
    <3> QED BY <3>1 DEF Reading
  <2>2. CASE k # 0
    <3>1. k - 1 \in D
      BY <2>2
    <3>2. PICK r \in R : r = u[k - 1]
      BY <3>1
    <3>3. r.is \in Seq(Tokens) /\ r.end \in 1..m /\ r.end > p
      BY DEF Reading
    <3>4. PICK e \in Reading(m) : e = read[r.end] /\ e.end >= r.end
      BY <3>3 DEF Reads
    <3>5. e.is \in Seq(Tokens) /\ e.end \in 1..m
      BY DEF Reading
    <3>6. r.is \o head \o e.is \in Seq(Tokens)
      BY <3>3, <3>5
    <3>7. UptoBody(read, u, p, head, k) = [is |-> r.is \o head \o e.is, end |-> e.end]
      BY <2>2, <3>2, <3>4 DEF UptoBody
    <3> QED BY SMTT(30), <3>3, <3>4, <3>5, <3>6, <3>7 DEF Reading
  <2> QED BY <2>1, <2>2
<1>2. \A u, v : \A k \in D : (\A j \in D : j < k => u[j] = v[j])
                   => UptoBody(read, u, p, head, k) = UptoBody(read, v, p, head, k)
  <2> SUFFICES ASSUME NEW u, NEW v, NEW k \in D, \A j \in D : j < k => u[j] = v[j]
               PROVE  UptoBody(read, u, p, head, k) = UptoBody(read, v, p, head, k)
    OBVIOUS
  <2>1. k \in Nat /\ (k # 0 => u[k - 1] = v[k - 1])
    <3>1. k # 0 => k - 1 \in D /\ k - 1 < k
      OBVIOUS
    <3> QED BY <3>1
  <2> HIDE DEF D
  <2> QED BY <2>1, UptoAlike
<1>3. \A u \in W : \A k \in D : F[k][u] = UptoBody(read, u, p, head, k)
  OBVIOUS
<1>4. /\ rank \in [D -> 0..n] /\ \A k \in D : rank[k] = k
      /\ n \in D /\ R \subseteq U /\ \A d \in D : V[d] = R
  OBVIOUS
<1>5. W = {g \in [D -> U] : \A d \in D : g[d] \in V[d]} /\ W # {}
  <2>1. [is |-> <<>>, end |-> p + 1] \in R
    BY DEF Reading
  <2>2. [d \in D |-> [is |-> <<>>, end |-> p + 1]] \in W
    BY <2>1
  <2>3. \A g : g \in W => g \in [D -> U] /\ \A d \in D : g[d] \in V[d]
    BY <1>4
  <2>4. \A g \in [D -> U] : (\A d \in D : g[d] \in V[d]) => g \in W
    BY <1>4
  <2> HIDE DEF W, V, U, R, D
  <2> QED BY <2>2, <2>3, <2>4
<1>6. \A u \in W : u \in [D -> R]
  OBVIOUS
<1>8. \A r \in R : r \in Reading(m) /\ r.end > p
  OBVIOUS
<1> HIDE DEF F, W, V, U, R, D, rank
<1>7. PICK u \in W : \A k \in D : u[k] = UptoBody(read, u, p, head, k)
  <2>1. \A k \in D : \A v \in W : F[k][v] \in U /\ F[k][v] \in V[k]
    <3> SUFFICES ASSUME NEW k \in D, NEW v \in W PROVE F[k][v] \in U /\ F[k][v] \in V[k]
      OBVIOUS
    <3>1. UptoBody(read, v, p, head, k) \in R
      BY <1>1
    <3>2. F[k][v] \in R
      BY <1>3, <3>1
    <3> QED BY <1>4, <3>2
  <2>2. \A k \in D : \A v, w \in W :
           (\A e \in D : rank[e] < rank[k] => v[e] = w[e]) => F[k][v] = F[k][w]
    <3> SUFFICES ASSUME NEW k \in D, NEW v \in W, NEW w \in W,
                        \A e \in D : rank[e] < rank[k] => v[e] = w[e]
                 PROVE  F[k][v] = F[k][w]
      OBVIOUS
    <3>1. \A e \in D : e < k => v[e] = w[e]
      BY <1>4
    <3>2. UptoBody(read, v, p, head, k) = UptoBody(read, w, p, head, k)
      BY <1>2, <3>1
    <3> QED BY <1>3, <3>2
  <2>3. Solvable(F, W, D, n, rank, U, V)
    BY <1>4, <1>5, <2>1, <2>2 DEF Solvable
  <2>4. \E v \in W : \A k \in D : v[k] = F[k][v]
    BY <2>3, Recursion
  <2> QED BY <1>3, <2>4
<1>9. u \in [0..n -> Reading(m)] /\ \A k \in 0..n : u[k].end > p
  BY <1>6, <1>7, <1>8 DEF D
<1>10. 0 \in 0..n /\ \A k \in 1..n : k \in 0..n /\ k # 0
  OBVIOUS
<1> QED BY <1>7, <1>9, <1>10 DEF D, Follows, UptoBody

LEMMA UptoIs ==
    ASSUME NEW m \in Nat, NEW read, Reads(read, m), NEW p \in Nat, p + 1 \in 1..m,
           NEW head \in Seq(Tokens), NEW n \in Nat,
           NEW other, \A q \in 1..m : q > p => other[q] = read[q]
    PROVE  /\ Follows(Upto(other, p, head, n), read, p, head, n, m)
           /\ \A u : Follows(u, read, p, head, n, m) => Upto(other, p, head, n) = u
<1>1. PICK v : Follows(v, read, p, head, n, m)
  BY UptoExists
<1>2. PICK f : f = Upto(other, p, head, n)
  OBVIOUS
<1>3. f = CHOOSE u : u = [k \in 0..n |-> UptoBody(other, u, p, head, k)]
  BY <1>2 DEF Upto, UptoBody
<1>4. \A k \in 0..n : v[k].end \in 1..m /\ v[k].end > p
  BY <1>1 DEF Follows, Reading
<1>5. \A k \in 1..n : k - 1 \in 0..n /\ k \in 0..n /\ k # 0
  OBVIOUS
<1>6. \A k \in 0..n : v[k] = UptoBody(other, v, p, head, k)
  <2> SUFFICES ASSUME NEW k \in 0..n PROVE v[k] = UptoBody(other, v, p, head, k)
    OBVIOUS
  <2>1. CASE k = 0
    BY <1>1, <2>1 DEF Follows, UptoBody
  <2>2. CASE k # 0
    <3>1. k \in 1..n
      BY <2>2
    <3>2. other[v[k - 1].end] = read[v[k - 1].end]
      BY <1>4, <1>5, <3>1
    <3> QED BY <1>1, <2>2, <3>1, <3>2 DEF Follows, UptoBody
  <2> QED BY <2>1, <2>2
<1>7. v = [k \in 0..n |-> UptoBody(other, v, p, head, k)]
  <2>1. v \in [0..n -> Reading(m)]
    BY <1>1 DEF Follows
  <2> QED BY <1>6, <2>1
<1>8. f = [k \in 0..n |-> UptoBody(other, f, p, head, k)]
  BY <1>3, <1>7
<1> DEFINE rank == [k \in 0..n |-> k]
<1>9. rank \in [0..n -> 0..n] /\ \A k \in 0..n : rank[k] = k
  OBVIOUS
<1> HIDE DEF rank
<1>10. ASSUME NEW w, \A k \in 0..n : w[k] = UptoBody(other, w, p, head, k)
       PROVE  \A k \in 0..n : w[k] = v[k]
  <2>1. PICK D : D = 0..n
    OBVIOUS
  <2>2. Settled(w, v, D, rank)
    <3> SUFFICES ASSUME NEW k \in 0..n, \A j \in 0..n : rank[j] < rank[k] => w[j] = v[j]
                 PROVE  w[k] = v[k]
      BY <2>1 DEF Settled
    <3>1. k \in Nat /\ (k # 0 => w[k - 1] = v[k - 1])
      <4>1. k # 0 => k - 1 \in 0..n /\ k - 1 < k
        OBVIOUS
      <4> QED BY <1>9, <4>1
    <3>2. UptoBody(other, w, p, head, k) = UptoBody(other, v, p, head, k)
      BY <3>1, UptoAlike
    <3> QED BY <1>6, <1>10, <3>2
  <2>3. rank \in [D -> 0..n]
    BY <1>9, <2>1
  <2>4. Ranking(rank, D, n)
    BY <2>3 DEF Ranking
  <2>5. SameOn(w, v, D)
    BY <2>2, <2>4, SameFunction
  <2> QED BY <2>1, <2>5 DEF SameOn
<1>11. f = v
  <2>1. \A k \in 0..n : f[k] = UptoBody(other, f, p, head, k)
    BY <1>8
  <2>2. \A k \in 0..n : f[k] = v[k]
    BY <1>10, <2>1
  <2>3. v \in [0..n -> Reading(m)]
    BY <1>1 DEF Follows
  <2> QED BY <1>8, <2>2, <2>3
<1>12. ASSUME NEW u, Follows(u, read, p, head, n, m) PROVE u = v
  <2>1. \A k \in 0..n : u[k].end \in 1..m /\ u[k].end > p
    BY <1>12 DEF Follows, Reading
  <2>2. \A k \in 0..n : u[k] = UptoBody(other, u, p, head, k)
    <3> SUFFICES ASSUME NEW k \in 0..n PROVE u[k] = UptoBody(other, u, p, head, k)
      OBVIOUS
    <3>1. CASE k = 0
      BY <1>12, <3>1 DEF Follows, UptoBody
    <3>2. CASE k # 0
      <4>1. k \in 1..n
        BY <3>2
      <4>2. other[u[k - 1].end] = read[u[k - 1].end]
        BY <1>5, <2>1, <4>1
      <4> QED BY <1>12, <3>2, <4>1, <4>2 DEF Follows, UptoBody
    <3> QED BY <3>1, <3>2
  <2>3. \A k \in 0..n : u[k] = v[k]
    BY <1>10, <2>2
  <2>4. u \in [0..n -> Reading(m)] /\ v \in [0..n -> Reading(m)]
    BY <1>1, <1>12 DEF Follows
  <2> QED BY <2>3, <2>4
<1> QED BY <1>1, <1>2, <1>11, <1>12

ConsOp == [op |-> "cons", len |-> 1]
NilOp == [op |-> "nil", obj |-> NIL]

ReadBody(read, p) ==
    LET elements(head) == Upto(read, p, head, file[p].len)[file[p].len]
        conses == elements(<<ConsOp>>)
    IN  IF p > Len(file) THEN [is |-> <<>>, end |-> p]
        ELSE CASE file[p].op = "FO_list" -> [conses EXCEPT !.is = @ \o <<NilOp>>]
               [] file[p].op \in {"cons", "FO_listd"} ->
                    LET d == read[conses.end]
                    IN  [is |-> conses.is \o d.is, end |-> d.end]
               [] file[p].op = "lisp_array" -> [elements(<<>>) EXCEPT !.is = <<file[p]>> \o @]
               [] file[p].op = "FO_store" -> read[p + 1]
               [] file[p].op = "tc_symbol" -> [is |-> <<>>, end |-> Len(file) + 1]
               [] file[p].op = "FO_fetch" -> [is |-> <<Fetched(p)>>, end |-> p + 1]
               [] OTHER -> [is |-> <<file[p]>>, end |-> p + 1]

LEMMA LengthIs ==
    ASSUME NEW t \in Tokens, t.op \in {"cons", "FO_list", "FO_listd", "lisp_array"}
    PROVE  t.len \in Nat
<1>1. CASE t \in [op : {"cons", "FO_list", "FO_listd", "lisp_array"}, len : Nat]
  BY <1>1
<1>2. CASE t \in [op : Types \ {"cons", "lisp_array"}, obj : Objects]
  <2>1. t.op \in Types /\ t.op \notin {"cons", "lisp_array"}
    BY <1>2
  <2> QED BY <2>1, ObjectAssumption DEF Types
<1>3. CASE t \in StoreOp \cup FetchOp \cup Name \cup {LoneSymbol}
  BY <1>3 DEF StoreOp, FetchOp, Name, LoneSymbol
<1> QED BY <1>1, <1>2, <1>3 DEF Tokens, Item

LEMMA Ops ==
    /\ ConsOp \in Tokens /\ NilOp \in Tokens
    /\ <<ConsOp>> \in Seq(Tokens) /\ <<NilOp>> \in Seq(Tokens) /\ <<>> \in Seq(Tokens)
<1>1. NIL \in Objects /\ TypeOf(NIL) = "nil"
  BY DEF Objects, TypeOf
<1>2. "nil" \in Types
  BY <1>1 DEF Types
<1>3. NilOp \in Tokens
  BY <1>1, <1>2 DEF NilOp, Tokens, Item
<1>4. ConsOp \in Tokens
  BY DEF ConsOp, Tokens, Item
<1> QED BY <1>3, <1>4

LEMMA FetchedIs ==
    ASSUME file \in Seq(Tokens), NEW p \in DOMAIN file
    PROVE  Fetched(p) \in Tokens
<1> DEFINE stores == {q \in 1..(p - 1) : file[q].op = "FO_store" /\ file[q].index = file[p].index}
           q0 == CHOOSE q \in stores : \A r \in stores : r <= q
<1>1. Fetched(p) = IF stores = {} THEN [op |-> "nil", obj |-> NIL]
                   ELSE IF q0 < Len(file) THEN file[q0 + 1] ELSE [op |-> "nil", obj |-> NIL]
  BY DEF Fetched
<1>2. p \in 1..Len(file) /\ Len(file) \in Nat
  OBVIOUS
<1>3. ASSUME stores # {} PROVE q0 \in stores
  <2> DEFINE N == {Len(file) - q : q \in stores}
  <2>1. N \in SUBSET Nat /\ N # {}
    BY <1>2, <1>3
  <2>2. Least(N) \in N /\ \A j \in N : Least(N) <= j
    BY <2>1, LeastIs
  <2>3. PICK q \in stores : Least(N) = Len(file) - q
    BY <2>2
  <2>4. \A r \in stores : r <= q
    <3> SUFFICES ASSUME NEW r \in stores PROVE r <= q
      OBVIOUS
    <3>1. Len(file) - q <= Len(file) - r
      BY <2>2, <2>3
    <3>2. q \in Nat /\ r \in Nat
      OBVIOUS
    <3> QED BY <1>2, <3>1, <3>2
  <2> HIDE DEF stores, N
  <2> QED BY <2>4
<1>4. \A q \in stores : q \in Nat /\ q >= 1
  OBVIOUS
<1> HIDE DEF stores, q0
<1>5. CASE stores # {} /\ q0 < Len(file)
  <2>1. q0 + 1 \in DOMAIN file
    BY <1>2, <1>3, <1>4, <1>5
  <2>2. file[q0 + 1] \in Tokens
    BY <2>1
  <2> QED BY <1>1, <1>5, <2>2
<1>6. CASE ~(stores # {} /\ q0 < Len(file))
  BY <1>1, <1>6, Ops DEF NilOp
<1> QED BY <1>5, <1>6

LEMMA ReadingOf ==
    ASSUME NEW m \in Nat, NEW s \in Seq(Tokens), NEW e \in 1..m
    PROVE  /\ [is |-> s, end |-> e] \in Reading(m)
           /\ [is |-> s, end |-> e].is = s /\ [is |-> s, end |-> e].end = e
BY DEF Reading

LEMMA ReadingWith ==
    ASSUME NEW m \in Nat, NEW r \in Reading(m), NEW s
    PROVE  [r EXCEPT !.is = s] = [is |-> s, end |-> r.end]
BY DEF Reading

(* What fast_read does at p, of what it does further on. *)
LEMMA BodyIs ==
    ASSUME file \in Seq(Tokens), NEW m \in Nat, m = Len(file) + 1, NEW g, Reads(g, m),
           NEW p \in 1..m, NEW h, \A q \in 1..m : q > p => h[q] = g[q]
    PROVE  /\ ReadBody(h, p) = ReadBody(g, p)
           /\ ReadBody(g, p) \in Reading(m) /\ ReadBody(g, p).end >= p
<1>1. Len(file) \in Nat /\ DOMAIN file = 1..Len(file) /\ p \in Nat
  OBVIOUS
<1>2. CASE p > Len(file)
  BY <1>1, <1>2 DEF ReadBody, Reading
<1>3. CASE p <= Len(file)
  <2>1. p \in DOMAIN file /\ p + 1 \in 1..m /\ ~(p > Len(file))
    BY <1>1, <1>3
  <2>2. PICK t \in Tokens : t = file[p]
    BY <2>1
  <2>3. ASSUME t.op \in {"cons", "FO_list", "FO_listd", "lisp_array"}, NEW head \in Seq(Tokens)
        PROVE  /\ Upto(h, p, head, t.len)[t.len] = Upto(g, p, head, t.len)[t.len]
               /\ Upto(g, p, head, t.len)[t.len] \in Reading(m)
               /\ Upto(g, p, head, t.len)[t.len].end > p
    <3>1. PICK n \in Nat : n = t.len
      BY <2>3, LengthIs
    <3>2. /\ Follows(Upto(h, p, head, n), g, p, head, n, m)
          /\ Follows(Upto(g, p, head, n), g, p, head, n, m)
          /\ \A u : Follows(u, g, p, head, n, m) => Upto(h, p, head, n) = u
      BY <1>1, <2>1, UptoIs
    <3>3. Upto(h, p, head, n) = Upto(g, p, head, n) /\ n \in 0..n
      BY <3>2
    <3> QED BY <3>1, <3>2, <3>3 DEF Follows
  <2>4. CASE t.op = "lisp_array"
    <3>1. PICK r : r = Upto(g, p, <<>>, t.len)[t.len]
      OBVIOUS
    <3>2. r = Upto(h, p, <<>>, t.len)[t.len] /\ r \in Reading(m) /\ r.end > p
      BY <2>3, <2>4, <3>1, Ops
    <3>3. /\ ReadBody(h, p) = [r EXCEPT !.is = <<t>> \o @]
          /\ ReadBody(g, p) = [r EXCEPT !.is = <<t>> \o @]
      BY <2>1, <2>2, <2>4, <3>1, <3>2 DEF ReadBody
    <3>4. r.is \in Seq(Tokens) /\ r.end \in 1..m
      BY <3>2 DEF Reading
    <3>5. <<t>> \o r.is \in Seq(Tokens)
      BY <3>4
    <3>6. PICK s \in Seq(Tokens) : s = <<t>> \o r.is
      BY <3>5
    <3>7. [r EXCEPT !.is = <<t>> \o @] = [is |-> s, end |-> r.end]
      BY <3>2, <3>6, ReadingWith
    <3>8. r.end >= p
      BY <1>1, <3>2, <3>4
    <3>9. PICK e \in 1..m : e = r.end
      BY <3>4
    <3>10. PICK v : v = [is |-> s, end |-> e]
      OBVIOUS
    <3>11. v \in Reading(m) /\ v.end = e
      BY <3>10, ReadingOf
    <3> QED BY <3>3, <3>7, <3>8, <3>9, <3>10, <3>11
  <2>5. CASE t.op \in {"cons", "FO_list", "FO_listd"}
    <3>1. PICK r : r = Upto(g, p, <<ConsOp>>, t.len)[t.len]
      OBVIOUS
    <3>2. r = Upto(h, p, <<ConsOp>>, t.len)[t.len] /\ r \in Reading(m) /\ r.end > p
      BY <2>3, <2>5, <3>1, Ops
    <3>3. r.is \in Seq(Tokens) /\ r.end \in 1..m
      BY <3>2 DEF Reading
    <3>4. CASE t.op = "FO_list"
      <4>1. /\ ReadBody(h, p) = [r EXCEPT !.is = @ \o <<NilOp>>]
            /\ ReadBody(g, p) = [r EXCEPT !.is = @ \o <<NilOp>>]
        BY <2>1, <2>2, <3>1, <3>2, <3>4 DEF ReadBody
      <4>2. r.is \o <<NilOp>> \in Seq(Tokens)
        BY <3>3, Ops
      <4>3. PICK s \in Seq(Tokens) : s = r.is \o <<NilOp>>
        BY <4>2
      <4>4. [r EXCEPT !.is = @ \o <<NilOp>>] = [is |-> s, end |-> r.end]
        BY <3>2, <4>3, ReadingWith
      <4>5. r.end >= p
        BY <1>1, <3>2, <3>3
      <4>6. PICK e \in 1..m : e = r.end
        BY <3>3
      <4>7. PICK v : v = [is |-> s, end |-> e]
        OBVIOUS
      <4>8. v \in Reading(m) /\ v.end = e
        BY <4>7, ReadingOf
      <4> QED BY <4>1, <4>4, <4>5, <4>6, <4>7, <4>8
    <3>5. CASE t.op \in {"cons", "FO_listd"}
      <4>1. PICK d \in Reading(m) : d = g[r.end] /\ d = h[r.end] /\ d.end >= r.end
        BY <1>1, <3>2, <3>3 DEF Reads
      <4>2. /\ ReadBody(h, p) = [is |-> r.is \o d.is, end |-> d.end]
            /\ ReadBody(g, p) = [is |-> r.is \o d.is, end |-> d.end]
        BY <2>1, <2>2, <3>1, <3>2, <3>5, <4>1 DEF ReadBody
      <4>3. d.is \in Seq(Tokens) /\ d.end \in 1..m
        BY DEF Reading
      <4>4. r.is \o d.is \in Seq(Tokens)
        BY <3>3, <4>3
      <4>5. d.end >= p
        BY <1>1, <3>2, <3>3, <4>1, <4>3
      <4>9. PICK s \in Seq(Tokens) : s = r.is \o d.is
        BY <4>4
      <4>6. PICK e \in 1..m : e = d.end
        BY <4>3
      <4>7. PICK v : v = [is |-> s, end |-> e]
        OBVIOUS
      <4>8. v \in Reading(m) /\ v.end = e
        BY <4>7, ReadingOf
      <4> QED BY <4>2, <4>5, <4>6, <4>7, <4>8, <4>9
    <3> QED BY <2>5, <3>4, <3>5
  <2>6. CASE t.op = "FO_store"
    <3>1. h[p + 1] = g[p + 1] /\ g[p + 1] \in Reading(m) /\ g[p + 1].end >= p + 1
      BY <1>1, <2>1 DEF Reads
    <3>2. ReadBody(h, p) = h[p + 1] /\ ReadBody(g, p) = g[p + 1]
      BY <2>1, <2>2, <2>6 DEF ReadBody
    <3>3. g[p + 1].end \in Nat
      BY <3>1 DEF Reading
    <3> QED BY <1>1, <3>1, <3>2, <3>3
  <2>7. CASE t.op = "FO_fetch"
    <3>1. PICK s \in Tokens : s = Fetched(p)
      BY <2>1, FetchedIs
    <3>2. /\ ReadBody(h, p) = [is |-> <<s>>, end |-> p + 1]
          /\ ReadBody(g, p) = [is |-> <<s>>, end |-> p + 1]
      BY <2>1, <2>2, <2>7, <3>1 DEF ReadBody
    <3>3. <<s>> \in Seq(Tokens)
      OBVIOUS
    <3> QED BY <1>1, <2>1, <3>2, <3>3 DEF Reading
  <2>9. CASE t.op = "tc_symbol"
    <3>1. /\ ReadBody(h, p) = [is |-> <<>>, end |-> Len(file) + 1]
          /\ ReadBody(g, p) = [is |-> <<>>, end |-> Len(file) + 1]
      BY <2>1, <2>2, <2>9 DEF ReadBody
    <3>2. Len(file) + 1 \in 1..m /\ <<>> \in Seq(Tokens)
      BY <1>1, Ops
    <3>3. PICK v : v = [is |-> <<>>, end |-> Len(file) + 1]
      OBVIOUS
    <3>4. v \in Reading(m) /\ v.end = Len(file) + 1
      BY <3>2, <3>3, ReadingOf
    <3> QED BY <1>1, <1>3, <3>1, <3>3, <3>4
  <2>8. CASE t.op \notin {"cons", "FO_list", "FO_listd", "lisp_array", "FO_store", "FO_fetch",
                          "tc_symbol"}
    <3>1. /\ ReadBody(h, p) = [is |-> <<t>>, end |-> p + 1]
          /\ ReadBody(g, p) = [is |-> <<t>>, end |-> p + 1]
      BY <2>1, <2>2, <2>8 DEF ReadBody
    <3>2. <<t>> \in Seq(Tokens)
      OBVIOUS
    <3> QED BY <1>1, <2>1, <3>1, <3>2 DEF Reading
  <2> QED BY <2>4, <2>5, <2>6, <2>7, <2>8, <2>9
<1> QED BY <1>1, <1>2, <1>3

LEMMA FastReadIs ==
    ASSUME file \in Seq(Tokens), NEW m \in Nat, m = Len(file) + 1
    PROVE  Reads(FastRead, m) /\ \A p \in 1..m : FastRead[p] = ReadBody(FastRead, p)
<1> DEFINE D == 1..m
           U == Reading(m)
           V == [p \in D |-> {r \in U : r.end >= p}]
           W == {g \in [D -> U] : \A d \in D : g[d] \in V[d]}
           rank == [p \in D |-> m - p]
           F == [p \in D |-> [g \in W |-> ReadBody(g, p)]]
<1>0. FastRead = CHOOSE g : g = [p \in 1..(Len(file) + 1) |-> ReadBody(g, p)]
  BY DEF FastRead, ReadBody, Upto, ConsOp, NilOp
<1>1. Len(file) \in Nat
  OBVIOUS
<1>2. rank \in [D -> 0..m] /\ \A p, q \in D : rank[q] < rank[p] <=> q > p
  OBVIOUS
<1>3. \A g : g \in W <=> Reads(g, m)
  BY DEF Reads
<1>4. \A g \in W : \A p \in D : F[p][g] = ReadBody(g, p)
  OBVIOUS
<1>5. W # {}
  <2>1. \A p \in D : [is |-> <<>>, end |-> p] \in U /\ [is |-> <<>>, end |-> p].end >= p
    BY Ops DEF Reading
  <2>2. [p \in D |-> [is |-> <<>>, end |-> p]] \in W
    BY <2>1
  <2> QED BY <2>2
<1>6. \A p \in D : \A r : r \in V[p] <=> r \in U /\ r.end >= p
  OBVIOUS
<1>7. W = {g \in [D -> U] : \A d \in D : g[d] \in V[d]}
  OBVIOUS
<1>8. D = 1..m /\ U = Reading(m)
  OBVIOUS
<1> HIDE DEF D, U, V, W, rank, F
<1>9. PICK g : Reads(g, m) /\ \A p \in D : g[p] = ReadBody(g, p)
  <2>1. \A p \in D : \A h \in W : F[p][h] \in U /\ F[p][h] \in V[p]
    <3> SUFFICES ASSUME NEW p \in D, NEW h \in W PROVE F[p][h] \in U /\ F[p][h] \in V[p]
      OBVIOUS
    <3>1. ReadBody(h, p) \in Reading(m) /\ ReadBody(h, p).end >= p
      BY <1>3, <1>8, BodyIs
    <3> QED BY <1>4, <1>6, <1>8, <3>1
  <2>2. \A p \in D : \A h, k \in W :
           (\A q \in D : rank[q] < rank[p] => h[q] = k[q]) => F[p][h] = F[p][k]
    <3> SUFFICES ASSUME NEW p \in D, NEW h \in W, NEW k \in W,
                        \A q \in D : rank[q] < rank[p] => h[q] = k[q]
                 PROVE  F[p][h] = F[p][k]
      OBVIOUS
    <3>1. \A q \in 1..m : q > p => h[q] = k[q]
      BY <1>2, <1>8
    <3>2. ReadBody(h, p) = ReadBody(k, p)
      BY <1>3, <1>8, <3>1, BodyIs
    <3> QED BY <1>4, <3>2
  <2>3. Solvable(F, W, D, m, rank, U, V)
    BY <1>2, <1>5, <1>7, <2>1, <2>2 DEF Solvable
  <2>4. \E h \in W : \A p \in D : h[p] = F[p][h]
    BY <2>3, Recursion
  <2> QED BY <1>3, <1>4, <2>4
<1>10. FastRead = [p \in D |-> ReadBody(FastRead, p)]
  <2>1. g \in [D -> U]
    BY <1>8, <1>9 DEF Reads
  <2>2. g = [p \in D |-> ReadBody(g, p)]
    BY <1>9, <2>1
  <2> QED BY <1>0, <1>8, <2>2
<1>11. \A p \in D : FastRead[p] = g[p]
  <2>1. Settled(FastRead, g, D, rank)
    <3> SUFFICES ASSUME NEW p \in D, \A q \in D : rank[q] < rank[p] => FastRead[q] = g[q]
                 PROVE  FastRead[p] = g[p]
      BY DEF Settled
    <3>1. \A q \in 1..m : q > p => FastRead[q] = g[q]
      BY <1>2, <1>8
    <3>2. ReadBody(FastRead, p) = ReadBody(g, p)
      BY <1>8, <1>9, <3>1, BodyIs
    <3> QED BY <1>9, <1>10, <3>2
  <2>2. Ranking(rank, D, m)
    BY <1>2 DEF Ranking
  <2>3. SameOn(FastRead, g, D)
    BY <2>1, <2>2, SameFunction
  <2> QED BY <2>3 DEF SameOn
<1>12. FastRead = g
  <2>1. g \in [D -> U]
    BY <1>8, <1>9 DEF Reads
  <2> QED BY <1>10, <1>11, <2>1
<1> QED BY <1>8, <1>9, <1>12

-----------------------------------------------------------------------------
(* What stands for the items of an object is read as that object. *)

AllMeant == \A p \in DOMAIN file :
               file[p].op = "FO_fetch" => Fetched(p) = [op |-> "symbol", obj |-> file[p].sym]

Back(a, p, q) == p \in 1..(Len(file) + 1) /\ FastRead[p] = [is |-> Canon[a], end |-> q]
BackAt(a) == \A p, q \in Nat : Rendered(file, p, Items[a], q) => Back(a, p, q)

LEMMA SimpleBack ==
    ASSUME file \in Seq(Tokens), AllMeant, NEW a \in Objects, ~Compound(a)
    PROVE  BackAt(a)
<1> SUFFICES ASSUME NEW p \in Nat, NEW q \in Nat, Rendered(file, p, Items[a], q) PROVE Back(a, p, q)
  BY DEF BackAt
<1>1. PICK item : item = [op |-> TypeOf(a), obj |-> a]
  OBVIOUS
<1>2. Items[a] = <<item>> /\ Canon[a] = <<item>>
  BY <1>1, ItemsAre, CanonIs DEF ItemsBody, CanonBody, Compound
<1>3. Stands(file, p, item, q)
  BY <1>2, RenderedOne
<1>4. PICK m \in Nat : m = Len(file) + 1
  OBVIOUS
<1>5. /\ p \in 1..m /\ ~(p > Len(file)) /\ p \in DOMAIN file
      /\ FastRead[p] = ReadBody(FastRead, p)
      /\ p + 1 \in 1..m
      /\ \A r \in 1..m : FastRead[r] = ReadBody(FastRead, r)
  <2>1. p \in DOMAIN file /\ DOMAIN file = 1..Len(file) /\ Len(file) \in Nat
    BY <1>3 DEF Stands
  <2> QED BY <1>4, <2>1, FastReadIs
<1>6. /\ item.op \notin {"cons", "FO_list", "FO_listd", "lisp_array", "FO_store", "FO_fetch",
                         "tc_symbol"}
      /\ item.obj = a
  BY <1>1, ObjectAssumption DEF Compound
<1>7. ASSUME NEW r \in 1..m, r \in DOMAIN file, file[r] = item
      PROVE  FastRead[r] = [is |-> <<item>>, end |-> r + 1]
  <2>1. ~(r > Len(file))
    BY <1>7
  <2> QED BY <1>5, <1>6, <1>7, <2>1 DEF ReadBody
<1>8. CASE file[p] = item /\ q = p + 1
  BY <1>2, <1>4, <1>5, <1>7, <1>8 DEF Back
<1>9. CASE item.op = "symbol" /\ file[p].op = "FO_fetch" /\ file[p].sym = item.obj /\ q = p + 1
  <2>1. Fetched(p) = item
    BY <1>1, <1>5, <1>9 DEF AllMeant
  <2>2. FastRead[p] = [is |-> <<item>>, end |-> p + 1]
    BY <1>5, <1>9, <2>1 DEF ReadBody
  <2> QED BY <1>2, <1>4, <1>5, <1>9, <2>2 DEF Back
<1>10. CASE /\ item.op = "symbol" /\ file[p].op = "FO_store"
            /\ p + 1 \in DOMAIN file /\ file[p + 1] = item /\ q = p + 2
  <2>1. PICK r \in 1..m : r = p + 1 /\ r \in DOMAIN file /\ file[r] = item /\ q = r + 1
    BY <1>5, <1>10
  <2>2. FastRead[r] = [is |-> <<item>>, end |-> q]
    BY <1>7, <2>1
  <2>3. FastRead[p] = FastRead[r]
    BY <1>5, <1>10, <2>1 DEF ReadBody
  <2> QED BY <1>2, <1>4, <1>5, <2>2, <2>3 DEF Back
<1> QED BY <1>3, <1>8, <1>9, <1>10 DEF Stands

(* The first token of a list or an array, and its elements. *)
EachBack(at, e, p, q) ==
    /\ at \in [0..Len(e) -> Nat] /\ at[0] = p + 1 /\ at[Len(e)] = q
    /\ \A k \in 1..Len(e) : Back(e[k], at[k - 1], at[k])

LEMMA CompoundBack ==
    ASSUME file \in Seq(Tokens), NEW a \in Objects, Compound(a),
           NEW e \in Seq(Objects), e = Elements(a), \A k \in 1..Len(e) : BackAt(e[k]),
           NEW p \in Nat, NEW q \in Nat, Rendered(file, p, Items[a], q)
    PROVE  /\ p \in DOMAIN file /\ file[p] = Opcode(a)
           /\ \E at : EachBack(at, e, p, q)
<1>1. PICK s \in Seq(Item) : s = FlattenSeq(Each(Items, e))
  BY ItemsAre, EachIs
<1>2. PICK M \in Nat : \E rank \in [Objects -> 0..M] : Below(rank)
  BY Ranked
<1>3. PICK rank \in [Objects -> 0..M] : Below(rank)
  BY <1>2
<1>4. PICK o : o = Opcode(a)
  OBVIOUS
<1>5. o \in Item /\ o.op # "symbol"
  <2>1. o \in [op : {"cons", "FO_list", "FO_listd", "lisp_array"}, len : Nat]
    BY <1>3, <1>4, ElementsAre
  <2> QED BY <2>1 DEF Item
<1>6. Items[a] = <<o>> \o s
  BY <1>1, <1>4, ItemsAre DEF ItemsBody
<1>7. PICK t \in Seq(Item) : t = <<o>>
  <2>1. <<o>> \in Seq(Item)
    BY <1>5
  <2> QED BY <2>1
<1>8. PICK r \in Nat : Rendered(file, p, t, r) /\ Rendered(file, r, s, q)
  BY <1>6, <1>7, RenderedApart
<1>9. Stands(file, p, o, r)
  BY <1>7, <1>8, RenderedOne
<1>10. p \in DOMAIN file /\ file[p] = o /\ r = p + 1
  BY <1>5, <1>9 DEF Stands
<1>11. PICK at : EachRendered(file, at, Items, e, r, q)
  BY <1>1, <1>8, ItemsAre, RenderedEach
<1>12. ASSUME NEW k \in 1..Len(e) PROVE Back(e[k], at[k - 1], at[k])
  <2>1. at[k - 1] \in Nat /\ at[k] \in Nat
    <3>1. k - 1 \in 0..Len(e) /\ k \in 0..Len(e)
      OBVIOUS
    <3> QED BY <1>11, <3>1 DEF EachRendered
  <2>2. Rendered(file, at[k - 1], Items[e[k]], at[k]) /\ BackAt(e[k])
    BY <1>11 DEF EachRendered
  <2> QED BY <2>1, <2>2 DEF BackAt
<1>13. EachBack(at, e, p, q)
  BY <1>10, <1>11, <1>12 DEF EachRendered, EachBack
<1> QED BY <1>4, <1>10, <1>13

(* What Upto gathers, from one element to the next. *)
ReadAt(at, e, p, n) ==
    /\ at[0] = p + 1
    /\ \A k \in 1..n : FastRead[at[k - 1]] = [is |-> Canon[e[k]], end |-> at[k]]
Gathered(u, at, e, head, n) ==
    /\ \A k \in 0..n : u[k].end = at[k]
    /\ \A k \in 1..n : u[k].is = u[k - 1].is \o head \o Canon[e[k]]

LEMMA ElementsRead ==
    ASSUME NEW m \in Nat, NEW p, NEW head, NEW n \in Nat, NEW u,
           Follows(u, FastRead, p, head, n, m),
           NEW e, NEW at, ReadAt(at, e, p, n)
    PROVE  Gathered(u, at, e, head, n)
<1> DEFINE S == {k \in Nat : u[k].end = at[k]}
<1>0. \A k \in 1..n : u[k] = [is |-> u[k - 1].is \o head \o FastRead[u[k - 1].end].is,
                              end |-> FastRead[u[k - 1].end].end]
  BY DEF Follows
<1>1. 0 \in S
  BY DEF Follows, ReadAt
<1>2. ASSUME NEW k \in Nat, k < n, k \in S PROVE k + 1 \in S
  <2>1. PICK j \in 1..n : j = k + 1 /\ j - 1 = k
    BY <1>2
  <2>2. u[j] = [is |-> u[j - 1].is \o head \o FastRead[u[j - 1].end].is,
                end |-> FastRead[u[j - 1].end].end]
    BY <1>0
  <2>3. FastRead[at[j - 1]] = [is |-> Canon[e[j]], end |-> at[j]]
    BY DEF ReadAt
  <2>4. u[j - 1].end = at[j - 1]
    BY <1>2, <2>1
  <2>5. FastRead[u[j - 1].end].end = at[j]
    BY <2>3, <2>4
  <2>6. u[j].end = at[j]
    BY <2>2, <2>5
  <2> QED BY <2>1, <2>6
<1> HIDE DEF S
<1>3. \A k \in 0..n : k \in S
  BY <1>1, <1>2, UpwardsTo
<1>4. \A k \in 0..n : u[k].end = at[k]
  BY <1>3 DEF S
<1>5. ASSUME NEW k \in 1..n PROVE u[k].is = u[k - 1].is \o head \o Canon[e[k]]
  <2>1. u[k - 1].end = at[k - 1]
    BY <1>4
  <2>2. FastRead[at[k - 1]] = [is |-> Canon[e[k]], end |-> at[k]]
    BY DEF ReadAt
  <2>3. FastRead[u[k - 1].end].is = Canon[e[k]]
    BY <2>1, <2>2
  <2>4. u[k] = [is |-> u[k - 1].is \o head \o FastRead[u[k - 1].end].is,
                end |-> FastRead[u[k - 1].end].end]
    BY <1>0
  <2>5. PICK s : s = u[k - 1].is \o head \o Canon[e[k]]
    OBVIOUS
  <2>6. PICK f : f = FastRead[u[k - 1].end].end
    OBVIOUS
  <2>7. u[k] = [is |-> s, end |-> f]
    BY <2>3, <2>4, <2>5, <2>6
  <2>8. u[k].is = s
    BY <2>7
  <2> QED BY <2>5, <2>8
<1> QED BY <1>4, <1>5 DEF Gathered

EachAre(f, objs) ==
    /\ Each(f, objs) \in Seq(Seq(Tokens)) /\ Len(Each(f, objs)) = Len(objs)
    /\ \A k \in DOMAIN objs : Each(f, objs)[k] = f[objs[k]]

LEMMA CanonsAre == \A objs \in Seq(Objects) : EachAre(Canon, objs)
<1> SUFFICES ASSUME NEW objs \in Seq(Objects) PROVE EachAre(Canon, objs)
  OBVIOUS
<1>1. Canon \in [Objects -> Seq(Tokens)]
  BY CanonIs
<1>2. Each(Canon, objs) \in Seq(Seq(Tokens))
  BY <1>1, EachIs
<1>3. Len(Each(Canon, objs)) = Len(objs)
  BY <1>1, EachIs
<1>4. \A k \in DOMAIN objs : Each(Canon, objs)[k] = Canon[objs[k]]
  BY <1>1, EachIs
<1> QED BY <1>2, <1>3, <1>4 DEF EachAre

LEMMA ArrayBack ==
    ASSUME file \in Seq(Tokens), NEW a \in Objects, TypeOf(a) = "lisp_array",
           NEW e \in Seq(Objects), e = Elements(a), \A k \in 1..Len(e) : BackAt(e[k])
    PROVE  BackAt(a)
<1> SUFFICES ASSUME NEW p \in Nat, NEW q \in Nat, Rendered(file, p, Items[a], q) PROVE Back(a, p, q)
  BY DEF BackAt
<1>1. PICK n \in Nat : n = Len(e)
  OBVIOUS
<1>2. PICK m \in Nat : m = Len(file) + 1
  OBVIOUS
<1>3. Compound(a) /\ e = Object[a].data /\ Opcode(a) = ArrayOp(a) /\ ArrayOp(a) = [op |-> "lisp_array", len |-> n]
  BY <1>1 DEF Compound, Elements, Opcode, ArrayOp
<1>4. /\ p \in DOMAIN file /\ file[p] = ArrayOp(a)
      /\ \E at : EachBack(at, e, p, q)
  BY <1>3, CompoundBack
<1>5. PICK at \in [0..n -> Nat] : /\ at[0] = p + 1 /\ at[n] = q
                                  /\ \A k \in 1..n : Back(e[k], at[k - 1], at[k])
  BY <1>1, <1>4 DEF EachBack
<1>6. /\ p \in 1..m /\ p + 1 \in 1..m /\ ~(p > Len(file))
      /\ Reads(FastRead, m) /\ FastRead[p] = ReadBody(FastRead, p)
  <2>1. DOMAIN file = 1..Len(file) /\ Len(file) \in Nat
    OBVIOUS
  <2> QED BY <1>2, <1>4, <2>1, FastReadIs
<1>7. PICK u : u = Upto(FastRead, p, <<>>, n)
  OBVIOUS
<1>8. Follows(u, FastRead, p, <<>>, n, m)
  BY <1>6, <1>7, Ops, UptoIs
<1>9. /\ \A k \in 0..n : u[k].end = at[k]
      /\ \A k \in 1..n : u[k].is = u[k - 1].is \o <<>> \o Canon[e[k]]
  <2>1. ReadAt(at, e, p, n)
    BY <1>5 DEF Back, ReadAt
  <2>2. Gathered(u, at, e, <<>>, n)
    BY <1>8, <2>1, ElementsRead
  <2> QED BY <2>2 DEF Gathered
<1>10. u[n] = [is |-> u[n].is, end |-> q] /\ u[n].is \in Seq(Tokens)
  <2>1. u[n] \in Reading(m) /\ n \in 0..n
    BY <1>8 DEF Follows
  <2>2. u[n].end = q
    BY <1>5, <1>9, <2>1
  <2> QED BY <2>1, <2>2 DEF Reading
<1>11. FastRead[p] = [is |-> <<ArrayOp(a)>> \o u[n].is, end |-> q]
  <2>1. FastRead[p] = [u[n] EXCEPT !.is = <<ArrayOp(a)>> \o @]
    BY <1>3, <1>4, <1>6, <1>7 DEF ReadBody
  <2>2. PICK s : s = <<ArrayOp(a)>> \o u[n].is
    OBVIOUS
  <2>3. u[n] \in Reading(m) /\ u[n].end = q
    <3>1. n \in 0..n
      OBVIOUS
    <3> QED BY <1>5, <1>8, <1>9, <3>1 DEF Follows
  <2>4. [u[n] EXCEPT !.is = s] = [is |-> s, end |-> u[n].end]
    BY <2>3, ReadingWith
  <2> QED BY <2>1, <2>2, <2>3, <2>4
<1>12. PICK c : c = Each(Canon, e)
  OBVIOUS
<1>13. c \in Seq(Seq(Tokens)) /\ Len(c) = n /\ \A k \in 1..n : c[k] = Canon[e[k]] /\ c[k] \in Seq(Tokens)
  <2>1. /\ c \in Seq(Seq(Tokens)) /\ Len(c) = Len(e) /\ \A k \in DOMAIN e : c[k] = Canon[e[k]]
    BY <1>12, CanonsAre DEF EachAre
  <2>2. DOMAIN e = 1..n /\ \A k \in 1..n : e[k] \in Objects
    BY <1>1
  <2> QED BY <1>1, <2>1, <2>2, CanonIs
<1>14. \A k \in 0..n : u[k].is \in Seq(Tokens)
  BY <1>8 DEF Follows, Reading
<1>15. u[n].is = FlattenSeq(c)
  <2>1. CASE n = 0
    <3>1. FlattenSeq(c) = c
      BY <1>13, <2>1 DEF FlattenSeq
    <3>2. u[n].is = <<>>
      BY <1>8, <2>1 DEF Follows
    <3>3. c = <<>>
      BY <1>13, <2>1
    <3> QED BY <3>1, <3>2, <3>3
  <2>2. CASE n # 0
    <3>1. PICK f \in [1..n -> Seq(Tokens)] : Joined(f, c, n) /\ FlattenSeq(c) = f[n]
      <4>1. PICK j \in Nat \ {0} : j = n
        BY <2>2
      <4>2. PICK seqs \in Seq(Seq(Tokens)) : seqs = c /\ Len(seqs) = j
        BY <1>13, <4>1
      <4>3. \E f \in [1..j -> Seq(Tokens)] : Joined(f, seqs, j) /\ FlattenSeq(seqs) = f[j]
        BY <4>2, Flattened
      <4> QED BY <4>1, <4>2, <4>3
    <3> DEFINE S == {k \in Nat : k # 0 => u[k].is = f[k]}
    <3>2. 0 \in S
      OBVIOUS
    <3>3. ASSUME NEW k \in Nat, k < n, k \in S PROVE k + 1 \in S
      <4>1. PICK j \in 1..n : j = k + 1 /\ j - 1 = k /\ k \in 0..n
        BY <3>3
      <4>2. /\ u[j].is = u[k].is \o <<>> \o Canon[e[j]] /\ u[k].is \in Seq(Tokens)
            /\ Canon[e[j]] = c[j] /\ c[j] \in Seq(Tokens)
        BY <1>9, <1>13, <1>14, <4>1
      <4>3. u[j].is = u[k].is \o c[j]
        <5>1. u[k].is \o <<>> = u[k].is
          BY <4>2, ConcatEmptySeq
        <5> QED BY <4>2, <5>1
      <4>4. CASE k = 0
        <5>1. u[k].is = <<>> /\ f[j] = c[j]
          BY <1>8, <3>1, <4>1, <4>4 DEF Follows, Joined
        <5>2. <<>> \o c[j] = c[j]
          BY <4>2, ConcatEmptySeq
        <5> QED BY <4>1, <4>3, <5>1, <5>2
      <4>5. CASE k # 0
        <5>1. j # 1 /\ u[k].is = f[k]
          BY <3>3, <4>1, <4>5
        <5>2. f[j] = f[j - 1] \o c[j]
          BY <3>1, <5>1 DEF Joined
        <5>3. u[j].is = f[j]
          BY <4>1, <4>3, <5>1, <5>2
        <5> QED BY <4>1, <5>3
      <4> QED BY <4>4, <4>5
    <3> HIDE DEF S
    <3>4. \A k \in 0..n : k \in S
      BY <3>2, <3>3, UpwardsTo
    <3>5. n \in S
      BY <3>4
    <3> QED BY <2>2, <3>1, <3>5 DEF S
  <2> QED BY <2>1, <2>2
<1>16. Canon[a] = <<ArrayOp(a)>> \o FlattenSeq(c)
  BY <1>3, <1>12, CanonIs DEF CanonBody
<1> QED BY <1>2, <1>6, <1>11, <1>15, <1>16 DEF Back

LEMMA Associative ==
    \A s, t, u \in Seq(Tokens) : (s \o t) \o u = s \o (t \o u)
<1> SUFFICES ASSUME NEW s \in Seq(Tokens), NEW t \in Seq(Tokens), NEW u \in Seq(Tokens)
             PROVE  (s \o t) \o u = s \o (t \o u)
  OBVIOUS
<1>1. /\ s \o t \in Seq(Tokens) /\ Len(s \o t) = Len(s) + Len(t)
      /\ t \o u \in Seq(Tokens) /\ Len(t \o u) = Len(t) + Len(u)
  OBVIOUS
<1> QED BY ConcatAssociative

(* A list is what Upto gathers of its conses, and then what is behind them. *)
LEMMA ListCanon ==
    ASSUME NEW a \in Objects, TypeOf(a) = "cons", NEW n \in Nat, n = Len(Cars(a)),
           NEW v \in [0..n -> Seq(Tokens)], v[0] = <<>>,
           \A k \in 1..n : v[k] = v[k - 1] \o <<ConsOp>> \o Canon[Cars(a)[k]]
    PROVE  Canon[a] = v[n] \o Canon[AfterSpine(a)]
<1>1. PICK M \in Nat : \E rank \in [Objects -> 0..M] : Below(rank)
  BY Ranked
<1>2. PICK rank \in [Objects -> 0..M] : Below(rank)
  BY <1>1
<1>3. PICK s : s = Spine[a]
  OBVIOUS
<1>4. PICK c : c = Cars(a)
  OBVIOUS
<1>5. /\ s \in Seq(Objects) /\ Len(s) = n /\ n # 0 /\ s[1] = a
      /\ \A k \in 1..n : TypeOf(s[k]) = "cons" /\ s[k] \in Objects
      /\ \A k \in 1..(n - 1) : s[k + 1] = Object[s[k]].cdr
      /\ \A k \in 1..n : c[k] = Object[s[k]].car
      /\ AfterSpine(a) = Object[s[n]].cdr
  <2>1. Conses(a, s, rank)
    BY <1>2, <1>3, SpineOf
  <2>2. /\ Len(c) = Len(s) /\ \A k \in 1..Len(c) : c[k] = Object[s[k]].car
        /\ AfterSpine(a) = Object[s[Len(s)]].cdr
    BY <1>2, <1>3, <1>4, CarsAre
  <2>3. Len(s) = n
    BY <1>4, <2>2
  <2>4. /\ s \in Seq(Objects) /\ Len(s) # 0 /\ s[1] = a
        /\ \A k \in 1..Len(s) : TypeOf(s[k]) = "cons"
        /\ \A k \in 1..(Len(s) - 1) : s[k + 1] = Object[s[k]].cdr
    BY <2>1 DEF Conses
  <2>5. \A k \in 1..Len(s) : s[k] \in Objects
    BY <2>4
  <2> QED BY <2>2, <2>3, <2>4, <2>5
<1>6. ASSUME NEW b \in Objects, TypeOf(b) = "cons"
      PROVE  /\ Object[b].car \in Objects /\ Object[b].cdr \in Objects
             /\ Canon[Object[b].car] \in Seq(Tokens) /\ Canon[Object[b].cdr] \in Seq(Tokens)
             /\ Canon[b] = <<ConsOp>> \o Canon[Object[b].car] \o Canon[Object[b].cdr]
  <2>1. Object[b].car \in Objects /\ Object[b].cdr \in Objects
    BY <1>2, <1>6, ConsIs
  <2>2. Canon[b] = <<ConsOp>> \o Canon[Object[b].car] \o Canon[Object[b].cdr]
    BY <1>6, CanonIs DEF CanonBody, ConsOp
  <2> QED BY <2>1, <2>2, CanonIs
<1> DEFINE S == {k \in Nat : k # 0 => Canon[a] = v[k] \o Canon[Object[s[k]].cdr]}
<1>7. 0 \in S
  OBVIOUS
<1>8. ASSUME NEW k \in Nat, k < n, k \in S PROVE k + 1 \in S
  <2>1. PICK j \in 1..n : j = k + 1 /\ j - 1 = k /\ k \in 0..n
    BY <1>8
  <2>2. PICK b \in Objects : b = s[j] /\ TypeOf(b) = "cons" /\ c[j] = Object[b].car
    BY <1>5
  <2>3. PICK x \in Seq(Tokens) : x = Canon[c[j]]
    BY <1>6, <2>2
  <2>4. PICK y \in Seq(Tokens) : y = Canon[Object[b].cdr]
    BY <1>6, <2>2
  <2>5. PICK w \in Seq(Tokens) : w = <<ConsOp>>
    BY Ops
  <2>6. Canon[b] = w \o x \o y
    BY <1>6, <2>2, <2>3, <2>4, <2>5
  <2>7. PICK z \in Seq(Tokens) : z = v[k]
    BY <2>1
  <2>8. v[j] = z \o w \o x
    BY <1>4, <2>1, <2>3, <2>5, <2>7
  <2>9. (z \o w \o x) \o y = z \o (w \o x \o y)
    <3>1. PICK r \in Seq(Tokens) : r = w \o x
      <4>1. w \o x \in Seq(Tokens)
        OBVIOUS
      <4> QED BY <4>1
    <3>2. (z \o w) \o x = z \o (w \o x)
      BY Associative
    <3>3. (z \o r) \o y = z \o (r \o y)
      BY Associative
    <3> QED BY <3>1, <3>2, <3>3
  <2>10. Canon[a] = z \o Canon[b]
    <3>1. CASE k = 0
      <4>1. z = <<>> /\ b = a
        BY <1>5, <2>1, <2>2, <2>7, <3>1
      <4>2. <<>> \o Canon[a] = Canon[a]
        BY CanonIs, ConcatEmptySeq
      <4> QED BY <4>1, <4>2
    <3>2. CASE k # 0
      <4>1. k \in 1..(n - 1)
        BY <1>8, <3>2
      <4>2. b = Object[s[k]].cdr
        BY <1>5, <2>1, <2>2, <4>1
      <4> QED BY <1>8, <2>7, <3>2, <4>2
    <3> QED BY <3>1, <3>2
  <2>11. Canon[a] = v[j] \o Canon[Object[s[j]].cdr]
    BY <2>2, <2>4, <2>6, <2>8, <2>9, <2>10
  <2>12. Canon[a] = v[k + 1] \o Canon[Object[s[k + 1]].cdr] /\ k + 1 \in Nat
    BY SMTT(30), <2>1, <2>11
  <2> QED BY <2>12
<1> HIDE DEF S
<1>9. \A k \in 0..n : k \in S
  BY <1>7, <1>8, UpwardsTo
<1>10. n \in S /\ n # 0
  BY <1>5, <1>9
<1> QED BY <1>5, <1>10 DEF S

LEMMA ListBack ==
    ASSUME file \in Seq(Tokens), NEW a \in Objects, TypeOf(a) = "cons",
           NEW e \in Seq(Objects), e = Elements(a), \A k \in 1..Len(e) : BackAt(e[k])
    PROVE  BackAt(a)
<1> SUFFICES ASSUME NEW p \in Nat, NEW q \in Nat, Rendered(file, p, Items[a], q) PROVE Back(a, p, q)
  BY DEF BackAt
<1>1. PICK M \in Nat : \E rank \in [Objects -> 0..M] : Below(rank)
  BY Ranked
<1>2. PICK rank \in [Objects -> 0..M] : Below(rank)
  BY <1>1
<1>3. PICK c \in Seq(Objects) : c = Cars(a)
  BY <1>2, CarsAre
<1>4. PICK n \in Nat : n = Len(c)
  OBVIOUS
<1>5. PICK d \in Objects : d = AfterSpine(a)
  BY <1>2, CarsAre
<1>6. PICK m \in Nat : m = Len(file) + 1
  OBVIOUS
<1>7. PICK o : o = Opcode(a)
  OBVIOUS
<1>8. /\ Compound(a)
      /\ o.len = n
      /\ \/ o.op = "FO_list" /\ d = NIL /\ e = c
         \/ o.op \in {"cons", "FO_listd"} /\ e = Append(c, d)
  <2>1. o = ListOp(n, d)
    BY <1>3, <1>4, <1>5, <1>7 DEF Opcode
  <2>2. o.len = n /\ \/ o.op = "FO_list" /\ d = NIL
                     \/ o.op \in {"cons", "FO_listd"}
    BY <2>1 DEF ListOp
  <2>3. e = IF o.op = "FO_list" THEN c ELSE Append(c, d)
    BY <1>3, <1>5, <1>7 DEF Elements
  <2> QED BY <2>2, <2>3 DEF Compound
<1>9. /\ p \in DOMAIN file /\ file[p] = o
      /\ \E at : EachBack(at, e, p, q)
  BY <1>7, <1>8, CompoundBack
<1>10. PICK at : EachBack(at, e, p, q)
  BY <1>9
<1>11. /\ n \in 0..Len(e) /\ \A k \in 1..n : k \in 1..Len(e) /\ e[k] = c[k]
  <2>1. CASE e = c
    BY <1>4, <2>1
  <2>2. CASE e = Append(c, d)
    BY <1>4, <2>2
  <2> QED BY <1>8, <2>1, <2>2
<1>12. /\ p \in 1..m /\ p + 1 \in 1..m /\ ~(p > Len(file))
       /\ Reads(FastRead, m) /\ FastRead[p] = ReadBody(FastRead, p)
  <2>1. DOMAIN file = 1..Len(file) /\ Len(file) \in Nat
    OBVIOUS
  <2> QED BY <1>6, <1>9, <2>1, FastReadIs
<1>13. PICK u : u = Upto(FastRead, p, <<ConsOp>>, n)
  OBVIOUS
<1>14. Follows(u, FastRead, p, <<ConsOp>>, n, m)
  BY <1>12, <1>13, Ops, UptoIs
<1>15. Gathered(u, at, e, <<ConsOp>>, n)
  <2>1. ReadAt(at, e, p, n)
    BY <1>10, <1>11 DEF Back, ReadAt, EachBack
  <2> QED BY <1>14, <2>1, ElementsRead
<1>16. PICK r \in Reading(m) : r = u[n] /\ r.end = at[n]
  <2>1. n \in 0..n
    OBVIOUS
  <2> QED BY <1>14, <1>15, <2>1 DEF Follows, Gathered
<1>17. Canon[a] = r.is \o Canon[d]
  <2> DEFINE v == [k \in 0..n |-> u[k].is]
  <2>1. v \in [0..n -> Seq(Tokens)] /\ v[0] = <<>> /\ v[n] = r.is
    <3>1. \A k \in 0..n : u[k].is \in Seq(Tokens)
      BY <1>14 DEF Follows, Reading
    <3>2. u[0].is = <<>>
      BY <1>14 DEF Follows
    <3>3. 0 \in 0..n /\ n \in 0..n
      OBVIOUS
    <3> QED BY <1>16, <3>1, <3>2, <3>3
  <2>2. \A k \in 1..n : v[k] = v[k - 1] \o <<ConsOp>> \o Canon[Cars(a)[k]]
    <3> SUFFICES ASSUME NEW k \in 1..n PROVE v[k] = v[k - 1] \o <<ConsOp>> \o Canon[c[k]]
      BY <1>3
    <3>1. k \in 0..n /\ k - 1 \in 0..n
      OBVIOUS
    <3>2. v[k] = u[k].is /\ v[k - 1] = u[k - 1].is
      BY <3>1
    <3>3. u[k].is = u[k - 1].is \o <<ConsOp>> \o Canon[e[k]]
      BY <1>15 DEF Gathered
    <3>4. e[k] = c[k]
      BY <1>11
    <3> HIDE DEF v
    <3> QED BY <3>2, <3>3, <3>4
  <2>3. n = Len(Cars(a)) /\ d = AfterSpine(a)
    BY <1>3, <1>4, <1>5
  <2> HIDE DEF v
  <2>4. Canon[a] = v[n] \o Canon[AfterSpine(a)]
    BY <2>1, <2>2, <2>3, ListCanon
  <2> QED BY <2>1, <2>3, <2>4
<1>18. CASE o.op = "FO_list"
  <2>1. e = c /\ d = NIL
    BY <1>8, <1>18
  <2>2. at[n] = q
    BY <1>4, <1>10, <2>1 DEF EachBack
  <2>3. Canon[d] = <<NilOp>>
    <3>1. NIL \in Objects /\ TypeOf(NIL) = "nil"
      BY DEF Objects, TypeOf
    <3> QED BY <2>1, <3>1, CanonIs DEF CanonBody, NilOp
  <2>4. FastRead[p] = [r EXCEPT !.is = @ \o <<NilOp>>]
    BY <1>8, <1>9, <1>12, <1>13, <1>16, <1>18 DEF ReadBody
  <2>5. PICK s : s = r.is \o <<NilOp>>
    OBVIOUS
  <2>6. [r EXCEPT !.is = s] = [is |-> s, end |-> r.end]
    BY ReadingWith
  <2>7. FastRead[p] = [is |-> s, end |-> q]
    BY <1>16, <2>2, <2>4, <2>5, <2>6
  <2>8. Canon[a] = s
    BY <1>17, <2>3, <2>5
  <2> QED BY <1>6, <1>12, <2>7, <2>8 DEF Back
<1>19. CASE o.op \in {"cons", "FO_listd"}
  <2>1. e = Append(c, d)
    BY <1>8, <1>19
  <2>2. PICK j \in 1..Len(e) : j = Len(e) /\ j - 1 = n /\ e[j] = d
    BY <1>4, <2>1
  <2>3. Back(d, at[n], q)
    BY <1>10, <2>2 DEF EachBack
  <2>4. FastRead[r.end] = [is |-> Canon[d], end |-> q]
    BY <1>16, <2>3 DEF Back
  <2>5. FastRead[p] = [is |-> r.is \o FastRead[r.end].is, end |-> FastRead[r.end].end]
    BY <1>8, <1>9, <1>12, <1>13, <1>16, <1>19 DEF ReadBody
  <2>6. FastRead[r.end].is = Canon[d] /\ FastRead[r.end].end = q
    BY <2>4
  <2>7. FastRead[p] = [is |-> r.is \o Canon[d], end |-> q]
    BY <2>5, <2>6
  <2> QED BY <1>6, <1>12, <1>17, <2>7 DEF Back
<1> QED BY <1>8, <1>18, <1>19

LEMMA ReadsBack ==
    ASSUME file \in Seq(Tokens), AllMeant
    PROVE  \A a \in Objects : BackAt(a)
<1>1. PICK M \in Nat : \E rank \in [Objects -> 0..M] : Below(rank)
  BY Ranked
<1>2. PICK rank \in [Objects -> 0..M] : Below(rank)
  BY <1>1
<1> DEFINE S == {a \in Objects : BackAt(a)}
<1>3. ASSUME NEW a \in Objects, \A b \in Objects : rank[b] < rank[a] => b \in S PROVE a \in S
  <2>1. CASE ~Compound(a)
    BY <2>1, SimpleBack
  <2>2. CASE Compound(a)
    <3>1. PICK e \in Seq(Objects) : /\ e = Elements(a)
                                    /\ \A k \in DOMAIN e : rank[e[k]] < rank[a]
      BY <1>2, <2>2, ElementsAre
    <3>2. \A k \in 1..Len(e) : BackAt(e[k])
      <4>1. \A k \in 1..Len(e) : k \in DOMAIN e /\ e[k] \in Objects
        OBVIOUS
      <4> QED BY <1>3, <3>1, <4>1
    <3> HIDE DEF S
    <3>3. BackAt(a)
      BY <2>2, <3>1, <3>2, ArrayBack, ListBack DEF Compound
    <3> QED BY <3>3 DEF S
  <2> QED BY <2>1, <2>2
<1> HIDE DEF S
<1>4. Hereditary(S, Objects, rank)
  BY <1>3 DEF Hereditary
<1>5. Objects \subseteq S
  BY <1>2, <1>4, RankInduction
<1> QED BY <1>5 DEF S

-----------------------------------------------------------------------------
(* What stands for items in a stream does so in a longer one, and so do    *)
(* the tokens of fast_print_table.                                         *)

LEMMA RenderedMore ==
    ASSUME NEW tape, NEW more, \A p \in DOMAIN tape : p \in DOMAIN more /\ more[p] = tape[p],
           NEW p, NEW items, NEW q, Rendered(tape, p, items, q)
    PROVE  Rendered(more, p, items, q)
<1>1. PICK pos : Placed(tape, pos, p, items, q)
  BY DEF Rendered
<1>2. \A r, item, s : Stands(tape, r, item, s) => Stands(more, r, item, s)
  BY DEF Stands
<1>3. Placed(more, pos, p, items, q)
  BY <1>1, <1>2 DEF Placed
<1> QED BY <1>3 DEF Rendered

LEMMA TokenStands ==
    ASSUME NEW item \in Item, ~IsNew(item),
           NEW tape, NEW p \in DOMAIN tape, tape[p] = Token(item)
    PROVE  Stands(tape, p, item, p + 1)
<1>1. CASE item.op # "symbol"
  BY <1>1 DEF Stands, Token
<1>2. CASE item.op = "symbol"
  <2>1. Token(item).op = "FO_fetch" /\ Token(item).sym = item.obj
    BY <1>2 DEF Token
  <2> QED BY <1>2, <2>1 DEF Stands
<1> QED BY <1>1, <1>2

LEMMA RenderedInTurn ==
    ASSUME NEW tape, NEW items \in Seq(Item), NEW m \in Nat, m = Len(items), NEW p \in Nat,
           \A i \in 1..m : Stands(tape, p + i, items[i], p + i + 1)
    PROVE  Rendered(tape, p + 1, items, p + m + 1)
<1> DEFINE pos == [i \in 1..(m + 1) |-> p + i]
<1>1. pos \in [1..(m + 1) -> Nat] /\ \A i \in 1..(m + 1) : pos[i] = p + i
  OBVIOUS
<1> HIDE DEF pos
<1>2. pos[1] = p + 1 /\ pos[m + 1] = p + m + 1
  <2>1. 1 \in 1..(m + 1) /\ m + 1 \in 1..(m + 1) /\ p + (m + 1) = p + m + 1
    OBVIOUS
  <2> QED BY <1>1, <2>1
<1>3. ASSUME NEW i \in 1..m PROVE Stands(tape, pos[i], items[i], pos[i + 1])
  <2>1. i \in 1..(m + 1) /\ i + 1 \in 1..(m + 1) /\ p + (i + 1) = p + i + 1
    OBVIOUS
  <2>2. pos[i] = p + i /\ pos[i + 1] = p + i + 1
    BY <1>1, <2>1
  <2> QED BY <2>2
<1>4. Placed(tape, pos, p + 1, items, p + m + 1)
  BY <1>1, <1>2, <1>3 DEF Placed
<1> QED BY <1>4 DEF Rendered

(* The call c has done what stands from q on, and has a name to write. *)
Part(tape, q, c) ==
    \E done \in Seq(Item), name \in Item :
       /\ name = [op |-> "symbol", obj |-> c.sym]
       /\ Items[c.obj] = (done \o <<name>>) \o c.rest
       /\ Rendered(tape, q, done, Len(tape) + 1)

-----------------------------------------------------------------------------
(* What one run of fast_print adds to the stream stands for the items up   *)
(* to where it stops.                                                      *)

(* A sequence is what is before a place, what is there and what is behind. *)
LEMMA SplitAt ==
    ASSUME NEW items \in Seq(Item), NEW n \in 1..(Len(items) + 1)
    PROVE  \E head \in Seq(Item) :
              /\ Len(head) = n - 1 /\ \A i \in 1..(n - 1) : head[i] = items[i]
              /\ n \notin DOMAIN items => head = items
              /\ n \in DOMAIN items =>
                    /\ SubSeq(items, n + 1, Len(items)) \in Seq(Item)
                    /\ items = (head \o <<items[n]>>) \o SubSeq(items, n + 1, Len(items))
<1>1. PICK m \in Nat : m = Len(items)
  OBVIOUS
<1>2. n \in 1..(m + 1) /\ DOMAIN items = 1..m /\ \A i \in 1..m : items[i] \in Item
  BY <1>1
<1>3. PICK head : head = SubSeq(items, 1, n - 1)
  OBVIOUS
<1>4. /\ head \in Seq(Item) /\ Len(head) = n - 1
      /\ \A i \in 1..(n - 1) : head[i] = items[i]
  <2>1. 1..(n - 1) \subseteq 1..m /\ n - 1 \in Int
    BY <1>2
  <2>2. \A i \in 1..(n - 1) : items[i] \in Item
    BY <1>2, <2>1
  <2> QED BY <1>2, <1>3, <2>1, <2>2, SubSeqProperties
<1>5. ASSUME n \notin DOMAIN items PROVE head = items
  <2>1. n - 1 = m
    BY <1>2, <1>5
  <2> QED BY <1>1, <1>4, <2>1, SeqEqual
<1>6. ASSUME n \in DOMAIN items
      PROVE  /\ SubSeq(items, n + 1, Len(items)) \in Seq(Item)
             /\ items = (head \o <<items[n]>>) \o SubSeq(items, n + 1, Len(items))
  <2>1. /\ 1 \in 1..Len(items) /\ n \in 1..Len(items) /\ 1 \in 1..(Len(items) + 1)
        /\ n \in (1 - 1)..Len(items) /\ Len(items) \in n..Len(items)
    BY <1>2, <1>6
  <2>2. SubSeq(items, 1, n) = head \o <<items[n]>>
    BY <1>3, <2>1, SubSeqRecursiveSecond
  <2>3. SubSeq(items, 1, n) \o SubSeq(items, n + 1, Len(items)) = SubSeq(items, 1, Len(items))
    BY <2>1, ConcatAdjacentSubSeq
  <2>4. SubSeq(items, 1, Len(items)) = items
    BY SubSeqFull
  <2>5. SubSeq(items, n + 1, Len(items)) \in Seq(Item)
    <3>1. n + 1 \in Int /\ Len(items) \in Int /\ \A i \in (n + 1)..Len(items) : items[i] \in Item
      BY <2>1
    <3> QED BY <3>1, SubSeqProperties
  <2> QED BY <2>2, <2>3, <2>4, <2>5
<1> QED BY <1>4, <1>5, <1>6

Joins(s, t, u) == (s \o t) \o u = s \o (t \o u)

LEMMA JoinsAny == \A s, t, u \in Seq(Item) : Joins(s, t, u)
<1> SUFFICES ASSUME NEW s \in Seq(Item), NEW t \in Seq(Item), NEW u \in Seq(Item)
             PROVE  (s \o t) \o u = s \o (t \o u)
  BY DEF Joins
<1>1. /\ s \o t \in Seq(Item) /\ Len(s \o t) = Len(s) + Len(t)
      /\ t \o u \in Seq(Item) /\ Len(t \o u) = Len(t) + Len(u)
  OBVIOUS
<1> QED BY <1>1, ConcatAssociative

LEMMA PrintsAll ==
    ASSUME file \in Seq(Tokens), ht \in Seq(Entries), next' \in Nat,
           NEW base \in Seq(Call), NEW before \in Seq(Tokens), NEW obj \in Objects,
           NEW done \in Seq(Item), NEW items \in Seq(Item), Items[obj] = done \o items,
           NEW q \in Nat, Rendered(file \o before, q, done, Len(file \o before) + 1),
           PrintOn(base, obj, before, items), whole'
    PROVE  \/ /\ calls' = base /\ printed' = Append(printed, obj)
              /\ Rendered(file', q, Items[obj], Len(file') + 1)
           \/ /\ printed' = printed
              /\ \E c \in Printing : calls' = Append(base, c) /\ Part(file', q, c)
<1>1. PICK n : n = StopOf(items)
  OBVIOUS
<1>2. /\ n \in 1..(Len(items) + 1)
      /\ \A i \in 1..(n - 1) : i \in DOMAIN items /\ ~IsNew(items[i])
      /\ n \in DOMAIN items => IsNew(items[n]) \/ items[n].op = "closure"
  BY <1>1, StopIs
<1>3. DOMAIN items = 1..Len(items) /\ Len(items) \in Nat
  OBVIOUS
<1>4. PICK out : out = [i \in 1..(n - 1) |-> Token(items[i])]
  OBVIOUS
<1>5. PICK c : c = [proc |-> "fast_print", at |-> "hset", gc |-> FALSE,
                    obj |-> obj, sym |-> items[n].obj, index |-> next',
                    l |-> ht, rest |-> SubSeq(items, n + 1, Len(items))]
  OBVIOUS
<1>6. /\ file' = file \o before \o out
      /\ calls' = IF n > Len(items) THEN base
                  ELSE IF items[n].op = "closure" THEN <<>> ELSE Append(base, c)
      /\ n > Len(items) \/ items[n].op # "closure"
      /\ printed' = IF n > Len(items) THEN Append(printed, obj) ELSE printed
  <2>1. /\ file' = file \o before \o [i \in 1..(n - 1) |-> Token(items[i])]
        /\ calls' = IF n > Len(items) THEN base
                    ELSE IF ~(n > Len(items)) /\ items[n].op = "closure" THEN <<>>
                    ELSE Append(base, [proc |-> "fast_print", at |-> "hset", gc |-> FALSE,
                                       obj |-> obj, sym |-> items[n].obj, index |-> next',
                                       l |-> ht, rest |-> SubSeq(items, n + 1, Len(items))])
        /\ whole' = (whole /\ ~(~(n > Len(items)) /\ items[n].op = "closure")
                           /\ \A j \in DOMAIN base : base[j].proc # "fast_print")
        /\ printed' = IF ~whole' THEN <<>> ELSE IF n > Len(items) THEN Append(printed, obj)
                      ELSE printed
    BY <1>1 DEF PrintOn, StopOf
  <2> QED BY <1>4, <1>5, <2>1
<1>7. PICK g \in Seq(Tokens) : g = file \o before
  <2>1. file \o before \in Seq(Tokens)
    BY Together
  <2> QED BY <2>1
<1>8. PICK m \in Nat : m = n - 1
  BY <1>2
<1>9. /\ out \in Seq(Tokens) /\ Len(out) = m /\ DOMAIN out = 1..m
      /\ \A i \in 1..m : out[i] = Token(items[i])
  <2>1. \A i \in 1..m : items[i] \in Item /\ ~IsNew(items[i])
    <3> SUFFICES ASSUME NEW i \in 1..m PROVE items[i] \in Item /\ ~IsNew(items[i])
      OBVIOUS
    <3>1. i \in DOMAIN items /\ ~IsNew(items[i])
      BY <1>2, <1>8
    <3> QED BY <3>1
  <2>2. \A i \in 1..m : Token(items[i]) \in Tokens
    BY <2>1, TokenIs
  <2>3. out = [i \in 1..m |-> out[i]] /\ \A i \in 1..m : out[i] \in Tokens /\ out[i] = Token(items[i])
    BY <1>4, <1>8, <2>2
  <2> QED BY <2>3, Mapped
<1>10. /\ file' \in Seq(Tokens) /\ Len(file') = Len(g) + m
       /\ \A i \in DOMAIN g : i \in DOMAIN file' /\ file'[i] = g[i]
       /\ \A i \in 1..m : Len(g) + i \in DOMAIN file' /\ file'[Len(g) + i] = out[i]
  <2>1. file' = g \o out
    BY <1>6, <1>7
  <2>2. \A s, u \in Seq(Tokens) :
           /\ s \o u \in Seq(Tokens) /\ Len(s \o u) = Len(s) + Len(u)
           /\ \A i \in DOMAIN s : (s \o u)[i] = s[i]
           /\ \A k \in DOMAIN u : (s \o u)[Len(s) + k] = u[k]
    BY SMTT(30), Together
  <2>3. /\ g \o out \in Seq(Tokens) /\ Len(g \o out) = Len(g) + Len(out)
        /\ \A i \in DOMAIN g : (g \o out)[i] = g[i]
        /\ \A k \in DOMAIN out : (g \o out)[Len(g) + k] = out[k]
    BY <1>9, <2>2
  <2>4. /\ file' \in Seq(Tokens) /\ Len(file') = Len(g) + m
        /\ \A i \in DOMAIN g : file'[i] = g[i]
        /\ \A k \in 1..m : file'[Len(g) + k] = out[k]
    BY <1>9, <2>1, <2>3
  <2>5. DOMAIN file' = 1..(Len(g) + m) /\ DOMAIN g = 1..Len(g) /\ Len(g) \in Nat
    BY <2>4
  <2>6. \A i \in 1..Len(g) : i \in 1..(Len(g) + m)
    BY <2>5
  <2>7. \A i \in 1..m : Len(g) + i \in 1..(Len(g) + m)
    BY <2>5
  <2> QED BY <2>4, <2>5, <2>6, <2>7
<1>11. PICK head \in Seq(Item) :
          /\ Len(head) = m /\ \A i \in 1..m : head[i] = items[i]
          /\ n \notin DOMAIN items => head = items
          /\ n \in DOMAIN items =>
                /\ SubSeq(items, n + 1, Len(items)) \in Seq(Item)
                /\ items = (head \o <<items[n]>>) \o SubSeq(items, n + 1, Len(items))
  BY <1>2, <1>8, SplitAt
<1>12. PICK p \in Nat : p = Len(g)
  OBVIOUS
<1>13. Rendered(file', p + 1, head, p + m + 1)
  <2>1. ASSUME NEW i \in 1..m PROVE Stands(file', p + i, head[i], p + i + 1)
    <3>1. PICK item \in Item : item = items[i] /\ ~IsNew(item)
      BY SMTT(30), <1>2, <1>8
    <3>2. PICK r \in DOMAIN file' : r = p + i /\ file'[r] = Token(item)
      BY <1>9, <1>10, <1>12, <3>1
    <3>3. Stands(file', r, item, r + 1)
      BY <3>1, <3>2, TokenStands
    <3> QED BY <1>11, <3>1, <3>2, <3>3
  <2> QED BY <1>11, <2>1, RenderedInTurn
<1>14. Rendered(file', q, done, p + 1)
  <2>1. Rendered(g, q, done, p + 1)
    BY <1>7, <1>12
  <2> QED BY <1>10, <2>1, RenderedMore
<1>15. PICK all \in Seq(Item) : all = done \o head
  <2>1. done \o head \in Seq(Item)
    BY ConcatProperties
  <2> QED BY <2>1
<1>16. Rendered(file', q, all, Len(file') + 1)
  <2>1. p + 1 \in Nat /\ p + m + 1 \in Nat /\ Len(file') + 1 = p + m + 1
    BY SMTT(30), <1>10, <1>12
  <2>2. Rendered(file', q, done \o head, p + m + 1)
    BY <1>13, <1>14, <2>1, RenderedTogether
  <2> QED BY <1>15, <2>1, <2>2
<1>17. CASE n \notin DOMAIN items
  <2>1. n > Len(items)
    BY SMTT(30), <1>2, <1>3, <1>17
  <2>2. Items[obj] = all
    BY <1>11, <1>15, <1>17
  <2> QED BY <1>6, <1>16, <2>1, <2>2
<1>18. CASE n \in DOMAIN items
  <2>1. ~(n > Len(items)) /\ IsNew(items[n])
    BY SMTT(30), <1>2, <1>3, <1>6, <1>18
  <2>2. PICK rest \in Seq(Item) : rest = SubSeq(items, n + 1, Len(items))
    BY <1>11, <1>18
  <2>3. PICK name \in Item : name = items[n]
    BY <1>18
  <2>4. name.op = "symbol" /\ name.obj \in Objects /\ name = [op |-> "symbol", obj |-> name.obj]
    <3>1. name.op = "symbol"
      BY <2>1, <2>3 DEF IsNew
    <3>2. name \in [op : Types \ {"cons", "lisp_array"}, obj : Objects]
      BY <3>1 DEF Item
    <3> QED BY <3>1, <3>2
  <2>5. c \in Printing /\ c.obj = obj /\ c.sym = name.obj /\ c.rest = rest
    <3>1. c = [proc |-> "fast_print", at |-> "hset", gc |-> FALSE, obj |-> obj,
               sym |-> name.obj, index |-> next', l |-> ht, rest |-> rest]
      BY <1>5, <2>2, <2>3
    <3> QED BY <2>4, <3>1 DEF Printing
  <2>6. calls' = Append(base, c) /\ printed' = printed
    BY <1>6, <2>1
  <2>7. PICK one \in Seq(Item) : one = <<name>>
    <3>1. <<name>> \in Seq(Item)
      OBVIOUS
    <3> QED BY <3>1
  <2>8. Items[obj] = (all \o one) \o rest
    <3>1. items = (head \o one) \o rest
      BY <1>11, <1>18, <2>2, <2>3, <2>7
    <3>2. PICK ho \in Seq(Item) : ho = head \o one
      <4>1. head \o one \in Seq(Item)
        BY ConcatProperties
      <4> QED BY <4>1
    <3>3. done \o (ho \o rest) = (done \o ho) \o rest
      <4>1. Joins(done, ho, rest)
        BY JoinsAny
      <4> QED BY <4>1 DEF Joins
    <3>4. done \o ho = all \o one
      <4>1. Joins(done, head, one)
        BY JoinsAny
      <4>2. done \o (head \o one) = (done \o head) \o one
        BY <4>1 DEF Joins
      <4> QED BY <1>15, <3>2, <4>2
    <3> QED BY <3>1, <3>2, <3>3, <3>4
  <2>9. Part(file', q, c)
    <3>1. /\ name = [op |-> "symbol", obj |-> c.sym]
          /\ Items[c.obj] = (all \o <<name>>) \o c.rest
      BY <2>4, <2>5, <2>7, <2>8
    <3> QED BY <1>16, <3>1 DEF Part
  <2> QED BY <2>5, <2>6, <2>9
<1> QED BY <1>17, <1>18

-----------------------------------------------------------------------------
(* As long as every print was whole the stream stands for the objects that *)
(* were printed and, from q on, for what the call on the stack has done.   *)

Fully(tape, objs, q) == \E at : EachRendered(tape, at, Items, objs, 1, q)
Quiet == \A i \in DOMAIN calls : calls[i] \notin Printing
Underway(q) == /\ Quiet => q = Len(file) + 1
               /\ \A i \in DOMAIN calls : calls[i] \in Printing => Part(file, q, calls[i])
WholeInv == whole => /\ cut = {} /\ printed \in Seq(Objects)
                     /\ \E q \in Nat : Fully(file, printed, q) /\ Underway(q)

LEMMA FullyNone == ASSUME NEW tape PROVE Fully(tape, <<>>, 1)
<1> DEFINE at == [k \in 0..0 |-> 1]
<1>1. at \in [0..0 -> Nat] /\ at[0] = 1
  OBVIOUS
<1>2. Len(<<>>) = 0 /\ 1..0 = {}
  OBVIOUS
<1> HIDE DEF at
<1>3. EachRendered(tape, at, Items, <<>>, 1, 1)
  BY <1>1, <1>2 DEF EachRendered
<1> QED BY <1>3 DEF Fully

LEMMA FullyMore ==
    ASSUME NEW tape, NEW more, \A p \in DOMAIN tape : p \in DOMAIN more /\ more[p] = tape[p],
           NEW objs, NEW q, Fully(tape, objs, q)
    PROVE  Fully(more, objs, q)
<1>1. PICK at : EachRendered(tape, at, Items, objs, 1, q)
  BY DEF Fully
<1>2. \A p, items, r : Rendered(tape, p, items, r) => Rendered(more, p, items, r)
  BY RenderedMore
<1>3. EachRendered(more, at, Items, objs, 1, q)
  BY <1>1, <1>2 DEF EachRendered
<1> QED BY <1>3 DEF Fully

LEMMA FullyAppend ==
    ASSUME NEW tape, NEW objs \in Seq(Objects), NEW q \in Nat, Fully(tape, objs, q),
           NEW obj \in Objects, NEW r \in Nat, Rendered(tape, q, Items[obj], r)
    PROVE  Fully(tape, Append(objs, obj), r)
<1>1. PICK at : EachRendered(tape, at, Items, objs, 1, q)
  BY DEF Fully
<1>2. PICK n \in Nat : n = Len(objs)
  OBVIOUS
<1>3. PICK more : more = Append(objs, obj)
  OBVIOUS
<1>4. Len(more) = n + 1 /\ more[n + 1] = obj /\ \A k \in 1..n : more[k] = objs[k]
  BY <1>2, <1>3, AppendProperties
<1>5. /\ at \in [0..n -> Nat] /\ at[0] = 1 /\ at[n] = q
      /\ \A k \in 1..n : Rendered(tape, at[k - 1], Items[objs[k]], at[k])
  BY <1>1, <1>2 DEF EachRendered
<1> DEFINE to == [k \in 0..(n + 1) |-> IF k <= n THEN at[k] ELSE r]
<1>6. to \in [0..(n + 1) -> Nat] /\ \A k \in 0..n : to[k] = at[k]
  BY <1>5
<1>7. to[n + 1] = r
  OBVIOUS
<1> HIDE DEF to
<1>8. ASSUME NEW k \in 1..(n + 1) PROVE Rendered(tape, to[k - 1], Items[more[k]], to[k])
  <2>1. CASE k \in 1..n
    <3>1. k - 1 \in 0..n /\ k \in 0..n
      BY <2>1
    <3> QED BY <1>4, <1>5, <1>6, <2>1, <3>1
  <2>2. CASE k = n + 1
    <3>1. k - 1 = n /\ n \in 0..n
      BY <2>2
    <3> QED BY <1>4, <1>5, <1>6, <1>7, <2>2, <3>1
  <2> QED BY <2>1, <2>2
<1>9. to[0] = 1
  <2>1. 0 \in 0..n
    OBVIOUS
  <2> QED BY <1>5, <1>6, <2>1
<1>10. EachRendered(tape, to, Items, more, 1, r)
  BY <1>4, <1>6, <1>7, <1>8, <1>9 DEF EachRendered
<1> QED BY <1>3, <1>10 DEF Fully

LEMMA WholeFirst == Init => WholeInv
<1> SUFFICES ASSUME Init PROVE WholeInv
  OBVIOUS
<1>1. calls = <<>> /\ file = <<>> /\ printed = <<>> /\ cut = {}
  BY DEF Init
<1>2. DOMAIN calls = {} /\ Len(file) + 1 = 1 /\ <<>> \in Seq(Objects) /\ 1 \in Nat
  BY <1>1
<1>3. Underway(1)
  BY <1>2 DEF Underway
<1>4. Fully(file, printed, 1)
  BY <1>1, FullyNone
<1> QED BY <1>1, <1>2, <1>3, <1>4 DEF WholeInv

(* Where nothing is printed, and a call that is left on the stack has what *)
(* it had to print.                                                        *)
LEMMA WholeStays ==
    ASSUME WholeInv, file' = file,
           whole' => /\ whole /\ cut' = cut /\ printed' = printed
                     /\ Quiet' => Quiet
                     /\ \A i \in DOMAIN calls' : calls'[i] \in Printing =>
                           \E j \in DOMAIN calls :
                              /\ calls[j] \in Printing /\ calls'[i].obj = calls[j].obj
                              /\ calls'[i].sym = calls[j].sym /\ calls'[i].rest = calls[j].rest
    PROVE  WholeInv'
<1> SUFFICES ASSUME whole'
             PROVE  /\ cut' = {} /\ printed' \in Seq(Objects)
                    /\ \E q \in Nat : Fully(file', printed', q) /\ Underway(q)'
  BY DEF WholeInv
<1>1. PICK q \in Nat : Fully(file, printed, q) /\ Underway(q)
  BY DEF WholeInv
<1>2. \A c, d : Part(file, q, c) /\ d.obj = c.obj /\ d.sym = c.sym /\ d.rest = c.rest => Part(file, q, d)
  BY DEF Part
<1>3. Underway(q)'
  <2>1. Quiet' => q = Len(file') + 1
    BY <1>1 DEF Underway
  <2>2. ASSUME NEW i \in DOMAIN calls', calls'[i] \in Printing PROVE Part(file', q, calls'[i])
    BY <1>1, <1>2, <2>2 DEF Underway
  <2> QED BY <2>1, <2>2 DEF Underway
<1> QED BY <1>1, <1>3 DEF WholeInv

LEMMA HsetIsWhole == IInv /\ WholeInv /\ Hset => WholeInv'
<1> SUFFICES ASSUME IInv, WholeInv, Hset PROVE WholeInv'
  OBVIOUS
<1> DEFINE c == Innermost
           k == Len(calls)
<1>1. /\ c.proc = "fast_print"
      /\ calls' = Append(Outer, [c EXCEPT !.at = "plus", !.gc = FALSE])
      /\ UNCHANGED <<file, cut, whole, printed>>
  BY DEF Hset, Allocates, Continue, history
<1>2. calls \in Seq(Call) /\ c # AfterGc
  BY <1>1 DEF IInv, Typing, AfterGc
<1>3. /\ k \in DOMAIN calls /\ k \in Nat /\ c = calls[k] /\ c \in Printing
      /\ Outer \in Seq(Call) /\ Len(Outer) = k - 1
      /\ \A i \in 1..(k - 1) : Outer[i] = calls[i]
      /\ DOMAIN calls = 1..k
  BY <1>2, InnermostIs
<1> HIDE DEF c, k
<1>4. PICK d : d = [c EXCEPT !.at = "plus", !.gc = FALSE]
  OBVIOUS
<1>5. d \in Printing /\ d.obj = c.obj /\ d.sym = c.sym /\ d.rest = c.rest /\ d \in Call
  BY <1>3, <1>4 DEF Printing, Call
<1>6. /\ DOMAIN calls' = 1..k /\ calls'[k] = d
      /\ \A i \in 1..(k - 1) : calls'[i] = calls[i]
  <2>1. calls' = Append(Outer, d)
    BY <1>1, <1>4
  <2>2. Len(Outer) + 1 = k
    BY <1>3
  <2> QED BY <1>3, <1>5, <2>1, <2>2, OneCall
<1>7. ~Quiet'
  BY <1>3, <1>5, <1>6 DEF Quiet
<1>8. ASSUME NEW i \in DOMAIN calls', calls'[i] \in Printing
      PROVE  \E j \in DOMAIN calls : /\ calls[j] \in Printing /\ calls'[i].obj = calls[j].obj
                                     /\ calls'[i].sym = calls[j].sym /\ calls'[i].rest = calls[j].rest
  <2>1. i \in DOMAIN calls /\ (i = k \/ i \in 1..(k - 1))
    BY <1>3, <1>6
  <2> QED BY <1>3, <1>5, <1>6, <1>8, <2>1
<1> QED BY <1>1, <1>7, <1>8, WholeStays

LEMMA CollectIsWhole == IInv /\ WholeInv /\ GcForNewcell => WholeInv'
<1> SUFFICES ASSUME IInv, WholeInv, GcForNewcell PROVE WholeInv'
  OBVIOUS
<1> DEFINE c == Innermost
           k == Len(calls)
<1>1. /\ c # AfterGc /\ calls' = Outer \o <<[c EXCEPT !.gc = TRUE], AfterGc>>
      /\ UNCHANGED <<file, cut, whole, printed>>
  BY DEF GcForNewcell, Collect, Evaluating, stream, history
<1>2. calls \in Seq(Call)
  BY DEF IInv, Typing
<1>3. /\ k \in DOMAIN calls /\ k \in Nat /\ c = calls[k] /\ c \in Printing
      /\ Outer \in Seq(Call) /\ Len(Outer) = k - 1
      /\ \A i \in 1..(k - 1) : Outer[i] = calls[i]
      /\ DOMAIN calls = 1..k
  BY <1>1, <1>2, InnermostIs
<1> HIDE DEF c, k
<1>4. PICK d : d = [c EXCEPT !.gc = TRUE]
  OBVIOUS
<1>5. /\ d \in Printing /\ d.obj = c.obj /\ d.sym = c.sym /\ d.rest = c.rest /\ d \in Call
      /\ AfterGc \in Call
  BY <1>3, <1>4 DEF Printing, Call
<1>6. /\ DOMAIN calls' = 1..(k + 1) /\ calls'[k] = d /\ calls'[k + 1] = AfterGc
      /\ \A i \in 1..(k - 1) : calls'[i] = calls[i]
  <2>1. calls' = Outer \o <<d, AfterGc>>
    BY <1>1, <1>4
  <2>2. Len(Outer) + 1 = k /\ Len(Outer) + 2 = k + 1
    BY <1>3
  <2>3. \A x, y \in Call :
           /\ DOMAIN (Outer \o <<x, y>>) = 1..(Len(Outer) + 2)
           /\ \A i \in 1..Len(Outer) : (Outer \o <<x, y>>)[i] = Outer[i]
           /\ (Outer \o <<x, y>>)[Len(Outer) + 1] = x /\ (Outer \o <<x, y>>)[Len(Outer) + 2] = y
    BY <1>3, TwoCalls
  <2>4. /\ DOMAIN calls' = 1..(Len(Outer) + 2)
        /\ \A i \in 1..Len(Outer) : calls'[i] = Outer[i]
        /\ calls'[Len(Outer) + 1] = d /\ calls'[Len(Outer) + 2] = AfterGc
    BY <1>5, <2>1, <2>3
  <2> QED BY <1>3, <2>2, <2>4
<1>7. ~Quiet'
  <2>1. k \in DOMAIN calls'
    BY <1>3, <1>6
  <2> QED BY <1>5, <1>6, <2>1 DEF Quiet
<1>8. ASSUME NEW i \in DOMAIN calls', calls'[i] \in Printing
      PROVE  \E j \in DOMAIN calls : /\ calls[j] \in Printing /\ calls'[i].obj = calls[j].obj
                                     /\ calls'[i].sym = calls[j].sym /\ calls'[i].rest = calls[j].rest
  <2>1. i = k + 1 \/ (i \in DOMAIN calls /\ (i = k \/ i \in 1..(k - 1)))
    BY <1>3, <1>6
  <2>2. i # k + 1
    BY <1>6, <1>8, Kinds
  <2> QED BY <1>3, <1>5, <1>6, <1>8, <2>1, <2>2
<1> QED BY <1>1, <1>7, <1>8, WholeStays

LEMMA FormEndsIsWhole == IInv /\ WholeInv /\ FormEndsHere => WholeInv'
<1> SUFFICES ASSUME IInv, WholeInv, FormEndsHere PROVE WholeInv'
  OBVIOUS
<1>1. /\ calls # <<>> /\ Innermost = AfterGc /\ calls' = SubSeq(calls, 1, Len(calls) - 1)
      /\ UNCHANGED <<file, cut, whole, printed>>
  BY DEF FormEndsHere, FormEnds, Finish, Outer, stream, history
<1>2. calls \in Seq(Call)
  BY DEF IInv, Typing
<1>3. PICK n \in Nat : Len(calls) = n + 1 /\ Len(calls) - 1 = n /\ n \in 0..Len(calls)
  <2>1. Len(calls) \in Nat /\ Len(calls) # 0
    BY <1>1, <1>2
  <2> QED BY SMTT(30), <2>1
<1>4. /\ DOMAIN calls' = 1..n /\ DOMAIN calls = 1..(n + 1)
      /\ \A i \in 1..n : i \in DOMAIN calls /\ calls'[i] = calls[i]
  <2>1. /\ SubSeq(calls, 1, n) \in Seq(Call) /\ Len(SubSeq(calls, 1, n)) = n
        /\ \A i \in 1..n : SubSeq(calls, 1, n)[i] = calls[i]
    BY <1>2, <1>3, Prefix
  <2>2. calls' = SubSeq(calls, 1, n)
    BY <1>1, <1>3
  <2> QED BY <1>2, <1>3, <2>1, <2>2
<1>5. calls[n + 1] \notin Printing
  BY <1>1, <1>3, Kinds DEF Innermost
<1>6. Quiet' => Quiet
  <2>1. \A i \in DOMAIN calls : i = n + 1 \/ i \in 1..n
    BY <1>4
  <2> QED BY <1>4, <1>5, <2>1 DEF Quiet
<1> QED BY <1>1, <1>4, <1>6, WholeStays

LEMMA LeaveIsWhole == IInv /\ WholeInv /\ Leave => WholeInv'
<1> SUFFICES ASSUME IInv, WholeInv, Leave PROVE WholeInv'
  OBVIOUS
<1> DEFINE left == {calls[i] : i \in {j \in DOMAIN calls :
                        j > Len(calls') /\ calls[j].proc = "fast_print"}}
<1>1. /\ Unwind /\ file' = file /\ whole' = (whole /\ left = {})
      /\ printed' = IF whole' THEN printed ELSE <<>>
      /\ cut' = cut \cup {c.sym : c \in {d \in left : d.at = "plus"}}
  BY DEF Leave, stream
<1>2. calls \in Seq(Call)
  BY DEF IInv, Typing
<1>3. PICK n \in 0..Len(calls) : calls' = SubSeq(calls, 1, n)
  <2>1. CASE Fail
    <3>1. SubSeq(calls, 1, 0) = <<>> /\ 0 \in 0..Len(calls)
      BY <1>2
    <3> QED BY <2>1, <3>1 DEF Fail
  <2>2. CASE ThrowOut
    BY <1>2, <2>2 DEF ThrowOut
  <2> QED BY <1>1, <2>1, <2>2 DEF Unwind
<1>4. /\ DOMAIN calls' = 1..n /\ Len(calls') = n
      /\ \A i \in 1..n : i \in DOMAIN calls /\ calls'[i] = calls[i]
  <2>1. Len(calls) \in Nat /\ DOMAIN calls = 1..Len(calls)
    BY <1>2
  <2>2. /\ calls' \in Seq(Call) /\ Len(calls') = n /\ \A i \in 1..n : calls'[i] = calls[i]
    BY <1>2, <1>3, Prefix
  <2> QED BY <2>1, <2>2
<1>5. ASSUME left = {}, NEW i \in DOMAIN calls, calls[i] \in Printing PROVE i \in 1..n
  <2>1. ~(i > Len(calls'))
    BY <1>5, Kinds
  <2> QED BY <1>2, <1>4, <2>1
<1> HIDE DEF left
<1>6. whole' => left = {} /\ whole /\ cut' = cut /\ printed' = printed
  BY <1>1
<1>7. whole' => (Quiet' => Quiet)
  BY <1>4, <1>5, <1>6 DEF Quiet
<1> QED BY <1>1, <1>4, <1>6, <1>7, WholeStays

LEMMA PrintIsWhole ==
    ASSUME file \in Seq(Tokens), ht \in Seq(Entries), next' \in Nat,
           NEW base \in Seq(Call), NEW before \in Seq(Tokens), NEW obj \in Objects,
           NEW done \in Seq(Item), NEW items \in Seq(Item), Items[obj] = done \o items,
           NEW q \in Nat, Rendered(file \o before, q, done, Len(file \o before) + 1),
           PrintOn(base, obj, before, items), whole',
           printed \in Seq(Objects), Fully(file, printed, q)
    PROVE  /\ printed' \in Seq(Objects)
           /\ \E r \in Nat : Fully(file', printed', r) /\ Underway(r)'
<1>1. /\ file' \in Seq(Tokens)
      /\ \A p \in DOMAIN file : p \in DOMAIN file' /\ file'[p] = file[p]
      /\ \A j \in DOMAIN base : base[j] \notin Printing
  BY PrintsOn
<1>2. Fully(file', printed, q)
  BY <1>1, FullyMore
<1>3. \/ /\ calls' = base /\ printed' = Append(printed, obj)
         /\ Rendered(file', q, Items[obj], Len(file') + 1)
      \/ /\ printed' = printed
         /\ \E c \in Printing : calls' = Append(base, c) /\ Part(file', q, c)
  BY PrintsAll
<1>4. CASE /\ calls' = base /\ printed' = Append(printed, obj)
           /\ Rendered(file', q, Items[obj], Len(file') + 1)
  <2>1. PICK r \in Nat : r = Len(file') + 1
    BY <1>1
  <2>2. Fully(file', Append(printed, obj), r)
    BY <1>2, <1>4, <2>1, FullyAppend
  <2>3. Underway(r)'
    <3>1. \A i \in DOMAIN calls' : calls'[i] \notin Printing
      BY <1>1, <1>4
    <3> QED BY <2>1, <3>1 DEF Underway
  <2>4. Append(printed, obj) \in Seq(Objects)
    BY AppendProperties
  <2> QED BY <1>4, <2>2, <2>3, <2>4
<1>5. ASSUME printed' = printed, NEW c \in Printing, calls' = Append(base, c), Part(file', q, c)
      PROVE  Underway(q)'
  <2>1. /\ DOMAIN calls' = 1..(Len(base) + 1) /\ calls'[Len(base) + 1] = c
        /\ \A i \in 1..Len(base) : calls'[i] = base[i]
    <3>1. c \in Call
      BY DEF Call
    <3> QED BY <1>5, <3>1, OneCall
  <2>2. /\ Len(base) \in Nat /\ Len(base) + 1 \in DOMAIN calls'
        /\ \A i \in DOMAIN calls' : i = Len(base) + 1 \/ i \in DOMAIN base
        /\ \A i \in DOMAIN base : i \in 1..Len(base)
    <3>1. DOMAIN base = 1..Len(base) /\ Len(base) \in Nat
      OBVIOUS
    <3> QED BY <2>1, <3>1
  <2>3. ~Quiet'
    BY <2>1, <2>2 DEF Quiet
  <2>4. \A i \in DOMAIN calls' : calls'[i] \in Printing => calls'[i] = c
    BY <1>1, <2>1, <2>2
  <2> QED BY <1>5, <2>3, <2>4 DEF Underway
<1> QED BY <1>2, <1>3, <1>4, <1>5

LEMMA FastPrintIsWhole ==
    ASSUME IInv, WholeInv, NEW obj \in Objects, FastPrint(obj)
    PROVE  WholeInv'
<1> SUFFICES ASSUME whole'
             PROVE  /\ cut' = {} /\ printed' \in Seq(Objects)
                    /\ \E r \in Nat : Fully(file', printed', r) /\ Underway(r)'
  BY DEF WholeInv
<1>1. UNCHANGED <<ht, next, cut>> /\ PrintOn(calls, obj, <<>>, Items[obj])
  BY DEF FastPrint
<1>2. /\ calls \in Seq(Call) /\ file \in Seq(Tokens) /\ ht \in Seq(Entries) /\ next' \in Nat
      /\ Items[obj] \in Seq(Item)
  BY <1>1, ItemsAre DEF IInv, Typing
<1>0. <<>> \in Seq(Tokens) /\ <<>> \in Seq(Item)
  OBVIOUS
<1>3. PICK before \in Seq(Tokens) : before = <<>>
  BY <1>0
<1>4. PICK done \in Seq(Item) : done = <<>>
  BY <1>0
<1>5. PICK items \in Seq(Item) : items = Items[obj]
  BY <1>2
<1>6. PICK base \in Seq(Call) : base = calls
  BY <1>2
<1>7. PrintOn(base, obj, before, items)
  BY <1>1, <1>3, <1>5, <1>6
<1>8. Items[obj] = done \o items /\ file \o before = file
  BY <1>2, <1>3, <1>4, <1>5, ConcatEmptySeq
<1>9. whole /\ Quiet
  <2>1. whole /\ \A j \in DOMAIN base : base[j] \notin Printing
    BY <1>2, <1>7, PrintsOn
  <2> QED BY <1>6, <2>1 DEF Quiet
<1>10. /\ cut = {} /\ printed \in Seq(Objects)
       /\ \E q \in Nat : Fully(file, printed, q) /\ Underway(q)
  BY <1>9 DEF WholeInv
<1>11. PICK q \in Nat : Fully(file, printed, q) /\ q = Len(file) + 1
  BY <1>9, <1>10 DEF Underway
<1>12. Rendered(file \o before, q, done, Len(file \o before) + 1)
  <2>1. Len(done) = 0
    BY <1>4
  <2> QED BY <1>8, <1>11, <2>1, RenderedNone
<1> QED BY <1>1, <1>2, <1>7, <1>8, <1>10, <1>11, <1>12, PrintIsWhole

LEMMA StoreIsWhole == IInv /\ WholeInv /\ Store => WholeInv'
<1> SUFFICES ASSUME IInv, WholeInv, Store, whole'
             PROVE  /\ cut' = {} /\ printed' \in Seq(Objects)
                    /\ \E r \in Nat : Fully(file', printed', r) /\ Underway(r)'
  BY DEF WholeInv
<1>1. PICK c : c = Innermost
  OBVIOUS
<1>2. PICK store : store = [op |-> "FO_store", index |-> c.index]
  OBVIOUS
<1>3. PICK name : name = [op |-> "symbol", obj |-> c.sym]
  OBVIOUS
<1>4. PICK before : before = <<store, name>>
  OBVIOUS
<1>5. /\ c.proc = "fast_print" /\ next' = c.index + 1 /\ UNCHANGED <<ht, cut>>
      /\ PrintOn(Outer, c.obj, before, c.rest)
  BY <1>1, <1>2, <1>3, <1>4 DEF Store, Allocates
<1>6. /\ calls \in Seq(Call) /\ file \in Seq(Tokens) /\ ht \in Seq(Entries) /\ c # AfterGc
  BY <1>5 DEF IInv, Typing, AfterGc
<1>7. PICK k \in DOMAIN calls : /\ c = calls[k] /\ c \in Printing /\ Outer \in Seq(Call)
  BY <1>1, <1>6, InnermostIs
<1>8. /\ c.obj \in Objects /\ c.sym \in Objects /\ c.index \in Nat /\ c.rest \in Seq(Item)
      /\ next' \in Nat
  BY <1>5, <1>7, Kinds
<1>9. store \in Tokens /\ name \in Tokens
  BY <1>2, <1>3, <1>8 DEF Tokens, StoreOp, Name
<1>10. /\ before \in Seq(Tokens) /\ Len(before) = 2 /\ 1 \in DOMAIN before /\ 2 \in DOMAIN before
       /\ before[1] = store /\ before[2] = name
  BY <1>4, <1>9
<1>11. whole
  BY <1>5, <1>6, <1>7, <1>8, <1>10, PrintsOn
<1>12. /\ cut = {} /\ printed \in Seq(Objects)
       /\ \E q \in Nat : Fully(file, printed, q) /\ Underway(q)
  BY <1>11 DEF WholeInv
<1>13. PICK q \in Nat : Fully(file, printed, q) /\ Part(file, q, c)
  BY <1>7, <1>12 DEF Underway
<1>14. PICK done \in Seq(Item) : /\ name \in Item
                                 /\ Items[c.obj] = (done \o <<name>>) \o c.rest
                                 /\ Rendered(file, q, done, Len(file) + 1)
  BY <1>3, <1>13 DEF Part
<1>15. PICK g \in Seq(Tokens) : g = file \o before
  <2>1. file \o before \in Seq(Tokens)
    BY <1>6, <1>10, Together
  <2> QED BY <2>1
<1>16. PICK p \in Nat : p = Len(file)
  BY <1>6
<1>17. /\ Len(g) = p + 2 /\ DOMAIN g = 1..(p + 2)
       /\ \A i \in DOMAIN file : i \in DOMAIN g /\ g[i] = file[i]
       /\ g[p + 1] = store /\ g[p + 2] = name
  <2>1. \A s, u \in Seq(Tokens) :
           /\ Len(s \o u) = Len(s) + Len(u)
           /\ \A i \in DOMAIN s : (s \o u)[i] = s[i]
           /\ \A i \in DOMAIN u : (s \o u)[Len(s) + i] = u[i]
    BY SMTT(30), Together
  <2>2. /\ Len(g) = Len(file) + Len(before)
        /\ \A i \in DOMAIN file : g[i] = file[i]
        /\ \A i \in DOMAIN before : g[Len(file) + i] = before[i]
    BY <1>6, <1>10, <1>15, <2>1
  <2>3. DOMAIN file = 1..p /\ \A i \in 1..p : i \in 1..(p + 2)
    BY <1>6, <1>16
  <2>4. DOMAIN g = 1..Len(g)
    OBVIOUS
  <2> QED BY <1>10, <1>16, <2>2, <2>3, <2>4
<1>18. name.op = "symbol" /\ store.op = "FO_store"
  BY <1>2, <1>3
<1>19. PICK one \in Seq(Item) : one = <<name>>
  <2>1. <<name>> \in Seq(Item)
    BY <1>14
  <2> QED BY <2>1
<1>20. PICK more \in Seq(Item) : more = done \o one
  <2>1. done \o one \in Seq(Item)
    BY ConcatProperties
  <2> QED BY <2>1
<1>21. Rendered(g, q, more, Len(g) + 1)
  <2>1. p + 1 \in Nat /\ p + 3 \in Nat /\ Len(g) + 1 = p + 3
    BY <1>17
  <2>2. Rendered(g, q, done, p + 1)
    BY <1>14, <1>16, <1>17, RenderedMore
  <2>3. Stands(g, p + 1, name, p + 3)
    <3>1. p + 1 \in DOMAIN g /\ p + 2 \in DOMAIN g /\ p + 1 + 1 = p + 2 /\ p + 1 + 2 = p + 3
      BY <1>17
    <3> QED BY <1>17, <1>18, <3>1 DEF Stands
  <2>4. Rendered(g, p + 1, one, p + 3)
    BY <1>19, <2>1, <2>3, RenderedOne
  <2> QED BY <1>20, <2>1, <2>2, <2>4, RenderedTogether
<1>22. Items[c.obj] = more \o c.rest
  BY <1>14, <1>19, <1>20
<1>23. PICK obj \in Objects : obj = c.obj
  BY <1>8
<1>24. PICK items \in Seq(Item) : items = c.rest
  BY <1>8
<1>25. PICK base \in Seq(Call) : base = Outer
  BY <1>7
<1>26. PrintOn(base, obj, before, items) /\ Items[obj] = more \o items
  BY <1>5, <1>22, <1>23, <1>24, <1>25
<1>27. Rendered(file \o before, q, more, Len(file \o before) + 1)
  BY <1>15, <1>21
<1>28. cut' = {}
  BY <1>5, <1>12
<1>29. /\ printed' \in Seq(Objects)
       /\ \E r \in Nat : Fully(file', printed', r) /\ Underway(r)'
  BY <1>6, <1>8, <1>10, <1>12, <1>13, <1>26, <1>27, PrintIsWhole
<1> QED BY <1>28, <1>29

LEMMA WholeKeeps == IInv /\ WholeInv /\ [Next]_vars => WholeInv'
<1> SUFFICES ASSUME IInv, WholeInv, [Next]_vars PROVE WholeInv'
  OBVIOUS
<1>1. CASE \E obj \in Objects : FastPrint(obj)
  BY <1>1, FastPrintIsWhole
<1>2. CASE Hset
  BY <1>2, HsetIsWhole
<1>3. CASE Store
  BY <1>3, StoreIsWhole
<1>4. CASE GcForNewcell
  BY <1>4, CollectIsWhole
<1>5. CASE FormEndsHere
  BY <1>5, FormEndsIsWhole
<1>6. CASE Leave
  BY <1>6, LeaveIsWhole
<1>7. CASE UNCHANGED vars
  <2>1. UNCHANGED <<calls, file, cut, whole, printed>>
    BY <1>7 DEF vars, stream, history
  <2>2. Quiet' => Quiet
    BY <2>1 DEF Quiet
  <2> QED BY <2>1, <2>2, WholeStays
<1> QED BY <1>1, <1>2, <1>3, <1>4, <1>5, <1>6, <1>7 DEF Next

(* What the objects that were printed are read as, one after the other. *)
ReadOn(f, n) ==
    f = [k \in 0..n |-> IF k = 0 THEN [is |-> <<>>, end |-> 1] ELSE FastRead[f[k - 1].end]]
Marks(at, n) == at[0] = 1 /\ \A k \in 1..n : Back(printed[k], at[k - 1], at[k])
Took(f, at, n) == f[n].end = at[n] /\ \A k \in 1..n : f[k].is = Canon[printed[k]]

LEMMA ReadsAll == \A n \in Nat : \A at, f : ReadOn(f, n) /\ Marks(at, n) => Took(f, at, n)
<1> SUFFICES ASSUME NEW n \in Nat, NEW at, NEW f, ReadOn(f, n), Marks(at, n) PROVE Took(f, at, n)
  OBVIOUS
<1>0. at[0] = 1 /\ \A k \in 1..n : Back(printed[k], at[k - 1], at[k])
  BY DEF Marks
<1>1. \A k \in 0..n : f[k] = IF k = 0 THEN [is |-> <<>>, end |-> 1] ELSE FastRead[f[k - 1].end]
  <2> DEFINE body(k) == IF k = 0 THEN [is |-> <<>>, end |-> 1] ELSE FastRead[f[k - 1].end]
  <2>1. f = [k \in 0..n |-> body(k)]
    BY DEF ReadOn
  <2> HIDE DEF body
  <2>2. \A k \in 0..n : f[k] = body(k)
    BY <2>1
  <2> QED BY <2>2 DEF body
<1>2. ASSUME NEW k \in 1..n, f[k - 1].end = at[k - 1]
      PROVE  f[k].is = Canon[printed[k]] /\ f[k].end = at[k]
  <2>1. k \in 0..n /\ k # 0
    OBVIOUS
  <2>2. f[k] = FastRead[at[k - 1]]
    BY <1>1, <1>2, <2>1
  <2>3. FastRead[at[k - 1]] = [is |-> Canon[printed[k]], end |-> at[k]]
    BY <1>0 DEF Back
  <2> QED BY <2>2, <2>3
<1> DEFINE S == {k \in 0..n : f[k].end = at[k]}
<1>3. 0 \in S
  <2>1. 0 \in 0..n
    OBVIOUS
  <2>2. f[0] = [is |-> <<>>, end |-> 1]
    BY <1>1, <2>1
  <2> QED BY <1>0, <2>1, <2>2
<1>4. ASSUME NEW k \in Nat, k < n, k \in S PROVE k + 1 \in S
  <2>1. PICK j \in 1..n : j = k + 1 /\ j - 1 = k /\ j \in 0..n
    BY <1>4
  <2>2. f[j - 1].end = at[j - 1]
    BY <1>4, <2>1
  <2>3. \A i \in 1..n : f[i - 1].end = at[i - 1] => f[i].end = at[i]
    BY <1>2
  <2>4. f[j].end = at[j]
    BY <2>2, <2>3
  <2> QED BY <2>1, <2>4
<1> HIDE DEF S
<1>5. \A k \in 0..n : k \in S
  BY <1>3, <1>4, UpwardsTo
<1>6. n \in 0..n /\ \A k \in 1..n : k - 1 \in 0..n
  OBVIOUS
<1>7. \A k \in 0..n : f[k].end = at[k]
  BY <1>5 DEF S
<1> QED BY <1>2, <1>6, <1>7 DEF Took

LEMMA ReadsWhole == IInv /\ WholeInv => RoundTrip
<1> SUFFICES ASSUME IInv, WholeInv, whole, Under = {} PROVE RoundTrip
  BY DEF RoundTrip
<1>1. file \in Seq(Tokens) /\ calls \in Seq(Call)
  BY DEF IInv, Typing
<1>2. cut = {} /\ printed \in Seq(Objects) /\ \E q \in Nat : Fully(file, printed, q) /\ Underway(q)
  BY DEF WholeInv
<1>3. Quiet
  <2>1. ASSUME NEW i \in DOMAIN calls, calls[i] \in Printing PROVE FALSE
    BY <2>1, Kinds DEF Under
  <2> QED BY <2>1 DEF Quiet
<1>4. PICK q \in Nat : Fully(file, printed, q) /\ q = Len(file) + 1
  BY <1>2, <1>3 DEF Underway
<1>5. AllMeant
  <2>1. \A e : ~Excused(e)
    BY <1>2 DEF Excused, Unsure
  <2> QED BY <2>1, Fetches DEF AllMeant
<1>6. \A a \in Objects : BackAt(a)
  BY <1>1, <1>5, ReadsBack
<1>7. PICK n \in Nat : n = Len(printed)
  BY <1>2
<1>8. PICK at : EachRendered(file, at, Items, printed, 1, q)
  BY <1>4 DEF Fully
<1>9. /\ at \in [0..n -> Nat] /\ at[0] = 1 /\ at[n] = Len(file) + 1
      /\ \A k \in 1..n : Rendered(file, at[k - 1], Items[printed[k]], at[k])
  BY <1>4, <1>7, <1>8 DEF EachRendered
<1>10. ASSUME NEW k \in 1..n PROVE Back(printed[k], at[k - 1], at[k])
  <2>1. at[k - 1] \in Nat /\ at[k] \in Nat
    <3>1. k - 1 \in 0..n /\ k \in 0..n
      OBVIOUS
    <3> QED BY <1>9, <3>1
  <2>2. printed[k] \in Objects
    BY <1>2, <1>7
  <2> QED BY <1>6, <1>9, <2>1, <2>2 DEF BackAt
<1> DEFINE first == [is |-> <<>>, end |-> 1]
           body(f, k) == IF k = 0 THEN first ELSE FastRead[f[k - 1].end]
           g == [k \in 0..n |-> IF k = 0 THEN first ELSE [is |-> Canon[printed[k]], end |-> at[k]]]
           upto == CHOOSE f : f = [k \in 0..n |-> body(f, k)]
<1>11. g = [k \in 0..n |-> body(g, k)]
  <2>1. \A k \in 0..n : g[k].end = at[k]
    BY <1>9
  <2>2. ASSUME NEW k \in 0..n PROVE g[k] = body(g, k)
    <3>1. CASE k = 0
      BY <3>1
    <3>2. CASE k # 0
      <4>1. k \in 1..n /\ k - 1 \in 0..n
        BY <3>2
      <4>2. g[k] = [is |-> Canon[printed[k]], end |-> at[k]]
        BY <3>2
      <4>3. FastRead[at[k - 1]] = [is |-> Canon[printed[k]], end |-> at[k]]
        BY <1>10, <4>1 DEF Back
      <4>4. g[k - 1].end = at[k - 1]
        BY <2>1, <4>1
      <4> HIDE DEF g
      <4> QED BY <3>2, <4>2, <4>3, <4>4
    <3> QED BY <3>1, <3>2
  <2>3. g = [k \in 0..n |-> g[k]]
    OBVIOUS
  <2> HIDE DEF g, body
  <2> QED BY <2>2, <2>3
<1>12. upto = [k \in 0..n |-> body(upto, k)]
  <2> HIDE DEF g, body
  <2> QED BY <1>11
<1>13. PICK f : /\ f = upto
                /\ f = [k \in 0..n |-> IF k = 0 THEN [is |-> <<>>, end |-> 1]
                                       ELSE FastRead[f[k - 1].end]]
  <2> HIDE DEF upto
  <2> QED BY <1>12
<1>14. f[n].end = at[n] /\ \A k \in 1..n : f[k].is = Canon[printed[k]]
  <2>1. ReadOn(f, n)
    BY <1>13 DEF ReadOn
  <2>2. Marks(at, n)
    BY <1>9, <1>10 DEF Marks
  <2>3. Took(f, at, n)
    BY <2>1, <2>2, ReadsAll
  <2> QED BY <2>3 DEF Took
<1>15. RoundTrip <=> /\ \A k \in DOMAIN printed : upto[k].is = Canon[printed[k]]
                     /\ upto[Len(printed)].end = Len(file) + 1
  BY <1>7 DEF RoundTrip
<1> HIDE DEF upto, g, body
<1>16. DOMAIN printed = 1..n
  BY <1>2, <1>7
<1> QED BY <1>7, <1>9, <1>13, <1>14, <1>15, <1>16

(* What was printed is read back, object by object, to the end of the      *)
(* stream, as long as no print was cut short or into (fast_print,          *)
(* fast_read): whatever the objects, as long as they have no cycle.        *)
THEOREM WhatWasPrintedIsReadBack == Spec => []RoundTrip
<1>1. IInv /\ WholeInv /\ [Next]_vars => IInv' /\ WholeInv'
  BY Keeps, WholeKeeps
<1>2. Init => IInv /\ WholeInv
  BY InitKeeps, WholeFirst
<1> QED BY <1>1, <1>2, ReadsWhole, PTL DEF Spec
===============================================================================
