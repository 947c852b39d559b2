--------------------------- MODULE AssertDeadProof ---------------------------
(***************************************************************************)
(* assert-dead, for any heap, program, classes and number of calls.        *)
(*                                                                         *)
(* Typing is three of the properties themselves: a link, a chain and a     *)
(* cell are changed by one operator each, so that a lemma about the        *)
(* operator is most of each proof, and a later state of a link (Follows)   *)
(* or chain (Extends) never takes back what an earlier one said.           *)
(*                                                                         *)
(* The others are not inductive.  That an asserted object that stays is    *)
(* reported (Reported, Flags) needs that a marking misses nothing that     *)
(* is used: Heap has in which phases there are marks, that references      *)
(* lead to cells in use, and that in a marking whatever a marked object    *)
(* refers to is marked or still to come.  That a class names the slots a   *)
(* link waits for is broken by every report and mended by the new          *)
(* definitions at the end of the same collection (Ready).  The two      *)
(* buffers of gc_mark stay in step because each call it has yet to make    *)
(* has a field by which the last object of its path leads to it (Paths).   *)
(***************************************************************************)
EXTENDS AssertDead, WellFoundedInduction, FiniteSetTheorems, TLAPS

(* Any set of numbers has a least one. *)
LEMMA Least ==
    ASSUME NEW S \in SUBSET Nat, S # {}
    PROVE  \E n \in S : \A m \in S : n <= m
<1> DEFINE R == OpToRel(<, Nat)
<1>1. IsWellFoundedOn(R, Nat)
  BY NatLessThanWellFounded
<1>2. \A x, y \in Nat : x < y => <<x, y>> \in R
  BY DEF OpToRel
<1> HIDE DEF R
<1>3. PICK x \in S : \A y \in S : ~(<<y, x>> \in R)
  BY <1>1, WFMin
<1>4. ASSUME NEW m \in S PROVE x <= m
  <2>1. ~(m < x)
    BY <1>2, <1>3
  <2> QED BY <2>1
<1> QED BY <1>4

(* Numbers by induction, over a set of them. *)
LEMMA Induction ==
    ASSUME NEW S, 0 \in S, \A n \in Nat : n \in S => n + 1 \in S
    PROVE  Nat \subseteq S
<1> SUFFICES ASSUME Nat \ S # {} PROVE FALSE
  OBVIOUS
<1>1. PICK n \in Nat \ S : \A m \in Nat \ S : n <= m
  BY Least
<1>2. n # 0 /\ n - 1 \in Nat /\ n - 1 \in S
  BY <1>1
<1> QED BY <1>1, <1>2

(* The least and the greatest of the community modules. *)
LEMMA MinOf ==
    ASSUME NEW S \in SUBSET Nat, S # {}
    PROVE  Min(S) \in S /\ \A m \in S : Min(S) <= m
BY Least DEF Min

LEMMA MaxOf ==
    ASSUME NEW n \in Nat, NEW S \in SUBSET (1..n), S # {}
    PROVE  Max(S) \in S /\ \A m \in S : m <= Max(S)
<1> DEFINE U == {n - m : m \in S}
<1>0. \A m \in S : n - m \in Nat
  OBVIOUS
<1>1. U \in SUBSET Nat /\ U # {}
  BY <1>0
<1>2. PICK u \in U : \A v \in U : u <= v
  BY <1>1, Least
<1>3. PICK x \in S : u = n - x
  OBVIOUS
<1>4. ASSUME NEW m \in S PROVE m <= x
  <2>1. n - m \in U
    OBVIOUS
  <2> QED BY <2>1, <1>2, <1>3
<1>5. \E y \in S : \A m \in S : m <= y
  BY <1>4
<1> QED BY <1>5 DEF Max

(* ActiveDef finds an active definition when there is one. *)
LEMMA ActiveDefIs ==
    ASSUME NEW chain, Len(chain) \in Nat
    PROVE  /\ ActiveDef(chain) # 0 => /\ ActiveDef(chain) \in 1..Len(chain)
                                      /\ chain[ActiveDef(chain)].active
           /\ ActiveDef(chain) = 0 => \A i \in 1..Len(chain) : ~chain[i].active
<1> DEFINE I == {i \in 1..Len(chain) : chain[i].active}
<1>1. ActiveDef(chain) = IF I # {} THEN Min(I) ELSE 0
  BY DEF ActiveDef, SelectInSeq
<1>2. I # {} => Min(I) \in I
  <2>1. I \in SUBSET Nat
    OBVIOUS
  <2> HIDE DEF I
  <2> QED BY <2>1, MinOf
<1> QED BY <1>1, <1>2

(* A definition or link that is found is one of those looked through, and  *)
(* what was looked for.                                                    *)
LEMMA FindDefIs ==
    ASSUME NEW D, NEW chain \in Seq(D), chain # <<>>, NEW slots
    PROVE  FindDef(chain, slots) # 0 =>
              /\ FindDef(chain, slots) \in 1..(Len(chain) - 1)
              /\ chain[FindDef(chain, slots)].slots = slots
<1> DEFINE front == Front(chain)
           I == {i \in 1..Len(front) : front[i].slots = slots}
<1>1. /\ Len(front) = Len(chain) - 1 /\ Len(front) \in Nat
      /\ \A i \in 1..Len(front) : front[i] = chain[i]
  <2>1. Len(chain) \in Nat \ {0}
    OBVIOUS
  <2>2. front = SubSeq(chain, 1, Len(chain) - 1)
    BY DEF Front
  <2> HIDE DEF front
  <2>3. front = [i \in 1..(Len(chain) - 1) |-> chain[i]]
    BY <2>1, <2>2
  <2> QED BY <2>1, <2>3
<1>2. FindDef(chain, slots) = IF I # {} THEN Min(I) ELSE 0
  BY DEF FindDef, SelectInSeq
<1>3. I # {} => Min(I) \in I
  <2>1. I \in SUBSET Nat
    BY <1>1
  <2> HIDE DEF I
  <2> QED BY <2>1, MinOf
<1> QED BY <1>1, <1>2, <1>3

LEMMA FindLinkIs ==
    ASSUME NEW ls, Len(ls) \in Nat, NEW kinds, NEW fields
    PROVE  FindLink(kinds, fields, ls) # 0 =>
              /\ FindLink(kinds, fields, ls) \in 1..Len(ls)
              /\ MatchesLink(kinds, fields, ls[FindLink(kinds, fields, ls)])
<1> DEFINE I == {i \in 1..Len(ls) : MatchesLink(kinds, fields, ls[i])}
<1>1. FindLink(kinds, fields, ls) = IF I # {} THEN Min(I) ELSE 0
  BY DEF FindLink, SelectInSeq
<1>2. I # {} => Min(I) \in I
  <2>1. I \in SUBSET Nat
    OBVIOUS
  <2> HIDE DEF I
  <2> QED BY <2>1, MinOf
<1> QED BY <1>1, <1>2

LEMMA FocusLinkIs ==
    ASSUME NEW ls, Len(ls) \in Nat, NEW d, NEW s, NEW e
    PROVE  FocusLink(ls, d, s, e) # 0 =>
              /\ FocusLink(ls, d, s, e) \in 1..Len(ls)
              /\ Focuses(ls[FocusLink(ls, d, s, e)], d, s, e)
<1> DEFINE I == {i \in 1..Len(ls) : Focuses(ls[i], d, s, e)}
<1>1. FocusLink(ls, d, s, e) = IF I # {} THEN Min(I) ELSE 0
  BY DEF FocusLink, SelectInSeq
<1>2. I # {} => Min(I) \in I
  <2>1. I \in SUBSET Nat
    OBVIOUS
  <2> HIDE DEF I
  <2> QED BY <2>1, MinOf
<1> QED BY <1>1, <1>2

(* The slots a class waits for, a fold over its links, are slots. *)
LEMMA WantedType ==
    ASSUME NEW T, NEW ls, NEW cls, SlotsWaited(ls, cls) \in Seq(Seq(T))
    PROVE  WantedSlots(ls, cls) \in Seq(T)
<1> DEFINE w == SlotsWaited(ls, cls)
           n == Len(w)
           Join(slots, new) == IF ToSet(new) \subseteq ToSet(slots) THEN slots ELSE slots \o new
           F(g, s) == IF s = {} THEN <<>> ELSE Join(g[s \ {Max(s)}], w[Max(s)])
           Fold(g, m) == g = [s \in SUBSET (1..m) |-> F(g, s)]
           iter == CHOOSE g : g = [s \in SUBSET DOMAIN w |-> F(g, s)]
<1>1. n \in Nat /\ DOMAIN w = 1..n /\ \A i \in 1..n : w[i] \in Seq(T)
  OBVIOUS
<1>2. WantedSlots(ls, cls) = iter[DOMAIN w]
  BY DEF WantedSlots, FoldLeft, MapThenFoldSet
<1>n. n \in Nat
  BY <1>1
<1> HIDE DEF w, n
<1>3. \A g, s : s # {} => F(g, s) = Join(g[s \ {Max(s)}], w[Max(s)])
  OBVIOUS
<1>4. \A g : F(g, {}) = <<>>
  OBVIOUS
<1>5. \A g, h, s : (s # {} => g[s \ {Max(s)}] = h[s \ {Max(s)}]) => F(g, s) = F(h, s)
  OBVIOUS
<1>6. \A m \in Nat : \A s \in SUBSET (1..(m+1)) : s # {} => s \ {Max(s)} \in SUBSET (1..m)
  <2> SUFFICES ASSUME NEW m \in Nat, NEW s \in SUBSET (1..(m+1)), s # {}, NEW i \in s, i # Max(s)
               PROVE  i \in 1..m
    OBVIOUS
  <2>1. m + 1 \in Nat
    OBVIOUS
  <2>2. Max(s) \in s /\ i <= Max(s)
    BY <2>1, MaxOf
  <2>3. i \in 1..(m+1) /\ Max(s) \in 1..(m+1)
    BY <2>2
  <2> QED BY <2>2, <2>3
<1> HIDE DEF F, Join
<1>7. \A m \in Nat : \E g : Fold(g, m)
  <2> DEFINE S == {m \in Nat : \E g : Fold(g, m)}
  <2>1. 0 \in S
    <3> DEFINE g == [s \in SUBSET (1..0) |-> <<>>]
    <3>1. SUBSET (1..0) = {{}}
      OBVIOUS
    <3>2. Fold(g, 0)
      BY <1>4, <3>1
    <3> QED BY <3>2
  <2>2. ASSUME NEW m \in Nat, m \in S PROVE m + 1 \in S
    <3>1. PICK g : Fold(g, m)
      BY <2>2
    <3> DEFINE h == [s \in SUBSET (1..(m+1)) |-> F(g, s)]
    <3>2. \A s \in SUBSET (1..m) : g[s] = F(g, s)
      BY <3>1
    <3>3. \A s \in SUBSET (1..m) : h[s] = g[s]
      <4>1. \A s \in SUBSET (1..m) : s \in SUBSET (1..(m+1))
        OBVIOUS
      <4> QED BY <4>1, <3>2
    <3>4. ASSUME NEW s \in SUBSET (1..(m+1)) PROVE F(g, s) = F(h, s)
      <4>1. s # {} => g[s \ {Max(s)}] = h[s \ {Max(s)}]
        BY <1>6, <3>3
      <4> HIDE DEF h
      <4> QED BY <4>1, <1>5
    <3>5. Fold(h, m + 1)
      BY <3>4
    <3>6. m + 1 \in Nat
      OBVIOUS
    <3> HIDE DEF h, Fold
    <3> QED BY <3>5, <3>6
  <2> HIDE DEF S
  <2>3. Nat \subseteq S
    BY <2>1, <2>2, Induction
  <2> QED BY <2>3 DEF S
<1>8. iter = [s \in SUBSET (1..n) |-> F(iter, s)]
  BY <1>1, <1>7
<1> HIDE DEF iter
<1>9. \A m \in Nat : m <= n => \A s \in SUBSET (1..m) : iter[s] \in Seq(T)
  <2> DEFINE S == {m \in Nat : m <= n => \A s \in SUBSET (1..m) : iter[s] \in Seq(T)}
  <2>0. \A m \in Nat : m <= n => \A s \in SUBSET (1..m) : iter[s] = F(iter, s)
    <3>1. \A m \in Nat : m <= n => \A s \in SUBSET (1..m) : s \in SUBSET (1..n)
      BY <1>1
    <3> QED BY <3>1, <1>8
  <2>1. 0 \in S
    <3>1. SUBSET (1..0) = {{}} /\ 0 <= n
      BY <1>1
    <3>2. iter[{}] = F(iter, {})
      BY <2>0, <3>1
    <3>3. iter[{}] = <<>>
      BY <3>2, <1>4
    <3>4. iter[{}] \in Seq(T)
      BY <3>3
    <3> QED BY <3>1, <3>4
  <2>2. ASSUME NEW m \in Nat, m \in S PROVE m + 1 \in S
    <3>0. m + 1 \in Nat
      OBVIOUS
    <3>1. ASSUME m + 1 <= n, NEW s \in SUBSET (1..(m+1)) PROVE iter[s] \in Seq(T)
      <4>0. iter[s] = F(iter, s)
        BY <2>0, <3>0, <3>1
      <4>1. CASE s = {}
        <5>1. iter[s] = <<>>
          BY <4>0, <4>1, <1>4
        <5> QED BY <5>1
      <4>2. CASE s # {}
        <5>0. m <= n
          BY <1>n, <3>1
        <5>1. s \ {Max(s)} \in SUBSET (1..m)
          BY <1>6, <4>2
        <5>2. iter[s \ {Max(s)}] \in Seq(T)
          BY <5>0, <5>1, <2>2
        <5>3. Max(s) \in s
          BY MaxOf, <3>0, <4>2
        <5>4. Max(s) \in 1..n
          <6>1. Max(s) \in 1..(m+1)
            BY <5>3
          <6> QED BY <6>1, <3>1, <1>n
        <5>5. w[Max(s)] \in Seq(T)
          BY <1>1, <5>4
        <5>6. iter[s] = Join(iter[s \ {Max(s)}], w[Max(s)])
          BY <4>0, <4>2, <1>3
        <5> QED BY <5>2, <5>5, <5>6 DEF Join
      <4> QED BY <4>1, <4>2
    <3> QED BY <3>0, <3>1
  <2> HIDE DEF S
  <2>3. Nat \subseteq S
    BY <2>1, <2>2, Induction
  <2> QED BY <2>3 DEF S
<1>10. iter[1..n] \in Seq(T)
  BY <1>n, <1>9
<1> QED BY <1>1, <1>2, <1>10

-----------------------------------------------------------------------------
(* Links. *)

(* A link as TypeOK and Attributed want it. *)
GoodLink(l) ==
    /\ l \in Link
    /\ l.active \in DOMAIN l.data
    /\ \A k \in DOMAIN l.data :
          /\ k < l.active => l.data[k].checked
          /\ l.data[k].checked => k <= l.active
GoodLinks(ls) == ls \in Seq(Link) /\ \A i \in DOMAIN ls : GoodLink(ls[i])

(* m is l after a record was made of an assignment. *)
Noted(l, m) ==
    /\ m.active = l.active
    /\ DOMAIN m.data = DOMAIN l.data
    /\ \A k \in DOMAIN l.data :
          /\ m.data[k].type = l.data[k].type
          /\ m.data[k].cls = l.data[k].cls
          /\ m.data[k].slot = l.data[k].slot
          /\ l.data[k].checked => m.data[k].checked
NotedAll(ls, ms) ==
    /\ GoodLinks(ms)
    /\ DOMAIN ms = DOMAIN ls
    /\ \A i \in DOMAIN ls : Noted(ls[i], ms[i])

(* m is a later state of l. *)
Follows(l, m) ==
    /\ m.active \in {l.active, l.active + 1}
    /\ \A k \in DOMAIN l.data : l.data[k].checked => m.data[k].checked

LEMMA LinkParts ==
    ASSUME NEW l \in Link
    PROVE  /\ l.active \in Nat \ {0}
           /\ l.data \in Seq(Element)
           /\ Len(l.data) \in Nat /\ DOMAIN l.data = 1..Len(l.data)
           /\ \A k \in DOMAIN l.data : l.data[k] \in Element
BY DEF Link

LEMMA GoodLinksIs ==
    ASSUME links \in Seq(Link)
    PROVE  GoodLinks(links) <=> /\ \A i \in DOMAIN links : links[i].active \in DOMAIN links[i].data
                                /\ Attributed
<1>1. \A i \in DOMAIN links : links[i] \in Link
  OBVIOUS
<1> QED BY <1>1 DEF Attributed, GoodLinks, GoodLink

LEMMA GoodLinksDomain ==
    ASSUME NEW ls, GoodLinks(ls)
    PROVE  /\ Len(ls) \in Nat /\ DOMAIN ls = 1..Len(ls)
           /\ \A i \in DOMAIN ls : GoodLink(ls[i]) /\ ls[i] \in Link
BY DEF GoodLinks

LEMMA NotedSelf ==
    ASSUME NEW ls, GoodLinks(ls)
    PROVE  NotedAll(ls, ls)
BY DEF NotedAll, Noted

LEMMA NotedTwice ==
    ASSUME NEW ls, NEW ms, NEW ns, NotedAll(ls, ms), NotedAll(ms, ns)
    PROVE  NotedAll(ls, ns)
BY DEF NotedAll, Noted

(* Recording at the active element keeps a link good. *)
LEMMA CheckLink ==
    ASSUME NEW l, GoodLink(l)
    PROVE  LET m == [l EXCEPT !.data[l.active].checked = TRUE]
           IN  GoodLink(m) /\ Noted(l, m)
<1> DEFINE e == [l.data[l.active] EXCEPT !.checked = TRUE]
           d == [l.data EXCEPT ![l.active] = e]
           m == [l EXCEPT !.data[l.active].checked = TRUE]
<1>1. /\ l \in Link /\ l.active \in DOMAIN l.data /\ l.active \in Nat \ {0}
      /\ l.data \in Seq(Element)
      /\ DOMAIN l.data = 1..Len(l.data) /\ Len(l.data) \in Nat
      /\ \A k \in DOMAIN l.data : l.data[k] \in Element
  BY LinkParts DEF GoodLink
<1>2. e \in Element /\ e.checked /\ e.type = l.data[l.active].type
      /\ e.cls = l.data[l.active].cls /\ e.slot = l.data[l.active].slot
  BY <1>1 DEF Element
<1>3. m = [l EXCEPT !.data = d]
  OBVIOUS
<1> HIDE DEF e
<1>4. d \in Seq(Element) /\ DOMAIN d = DOMAIN l.data
      /\ d[l.active] = e /\ \A k \in DOMAIN l.data : k # l.active => d[k] = l.data[k]
  BY <1>1, <1>2
<1> HIDE DEF d
<1>5. m \in Link /\ m.active = l.active /\ m.data = d
  BY <1>1, <1>3, <1>4 DEF Link
<1> HIDE DEF m
<1>6. GoodLink(m)
  BY <1>1, <1>2, <1>4, <1>5 DEF GoodLink
<1>7. Noted(l, m)
  BY <1>1, <1>2, <1>4, <1>5 DEF Noted
<1> QED BY <1>6, <1>7 DEF m

LEMMA CheckKeeps ==
    ASSUME NEW ls, GoodLinks(ls), NEW f \in DOMAIN ls
    PROVE  NotedAll(ls, Check(ls, f))
<1> DEFINE m == [ls[f] EXCEPT !.data[ls[f].active].checked = TRUE]
<1>1. ls \in Seq(Link) /\ \A i \in DOMAIN ls : GoodLink(ls[i])
  BY DEF GoodLinks
<1>2. GoodLink(m) /\ Noted(ls[f], m)
  BY <1>1, CheckLink
<1>3. m \in Link
  BY <1>2 DEF GoodLink
<1>4. Check(ls, f) = [ls EXCEPT ![f] = m]
  BY DEF Check
<1> HIDE DEF m
<1>5. /\ Check(ls, f) \in Seq(Link) /\ DOMAIN Check(ls, f) = DOMAIN ls
      /\ Check(ls, f)[f] = m
      /\ \A i \in DOMAIN ls : i # f => Check(ls, f)[i] = ls[i]
  BY <1>1, <1>3, <1>4
<1> QED BY <1>1, <1>2, <1>5 DEF NotedAll, GoodLinks, Noted

(* A link moves on past an element only when it is checked. *)
LEMMA AdvanceKeeps ==
    ASSUME NEW l, GoodLink(l)
    PROVE  /\ GoodLink(Advance(l)) /\ Follows(l, Advance(l))
<1>1. /\ l \in Link /\ l.active \in DOMAIN l.data /\ l.active \in Nat \ {0}
      /\ DOMAIN l.data = 1..Len(l.data) /\ Len(l.data) \in Nat
  BY LinkParts DEF GoodLink
<1>2. CASE Watched(l) /\ ActiveElement(l).checked
  <2> DEFINE m == [l EXCEPT !.active = @ + 1]
  <2>1. Advance(l) = m
    BY <1>2 DEF Advance
  <2>2. m \in Link /\ m.active = l.active + 1 /\ m.data = l.data
    BY <1>1 DEF Link
  <2> HIDE DEF m
  <2> QED BY <1>1, <1>2, <2>1, <2>2 DEF GoodLink, Follows, Watched, ActiveElement
<1>3. CASE ~(Watched(l) /\ ActiveElement(l).checked)
  BY <1>3 DEF Advance, Follows
<1> QED BY <1>2, <1>3

(* What a path remembers of an object that is not free. *)
PathKind == [type : KindTypes, cls : Classes \cup {NIL}]

LEMMA NewLinkGood ==
    ASSUME NEW kinds \in Seq(PathKind), kinds # <<>>,
           NEW fields \in Seq(Slots)
    PROVE  GoodLink(NewLink(kinds, fields))
<1> DEFINE E(i) == [type |-> kinds[i].type, cls |-> kinds[i].cls, checked |-> FALSE,
                    slot |-> IF i \in DOMAIN fields THEN fields[i] ELSE 0]
           d == [i \in DOMAIN kinds |-> E(i)]
           m == NewLink(kinds, fields)
<1>1. DOMAIN kinds = 1..Len(kinds) /\ Len(kinds) \in Nat /\ Len(kinds) # 0
  OBVIOUS
<1>2. ASSUME NEW i \in DOMAIN kinds PROVE E(i) \in Element /\ ~E(i).checked
  <2>1. kinds[i] \in PathKind
    OBVIOUS
  <2>2. kinds[i].type \in KindTypes /\ kinds[i].cls \in Classes \cup {NIL}
    BY <2>1 DEF PathKind
  <2>3. (IF i \in DOMAIN fields THEN fields[i] ELSE 0) \in Slots
    BY DEF Slots
  <2> QED BY <2>2, <2>3 DEF Element
<1> HIDE DEF E
<1>3. /\ d \in Seq(Element) /\ DOMAIN d = 1..Len(kinds)
      /\ \A i \in DOMAIN d : ~d[i].checked
  BY <1>1, <1>2
<1>4. m = [active |-> 1, data |-> d]
  BY DEF NewLink, E
<1> HIDE DEF d
<1>5. m \in Link /\ m.active = 1 /\ m.data = d
  BY <1>3, <1>4 DEF Link
<1> HIDE DEF m
<1>6. GoodLink(m)
  BY <1>1, <1>3, <1>5 DEF GoodLink
<1> QED BY <1>6 DEF m

(* What a class waits for does not depend on what is checked. *)
LEMMA NotedWanted ==
    ASSUME NEW ls, NEW ms, GoodLinks(ls), NotedAll(ls, ms), NEW k
    PROVE  WantedSlots(ms, k) = WantedSlots(ls, k)
<1>1. DOMAIN ls = DOMAIN ms
  BY DEF NotedAll
<1>2. ASSUME NEW i \in DOMAIN ls
      PROVE  /\ Watched(ms[i]) <=> Watched(ls[i])
             /\ ActiveElement(ms[i]).type = ActiveElement(ls[i]).type
             /\ ActiveElement(ms[i]).cls = ActiveElement(ls[i]).cls
             /\ ActiveElement(ms[i]).slot = ActiveElement(ls[i]).slot
  <2>1. Noted(ls[i], ms[i]) /\ GoodLink(ls[i]) /\ ls[i] \in Link /\ ms[i] \in Link
    BY GoodLinksDomain, <1>1 DEF NotedAll
  <2>2. Len(ms[i].data) = Len(ls[i].data)
    BY <2>1, LinkParts DEF Noted
  <2>3. ms[i].active = ls[i].active /\ ls[i].active \in DOMAIN ls[i].data
    BY <2>1 DEF Noted, GoodLink
  <2> QED BY <2>1, <2>2, <2>3 DEF Noted, Watched, ActiveElement
<1>3. SlotsWaited(ms, k) = SlotsWaited(ls, k)
  BY <1>1, <1>2 DEF SlotsWaited
<1> QED BY <1>3 DEF WantedSlots

LEMMA WantedIs ==
    ASSUME NEW ls, GoodLinks(ls), NEW k
    PROVE  WantedSlots(ls, k) \in Seq(Slots)
<1>1. Len(ls) \in Nat /\ DOMAIN ls = 1..Len(ls)
  BY GoodLinksDomain
<1>2. ASSUME NEW i \in DOMAIN ls PROVE ActiveElement(ls[i]).slot \in Slots
  <2>1. GoodLink(ls[i]) /\ ls[i] \in Link
    BY GoodLinksDomain
  <2>2. ls[i].data[ls[i].active] \in Element
    BY <2>1, LinkParts DEF GoodLink
  <2> QED BY <2>2 DEF ActiveElement, Element
<1>3. SlotsWaited(ls, k) \in Seq(Seq(Slots))
  BY <1>1, <1>2 DEF SlotsWaited
<1> QED BY <1>3, WantedType

-----------------------------------------------------------------------------
(* Chains of struct definitions. *)

(* A chain with one active definition. *)
GoodChain(c) ==
    /\ c \in Seq(StructDef)
    /\ \E n \in DOMAIN c : \A i \in DOMAIN c : c[i].active <=> i = n

(* d is a later state of c: definitions stay, with their slots. *)
Extends(c, d) ==
    /\ DOMAIN c \subseteq DOMAIN d
    /\ \A i \in DOMAIN c : d[i].slots = c[i].slots

LEMMA GoodChainActive ==
    ASSUME NEW c, GoodChain(c)
    PROVE  /\ Len(c) \in Nat /\ DOMAIN c = 1..Len(c) /\ c # <<>>
           /\ ActiveDef(c) \in DOMAIN c
           /\ \A i \in DOMAIN c : c[i] \in StructDef
           /\ \A i \in DOMAIN c : c[i].active <=> i = ActiveDef(c)
<1>1. c \in Seq(StructDef) /\ Len(c) \in Nat /\ DOMAIN c = 1..Len(c)
  BY DEF GoodChain
<1>2. PICK n \in DOMAIN c : \A i \in DOMAIN c : c[i].active <=> i = n
  BY DEF GoodChain
<1>3. ActiveDef(c) # 0
  BY <1>1, <1>2, ActiveDefIs
<1>4. ActiveDef(c) = n
  BY <1>1, <1>2, <1>3, ActiveDefIs
<1> QED BY <1>1, <1>2, <1>4

LEMMA OneActive ==
    ASSUME NEW c \in Seq(StructDef)
    PROVE  GoodChain(c) <=> Cardinality({i \in DOMAIN c : c[i].active}) = 1
<1> DEFINE A == {i \in DOMAIN c : c[i].active}
<1>1. IsFiniteSet(DOMAIN c)
  <2>1. Len(c) \in Nat /\ DOMAIN c = 1..Len(c)
    OBVIOUS
  <2> QED BY <2>1, FS_Interval
<1>2. IsFiniteSet(A)
  BY <1>1, FS_Subset
<1>3. Cardinality(A) = 1 <=> \E n : A = {n}
  BY <1>2, FS_Singleton
<1>4. GoodChain(c) <=> \E n : A = {n}
  <2> DEFINE Only(n) == n \in DOMAIN c /\ \A i \in DOMAIN c : c[i].active <=> i = n
  <2>1. \A n : A = {n} <=> Only(n)
    <3>1. \A i \in DOMAIN c : c[i].active \in BOOLEAN
      <4>1. \A i \in DOMAIN c : c[i] \in StructDef
        OBVIOUS
      <4> QED BY <4>1 DEF StructDef
    <3> QED BY <3>1
  <2>2. GoodChain(c) <=> \E n : Only(n)
    BY DEF GoodChain
  <2> HIDE DEF A, Only
  <2> QED BY <2>1, <2>2
<1> QED BY <1>3, <1>4

(* UpdateChain keeps one definition active, the one with the slots. *)
LEMMA UpdateChainIs ==
    ASSUME NEW c, GoodChain(c), NEW slots \in Seq(Slots)
    PROVE  LET d == UpdateChain(c, slots)
           IN  GoodChain(d) /\ Extends(c, d) /\ d[ActiveDef(d)].slots = slots
<1> DEFINE a == ActiveDef(c)
           f == FindDef(c, slots)
           x == [c[a] EXCEPT !.active = FALSE]
           e == [c EXCEPT ![a] = x]
           d == UpdateChain(c, slots)
<1>1. /\ c \in Seq(StructDef) /\ Len(c) \in Nat /\ DOMAIN c = 1..Len(c) /\ c # <<>>
      /\ a \in DOMAIN c
      /\ \A i \in DOMAIN c : c[i] \in StructDef
      /\ \A i \in DOMAIN c : c[i].active <=> i = a
  BY GoodChainActive DEF GoodChain
<1>2. d = IF f # 0 THEN [e EXCEPT ![f].active = TRUE]
          ELSE Append(e, [slots |-> slots, active |-> TRUE])
  BY DEF UpdateChain
<1>3. f # 0 => f \in DOMAIN c /\ c[f].slots = slots
  <2>1. f # 0 => f \in 1..(Len(c) - 1) /\ c[f].slots = slots
    BY <1>1, FindDefIs
  <2> QED BY <2>1, <1>1
<1> HIDE DEF a, f, d
<1>4. x \in StructDef /\ ~x.active /\ x.slots = c[a].slots
  BY <1>1 DEF StructDef
<1> HIDE DEF x
<1>5. /\ e \in Seq(StructDef) /\ DOMAIN e = DOMAIN c /\ Len(e) = Len(c)
      /\ \A i \in DOMAIN c : e[i] \in StructDef
      /\ \A i \in DOMAIN c : e[i].slots = c[i].slots
      /\ \A i \in DOMAIN c : ~e[i].active
  <2>1. e \in Seq(StructDef) /\ DOMAIN e = DOMAIN c /\ Len(e) = Len(c)
    BY <1>1, <1>4
  <2>2. e[a] = x /\ \A i \in DOMAIN c : i # a => e[i] = c[i]
    BY <1>1
  <2> HIDE DEF e
  <2> QED BY <1>1, <1>4, <2>1, <2>2
<1> HIDE DEF e
<1>6. \E n \in DOMAIN d : /\ d \in Seq(StructDef) /\ Extends(c, d)
                          /\ d[n].slots = slots
                          /\ \A i \in DOMAIN d : d[i].active <=> i = n
  <2>1. CASE f # 0
    <3> DEFINE y == [e[f] EXCEPT !.active = TRUE]
    <3>1. d = [e EXCEPT ![f] = y]
      BY <1>2, <2>1
    <3>2. y \in StructDef /\ y.active /\ y.slots = c[f].slots
      BY <1>3, <1>5, <2>1 DEF StructDef
    <3> HIDE DEF y
    <3>3. /\ d \in Seq(StructDef) /\ DOMAIN d = DOMAIN c
          /\ d[f] = y /\ \A i \in DOMAIN c : i # f => d[i] = e[i]
      BY <1>3, <1>5, <2>1, <3>1, <3>2
    <3>4. Extends(c, d)
      BY <1>5, <3>2, <3>3 DEF Extends
    <3>5. d[f].slots = slots /\ \A i \in DOMAIN d : d[i].active <=> i = f
      BY <1>3, <1>5, <2>1, <3>2, <3>3
    <3> QED BY <1>3, <2>1, <3>3, <3>4, <3>5
  <2>2. CASE f = 0
    <3> DEFINE y == [slots |-> slots, active |-> TRUE]
    <3>1. d = Append(e, y)
      BY <1>2, <2>2
    <3>2. y \in StructDef /\ y.active /\ y.slots = slots
      BY DEF StructDef
    <3> HIDE DEF y
    <3>3. /\ d \in Seq(StructDef) /\ DOMAIN d = 1..(Len(c) + 1)
          /\ d[Len(c) + 1] = y /\ \A i \in DOMAIN c : d[i] = e[i]
      BY <1>1, <1>5, <3>1, <3>2
    <3>4. Extends(c, d)
      BY <1>1, <1>5, <3>3 DEF Extends
    <3>5. \A i \in DOMAIN d : d[i].active <=> i = Len(c) + 1
      BY <1>1, <1>5, <3>2, <3>3
    <3> QED BY <1>1, <3>2, <3>3, <3>4, <3>5
  <2> QED BY <2>1, <2>2
<1>7. PICK n \in DOMAIN d : /\ d \in Seq(StructDef) /\ Extends(c, d)
                           /\ d[n].slots = slots
                           /\ \A i \in DOMAIN d : d[i].active <=> i = n
  BY <1>6
<1>8. GoodChain(d)
  BY <1>7 DEF GoodChain
<1>9. ActiveDef(d) = n
  BY <1>7, <1>8, GoodChainActive
<1> QED BY <1>7, <1>8, <1>9 DEF d

-----------------------------------------------------------------------------
(* The inductive invariant. *)

Live == {o \in Objs : obj[o].type # "free"}
Pending == {w.ptr : w \in ToSet(work)}

Phases == pc = "run" => work = <<>> /\ roots = {} /\ marked = {}

Sorts ==
    /\ \A g \in Symbols : obj[g].type = "symbol" /\ obj[g].dead = "no"
    /\ \A c \in Cells : obj[c].type # "symbol"
    /\ \A o \in Objs : obj[o].type \in Structs => obj[o].cls \in Classes

Contained ==
    /\ locals \subseteq Live
    /\ \A o \in Objs : \A s \in Slots :
          obj[o].ref[s] # NIL => s \in SlotsOf(obj[o].type) /\ obj[o].ref[s] \in Live

Reaching == pc = "mark" =>
    /\ roots \cup marked \cup Pending \subseteq Live
    /\ \A w \in ToSet(work) : \A i \in DOMAIN w.path : w.path[i] \in Live
    /\ \A o \in marked : \A s \in Slots : obj[o].ref[s] \in marked \cup Pending \cup {NIL}
    /\ locals \cup Symbols \subseteq marked \cup roots \cup Pending

Reported == pc = "mark" => \A o \in marked : obj[o].dead # "has"

Flags ==
    /\ \A c \in Cells :
          /\ obj[c].dead = "has" => obj[c].at \in Assertions /\ callInfo[obj[c].at] = "rough"
          /\ obj[c].dead = "had" => obj[c].at \in Assertions /\ callInfo[obj[c].at] = "detailed"
    /\ \A ln \in Assertions :
          /\ callInfo[ln] = "rough" => \E c \in Cells : obj[c].dead = "has" /\ obj[c].at = ln
          /\ callInfo[ln] = "detailed" => \E c \in Cells : obj[c].dead = "had" /\ obj[c].at = ln
    /\ \A c, d \in Cells : obj[c].dead # "no" /\ obj[d].dead # "no" /\ obj[c].at = obj[d].at => c = d

Ready == pc \in {"run", "mark"} =>
    \A k \in Classes :
       WantedSlots(links, k) # <<>> =>
          chains[k][ActiveDef(chains[k])].slots = WantedSlots(links, k)

(* A call of gc_mark with a path, which its field leads on from. *)
Fits(w) ==
    /\ Len(w.fields) = IF w.path = <<>> THEN 0 ELSE Len(w.path) - 1
    /\ \A i \in DOMAIN w.fields : Leads(w.path[i], w.fields[i], w.path[i + 1])
    /\ w.path # <<>> => Leads(w.path[Len(w.path)], w.via, w.ptr)

Paths == \A w \in ToSet(work) : Fits(w)

Heap == Phases /\ Sorts /\ Contained /\ Reaching
Typing == TypeOK /\ Attributed /\ DefsSound
IInv == Typing /\ Heap /\ Reported /\ Flags /\ Ready /\ Paths

-----------------------------------------------------------------------------
(* What the actions do, as far as the invariant goes. *)

LEMMA Parts ==
    ASSUME Typing
    PROVE  /\ obj \in [Objs -> Object]
           /\ locals \subseteq Objs /\ roots \subseteq Objs /\ marked \subseteq Objs
           /\ GoodLinks(links) /\ links \in Seq(Link)
           /\ chains \in [Classes -> Seq(StructDef)]
           /\ \A k \in Classes : GoodChain(chains[k])
           /\ callInfo \in [Assertions -> {"none", "rough", "detailed"}]
           /\ work \in Seq(Call)
           /\ pc \in {"run", "mark", "fatal", "crash"}
<1>1. /\ obj \in [Objs -> Object]
      /\ locals \subseteq Objs /\ roots \subseteq Objs /\ marked \subseteq Objs
      /\ links \in Seq(Link)
      /\ chains \in [Classes -> Seq(StructDef)]
      /\ callInfo \in [Assertions -> {"none", "rough", "detailed"}]
      /\ work \in Seq(Call)
      /\ pc \in {"run", "mark", "fatal", "crash"}
  BY DEF Typing, TypeOK
<1>2. GoodLinks(links)
  BY <1>1, GoodLinksIs DEF Typing, TypeOK
<1>3. \A k \in Classes : GoodChain(chains[k])
  BY <1>1, OneActive DEF Typing, DefsSound
<1> QED BY <1>1, <1>2, <1>3

LEMMA ObjectParts ==
    ASSUME NEW n \in Object
    PROVE  /\ n.type \in KindTypes \cup {"free"} /\ n.cls \in Classes \cup {NIL}
           /\ n.def \in Nat /\ n.external \in BOOLEAN
           /\ n.ref \in [Slots -> Ref] /\ n.site \in [Slots -> SiteValues]
           /\ n.recorded \in BOOLEAN /\ n.dead \in {"no", "has", "had"}
           /\ n.at \in Assertions \cup {0}
BY DEF Object

(* Two objects of the same kind, up to what an assignment changes. *)
SameSort(n, o) == /\ n.type = o.type /\ n.cls = o.cls /\ n.def = o.def
                  /\ n.external = o.external
SameFlag(n, o) == n.dead = o.dead /\ n.at = o.at

Put(o, n) == n \in Object /\ obj' = [obj EXCEPT ![o] = n]

LEMMA PutIs ==
    ASSUME obj \in [Objs -> Object], NEW o \in Objs, NEW n, Put(o, n)
    PROVE  /\ obj' \in [Objs -> Object] /\ obj'[o] = n
           /\ \A p \in Objs : p # o => obj'[p] = obj[p]
BY DEF Put

LEMMA FocusedIs ==
    ASSUME NEW ls, GoodLinks(ls), NEW d, NEW s, NEW v, Focused(d, s, v, ls) # 0
    PROVE  Focused(d, s, v, ls) \in DOMAIN ls
<1>1. Len(ls) \in Nat /\ DOMAIN ls = 1..Len(ls)
  BY GoodLinksDomain
<1>2. Focused(d, s, v, ls) = FocusLink(ls, d, FieldIndex(d.type, s), KindOrNil(SkipInternal(v)))
  BY DEF Focused
<1> QED BY <1>1, <1>2, FocusLinkIs

(* An assignment, whether it reaches the object or only its lines. *)
Stored(o, s, v) ==
    /\ pc = "run" /\ pc' \in {"run", "crash"}
    /\ s \in SlotsOf(obj[o].type)
    /\ \E n : /\ Put(o, n) /\ SameSort(n, obj[o]) /\ SameFlag(n, obj[o])
              /\ n.ref \in {obj[o].ref, [obj[o].ref EXCEPT ![s] = v]}
    /\ NotedAll(links, links')
    /\ UNCHANGED <<locals, chains, callInfo, work, roots, marked, gcFor>>

LEMMA AssignStores ==
    ASSUME Typing, NEW o \in Objs, NEW s \in Slots, NEW v \in Ref, NEW ln \in Lines,
           Assign(o, s, v, ln)
    PROVE  Stored(o, s, v)
<1>1. /\ obj \in [Objs -> Object] /\ GoodLinks(links)
  BY Parts
<1> DEFINE f == Focused(Kind(o), s, v, links)
           noted == f # 0 /\ KeepsLine(o, s)
           new == [obj[o] EXCEPT !.ref[s] = v]
           n == IF noted THEN [new EXCEPT !.site[s] = ln, !.recorded = TRUE] ELSE new
<1>2. obj[o] \in Object /\ ln \in SiteValues
  BY <1>1 DEF SiteValues
<1>3. /\ new \in Object /\ SameSort(new, obj[o]) /\ SameFlag(new, obj[o])
      /\ new.ref = [obj[o].ref EXCEPT ![s] = v]
  BY <1>2 DEF Object, SameSort, SameFlag
<1> HIDE DEF new
<1>4. /\ n \in Object /\ SameSort(n, new) /\ SameFlag(n, new) /\ n.ref = new.ref
  BY <1>2, <1>3 DEF Object, SameSort, SameFlag
<1>5. obj' = [obj EXCEPT ![o] = n]
  BY DEF Assign, new
<1>6. NotedAll(links, links')
  <2>1. links' = IF noted THEN Check(links, f) ELSE links
    BY DEF Assign
  <2>2. noted => f \in DOMAIN links
    BY <1>1, FocusedIs
  <2> QED BY <1>1, <2>1, <2>2, CheckKeeps, NotedSelf
<1>7. /\ pc = "run" /\ pc' \in {"run", "crash"} /\ s \in SlotsOf(obj[o].type)
      /\ UNCHANGED <<locals, chains, callInfo, work, roots, marked, gcFor>>
  BY DEF Assign
<1> HIDE DEF n, noted
<1>8. /\ Put(o, n) /\ SameSort(n, obj[o]) /\ SameFlag(n, obj[o])
      /\ n.ref \in {obj[o].ref, [obj[o].ref EXCEPT ![s] = v]}
  BY <1>3, <1>4, <1>5 DEF Put, SameSort, SameFlag
<1> QED BY <1>6, <1>7, <1>8 DEF Stored

LEMMA SetLocalStores ==
    ASSUME Typing, Sorts, NEW g \in Symbols, NEW v \in Ref, NEW ln \in Lines,
           SetLocal(g, v, ln)
    PROVE  Stored(g, 0, v)
<1>1. /\ obj \in [Objs -> Object] /\ GoodLinks(links) /\ g \in Objs /\ 0 \in Slots
  BY Parts DEF Objs, Slots
<1> DEFINE f == Focused(Kind(g), 0, v, links)
           m == [obj[g] EXCEPT !.site[0] = ln, !.recorded = TRUE]
           n == IF f # 0 THEN m ELSE obj[g]
<1>2. obj[g] \in Object /\ ln \in SiteValues
  BY <1>1 DEF SiteValues
<1>3. /\ m \in Object /\ SameSort(m, obj[g]) /\ SameFlag(m, obj[g]) /\ m.ref = obj[g].ref
  BY <1>1, <1>2 DEF Object, SameSort, SameFlag
<1>4. /\ links' = IF f # 0 THEN Check(links, f) ELSE links
      /\ obj' = IF f # 0 THEN [obj EXCEPT ![g].site[0] = ln, ![g].recorded = TRUE] ELSE obj
  BY DEF SetLocal
<1>5. obj' = [obj EXCEPT ![g] = n]
  <2>1. CASE f # 0
    <3>1. obj' = [obj EXCEPT ![g] = m]
      BY <1>1, <1>2, <1>4, <2>1 DEF Object
    <3> QED BY <2>1, <3>1
  <2>2. CASE f = 0
    BY <1>1, <1>4, <2>2
  <2> QED BY <2>1, <2>2
<1>6. NotedAll(links, links')
  BY <1>1, <1>4, FocusedIs, CheckKeeps, NotedSelf
<1>7. /\ pc = "run" /\ pc' \in {"run", "crash"}
      /\ UNCHANGED <<locals, chains, callInfo, work, roots, marked, gcFor>>
  BY DEF SetLocal
<1>8. 0 \in SlotsOf(obj[g].type)
  BY DEF Sorts, SlotsOf
<1> HIDE DEF m
<1>9. /\ n \in Object /\ SameSort(n, obj[g]) /\ SameFlag(n, obj[g]) /\ n.ref = obj[g].ref
  BY <1>2, <1>3 DEF SameSort, SameFlag
<1> HIDE DEF n
<1>10. Put(g, n)
  BY <1>5, <1>9 DEF Put
<1> QED BY <1>6, <1>7, <1>8, <1>9, <1>10 DEF Stored

(* A free cell becomes a cons of x and y or an instance. *)
IsCons(n, x, y) ==
    /\ n.type = "cons" /\ n.ref = [s \in Slots |-> IF s = 0 THEN x ELSE y]
IsInstance(n, c) ==
    /\ n.type \in Structs /\ n.ref = obj[c].ref
    /\ n.cls \in Classes /\ n.def = ActiveDef(chains[n.cls])
    /\ n.type = "struct_instance_with_rec" <=> chains[n.cls][n.def].slots # <<>>
Created(c, x, y) ==
    /\ pc = "run" /\ pc' \in {"run", "crash"}
    /\ obj[c].type = "free"
    /\ \E n : /\ Put(c, n) /\ SameFlag(n, obj[c])
              /\ IsCons(n, x, y) \/ IsInstance(n, c)
    /\ locals' = locals \cup {c}
    /\ NotedAll(links, links')
    /\ UNCHANGED <<chains, callInfo, work, roots, marked, gcFor>>

LEMMA NewStructCreates ==
    ASSUME Typing, NEW c \in Cells, NEW k \in Classes, NEW sites \in [Slots -> Garbage],
           NewStruct(c, k, sites)
    PROVE  Created(c, NIL, NIL)
<1>1. /\ obj \in [Objs -> Object] /\ GoodLinks(links) /\ c \in Objs /\ GoodChain(chains[k])
  BY Parts DEF Objs
<1> DEFINE d == ActiveDef(chains[k])
           rec == chains[k][d].slots # <<>>
           n == [obj[c] EXCEPT
                    !.type = IF rec THEN "struct_instance_with_rec" ELSE "struct_instance",
                    !.cls = k, !.def = d, !.site = IF rec THEN sites ELSE NoSites]
<1>2. obj[c] \in Object
  BY <1>1
<1>3. d \in Nat
  <2>1. Len(chains[k]) \in Nat /\ d \in 1..Len(chains[k])
    BY <1>1, GoodChainActive
  <2> QED BY <2>1
<1>4. (IF rec THEN sites ELSE NoSites) \in [Slots -> SiteValues]
  <2>1. sites \in [Slots -> SiteValues]
    BY DEF SiteValues
  <2>2. NoSites \in [Slots -> SiteValues]
    BY DEF NoSites, SiteValues
  <2> QED BY <2>1, <2>2
<1>5. {"struct_instance", "struct_instance_with_rec"} \subseteq KindTypes \cup {"free"}
  BY DEF KindTypes, Structs
<1>6. NewCell(c, n)
  BY DEF NewStruct
<1> HIDE DEF d
<1>7. /\ n \in Object /\ SameFlag(n, obj[c]) /\ n.ref = obj[c].ref /\ n.cls = k /\ n.def = d
      /\ n.type = IF rec THEN "struct_instance_with_rec" ELSE "struct_instance"
  BY <1>2, <1>3, <1>4, <1>5 DEF Object, SameFlag
<1> HIDE DEF n
<1>8. IsInstance(n, c)
  BY <1>7 DEF IsInstance, Structs, d
<1>9. /\ pc = "run" /\ pc' = "run" /\ links' = links /\ Put(c, n)
      /\ obj[c].type = "free" /\ locals' = locals \cup {c}
      /\ UNCHANGED <<chains, callInfo, work, roots, marked, gcFor>>
  BY <1>6, <1>7 DEF NewStruct, NewCell, Put
<1> QED BY <1>1, <1>7, <1>8, <1>9, NotedSelf DEF Created

LEMMA NewInternalCreates ==
    ASSUME Typing, NEW c \in Cells, NEW x \in Ref, NEW y \in Ref,
           NewInternal(c, x, y)
    PROVE  Created(c, x, y)
<1>1. /\ obj \in [Objs -> Object] /\ GoodLinks(links) /\ c \in Objs
  BY Parts DEF Objs
<1> DEFINE r == [s \in Slots |-> IF s = 0 THEN x ELSE y]
           n == [obj[c] EXCEPT !.type = "cons", !.ref = r]
<1>2. obj[c] \in Object /\ r \in [Slots -> Ref]
  BY <1>1
<1>3. NewCell(c, n)
  BY DEF NewInternal
<1> HIDE DEF r
<1>4. n \in Object /\ SameFlag(n, obj[c]) /\ n.type = "cons" /\ n.ref = r
  BY <1>2 DEF Object, SameFlag, KindTypes
<1> HIDE DEF n
<1>5. IsCons(n, x, y)
  BY <1>4 DEF IsCons, r
<1>6. /\ pc = "run" /\ pc' = "run" /\ links' = links /\ Put(c, n)
      /\ obj[c].type = "free" /\ locals' = locals \cup {c}
      /\ UNCHANGED <<chains, callInfo, work, roots, marked, gcFor>>
  BY <1>3, <1>4 DEF NewInternal, NewCell, Put
<1> QED BY <1>1, <1>4, <1>5, <1>6, NotedSelf DEF Created

LEMMA NewExternalCreates ==
    ASSUME Typing, NEW c \in Cells, NEW x \in Ref, NEW y \in Ref, NEW ln \in Lines,
           NewExternal(c, x, y, ln)
    PROVE  Created(c, x, y)
<1>1. /\ obj \in [Objs -> Object] /\ GoodLinks(links) /\ c \in Objs
  BY Parts DEF Objs
<1> DEFINE d == [type |-> "cons", cls |-> NIL]
           forCar == Focused(d, 0, x, links)
           carDone == IF forCar # 0 THEN Check(links, forCar) ELSE links
           forCdr == Focused(d, 1, y, carDone)
           r == [s \in Slots |-> IF s = 0 THEN x ELSE y]
           t == [s \in Slots |-> IF (IF s = 0 THEN forCar ELSE forCdr) # 0
                                 THEN ln ELSE obj[c].site[s]]
           n == [obj[c] EXCEPT !.type = "cons", !.external = TRUE, !.ref = r, !.site = t,
                               !.recorded = obj[c].recorded \/ forCar # 0 \/ forCdr # 0]
<1>2. obj[c] \in Object /\ r \in [Slots -> Ref] /\ ln \in SiteValues
  BY <1>1 DEF SiteValues
<1>3. t \in [Slots -> SiteValues]
  BY <1>2, ObjectParts
<1>4. /\ NewCell(c, n)
      /\ links' = IF forCdr # 0 THEN Check(carDone, forCdr) ELSE carDone
      /\ pc' \in {"crash", pc}
  BY DEF NewExternal
<1>5. NotedAll(links, carDone)
  BY <1>1, FocusedIs, CheckKeeps, NotedSelf
<1>6. NotedAll(links, links')
  <2>1. GoodLinks(carDone)
    BY <1>5 DEF NotedAll
  <2> HIDE DEF carDone
  <2>2. NotedAll(carDone, links')
    BY <2>1, <1>4, FocusedIs, CheckKeeps, NotedSelf
  <2> QED BY <1>5, <2>2, NotedTwice
<1> HIDE DEF r, t, forCar, forCdr
<1>7. /\ n \in Object /\ SameFlag(n, obj[c]) /\ n.type = "cons" /\ n.ref = r
  BY <1>2, <1>3 DEF Object, SameFlag, KindTypes
<1> HIDE DEF n
<1>8. IsCons(n, x, y)
  BY <1>7 DEF IsCons, r
<1>9. /\ pc = "run" /\ pc' \in {"run", "crash"} /\ Put(c, n)
      /\ obj[c].type = "free" /\ locals' = locals \cup {c}
      /\ UNCHANGED <<chains, callInfo, work, roots, marked, gcFor>>
  BY <1>4, <1>7 DEF NewCell, Put
<1> QED BY <1>6, <1>7, <1>8, <1>9 DEF Created

(* The marking. *)
LEMMA ConcatSet ==
    ASSUME NEW T, NEW a \in Seq(T), NEW b \in Seq(T)
    PROVE  a \o b \in Seq(T) /\ ToSet(a \o b) = ToSet(a) \cup ToSet(b)
<1>1. /\ a \o b \in Seq(T)
      /\ DOMAIN a = 1..Len(a) /\ Len(a) \in Nat /\ DOMAIN b = 1..Len(b) /\ Len(b) \in Nat
      /\ DOMAIN (a \o b) = 1..(Len(a) + Len(b))
      /\ \A i \in 1..(Len(a) + Len(b)) :
            (a \o b)[i] = IF i <= Len(a) THEN a[i] ELSE b[i - Len(a)]
  OBVIOUS
<1> DEFINE c == a \o b
<1> HIDE DEF c
<1>2. ASSUME NEW x \in ToSet(c) PROVE x \in ToSet(a) \cup ToSet(b)
  <2>1. PICK i \in DOMAIN c : x = c[i]
    BY DEF ToSet
  <2>2. CASE i <= Len(a)
    BY <1>1, <2>1, <2>2 DEF ToSet, c
  <2>3. CASE ~(i <= Len(a))
    <3>1. i - Len(a) \in DOMAIN b /\ x = b[i - Len(a)]
      BY <1>1, <2>1, <2>3 DEF c
    <3> QED BY <3>1 DEF ToSet
  <2> QED BY <2>2, <2>3
<1>3. ASSUME NEW x \in ToSet(a) PROVE x \in ToSet(c)
  <2>1. PICK i \in DOMAIN a : x = a[i]
    BY DEF ToSet
  <2>2. i \in DOMAIN c /\ c[i] = x
    BY <1>1, <2>1 DEF c
  <2> QED BY <2>2 DEF ToSet
<1>4. ASSUME NEW x \in ToSet(b) PROVE x \in ToSet(c)
  <2>1. PICK i \in DOMAIN b : x = b[i]
    BY DEF ToSet
  <2>2. Len(a) + i \in DOMAIN c /\ c[Len(a) + i] = x
    BY <1>1, <2>1 DEF c
  <2> QED BY <2>2 DEF ToSet
<1> QED BY <1>1, <1>2, <1>3, <1>4 DEF c

LEMMA HeadTailSet ==
    ASSUME NEW T, NEW a \in Seq(T), a # <<>>
    PROVE  /\ Head(a) \in T /\ Tail(a) \in Seq(T)
           /\ ToSet(a) = {Head(a)} \cup ToSet(Tail(a))
           /\ ToSet(a) \subseteq T
<1> DEFINE t == Tail(a)
<1>1. /\ Len(a) \in Nat /\ Len(a) # 0 /\ DOMAIN a = 1..Len(a)
      /\ Head(a) = a[1] /\ a[1] \in T
      /\ t \in Seq(T) /\ DOMAIN t = 1..(Len(a) - 1)
      /\ \A i \in DOMAIN t : t[i] = a[i + 1]
  OBVIOUS
<1> HIDE DEF t
<1>2. ASSUME NEW x \in ToSet(a) PROVE x \in {a[1]} \cup ToSet(t)
  <2>1. PICK i \in DOMAIN a : x = a[i]
    BY DEF ToSet
  <2>2. i # 1 => i - 1 \in DOMAIN t /\ t[i - 1] = x
    BY <1>1, <2>1
  <2> QED BY <2>1, <2>2 DEF ToSet
<1>3. ASSUME NEW x \in ToSet(t) PROVE x \in ToSet(a)
  <2>1. PICK i \in DOMAIN t : x = t[i]
    BY DEF ToSet
  <2>2. i + 1 \in DOMAIN a /\ a[i + 1] = x
    BY <1>1, <2>1
  <2> QED BY <2>2 DEF ToSet
<1>4. a[1] \in ToSet(a) /\ ToSet(a) \subseteq T
  BY <1>1 DEF ToSet
<1> QED BY <1>1, <1>2, <1>3, <1>4 DEF t

LEMMA CallParts ==
    ASSUME NEW w \in Call
    PROVE  /\ w.ptr \in Objs /\ w.path \in Seq(Objs)
           /\ w.fields \in Seq(Slots) /\ w.via \in Slots
           /\ PathTo(w) \in Seq(Objs) /\ FieldsTo(w) \in Seq(Slots)
<1>1. w.ptr \in Objs /\ w.path \in Seq(Objs) /\ w.fields \in Seq(Slots) /\ w.via \in Slots
  BY DEF Call
<1> QED BY <1>1 DEF PathTo, FieldsTo

(* The calls that are made for the two slots of an object. *)
LEMMA ChildrenAre ==
    ASSUME Typing, NEW w \in Call
    PROVE  /\ Children(w) \in Seq(Call)
           /\ \A c \in ToSet(Children(w)) :
                 /\ c \in Call /\ c.via \in Slots
                 /\ c.ptr = obj[w.ptr].ref[c.via] /\ c.ptr # NIL
                 /\ c.path = PathTo(w) /\ c.fields = FieldsTo(w)
           /\ \A s \in Slots : obj[w.ptr].ref[s] # NIL =>
                 \E c \in ToSet(Children(w)) : c.ptr = obj[w.ptr].ref[s]
<1> DEFINE p(s) == obj[w.ptr].ref[s]
           e(s) == [ptr |-> p(s), path |-> PathTo(w), fields |-> FieldsTo(w), via |-> s]
<1>1. \A s \in Slots : p(s) \in Ref
  BY Parts, CallParts, ObjectParts
<1>2. \A s \in Slots : p(s) # NIL => e(s) \in Call
  BY <1>1, CallParts DEF Call, Ref
<1>3. \A s : e(s).ptr = p(s) /\ e(s).path = PathTo(w) /\ e(s).fields = FieldsTo(w) /\ e(s).via = s
  OBVIOUS
<1>4. \A s : Child(w, s) = IF p(s) = NIL THEN <<>> ELSE <<e(s)>>
  BY DEF Child
<1> HIDE DEF p, e
<1>5. \A s \in Slots : /\ Child(w, s) \in Seq(Call)
                       /\ ToSet(Child(w, s)) = IF p(s) = NIL THEN {} ELSE {e(s)}
  <2> SUFFICES ASSUME NEW s \in Slots
               PROVE  /\ Child(w, s) \in Seq(Call)
                      /\ ToSet(Child(w, s)) = IF p(s) = NIL THEN {} ELSE {e(s)}
    OBVIOUS
  <2>1. CASE p(s) = NIL
    <3>1. Child(w, s) = <<>>
      BY <1>4, <2>1
    <3> QED BY <2>1, <3>1 DEF ToSet
  <2>2. CASE p(s) # NIL
    <3>1. Child(w, s) = <<e(s)>> /\ e(s) \in Call
      BY <1>2, <1>4, <2>2
    <3>2. <<e(s)>> \in Seq(Call) /\ DOMAIN <<e(s)>> = {1} /\ <<e(s)>>[1] = e(s)
      BY <3>1
    <3>3. ToSet(<<e(s)>>) = {e(s)}
      BY <3>2 DEF ToSet
    <3> QED BY <2>2, <3>1, <3>2, <3>3
  <2> QED BY <2>1, <2>2
<1>6. 0 \in Slots /\ 1 \in Slots /\ \A s \in Slots : s = 0 \/ s = 1
  BY DEF Slots
<1>7. /\ Children(w) \in Seq(Call)
      /\ ToSet(Children(w)) = ToSet(Child(w, 0)) \cup ToSet(Child(w, 1))
  BY <1>5, <1>6, ConcatSet DEF Children
<1>8. ASSUME NEW c \in ToSet(Children(w))
      PROVE  \E s \in Slots : c = e(s) /\ p(s) # NIL
  BY <1>5, <1>6, <1>7
<1>9. \A s \in Slots : p(s) # NIL => e(s) \in ToSet(Children(w))
  BY <1>5, <1>6, <1>7
<1>10. ASSUME NEW c \in ToSet(Children(w))
       PROVE  /\ c \in Call /\ c.via \in Slots
              /\ c.ptr = p(c.via) /\ c.ptr # NIL
              /\ c.path = PathTo(w) /\ c.fields = FieldsTo(w)
  <2>1. PICK s \in Slots : c = e(s) /\ p(s) # NIL
    BY <1>8
  <2> QED BY <2>1, <1>2, <1>3
<1>11. \A s \in Slots : p(s) # NIL => \E c \in ToSet(Children(w)) : c.ptr = p(s)
  BY <1>3, <1>9
<1> QED BY <1>7, <1>10, <1>11 DEF p

(* The links after a visit, and the definitions chosen for them. *)
Moved ==
    /\ GoodLinks(links')
    /\ DOMAIN links \subseteq DOMAIN links'
    /\ \A i \in DOMAIN links : Follows(links[i], links'[i])
Redefined ==
    /\ chains' \in [Classes -> Seq(StructDef)]
    /\ \A k \in Classes : GoodChain(chains'[k]) /\ Extends(chains[k], chains'[k])
    /\ \/ /\ pc' = pc
          /\ \A k \in Classes :
                WantedSlots(links', k) # <<>> =>
                   chains'[k][ActiveDef(chains'[k])].slots = WantedSlots(links', k)
       \/ pc' = "fatal"

LEMMA Redefines ==
    ASSUME Typing, GoodLinks(links'), UpdateAllStructDefs(links')
    PROVE  Redefined
<1> DEFINE slots == [k \in Classes |-> WantedSlots(links', k)]
           changed == {k \in Classes : Changes(k, slots[k])}
           cells == {k \in changed : FindDef(chains[k], slots[k]) = 0}
<1>1. \A k \in Classes : slots[k] = WantedSlots(links', k) /\ slots[k] \in Seq(Slots)
  BY WantedIs
<1>2. /\ chains \in [Classes -> Seq(StructDef)]
      /\ \A k \in Classes : GoodChain(chains[k]) /\ chains[k] \in Seq(StructDef)
  BY Parts
<1>3. \A k \in Classes : k \in changed <=> slots[k] # <<>>
  BY DEF Changes
<1>4. \/ /\ chains' = [k \in Classes |-> IF k \in changed THEN UpdateChain(chains[k], slots[k])
                                         ELSE chains[k]]
         /\ pc' = pc
      \/ pc' = "fatal" /\ chains' = chains
  BY DEF UpdateAllStructDefs
<1> HIDE DEF slots, changed
<1>5. CASE pc' = "fatal" /\ chains' = chains
  BY <1>2, <1>5 DEF Redefined, Extends
<1>6. CASE /\ chains' = [k \in Classes |-> IF k \in changed THEN UpdateChain(chains[k], slots[k])
                                           ELSE chains[k]]
           /\ pc' = pc
  <2>1. ASSUME NEW k \in Classes, slots[k] # <<>>
        PROVE  /\ GoodChain(chains'[k]) /\ Extends(chains[k], chains'[k])
               /\ chains'[k][ActiveDef(chains'[k])].slots = slots[k]
    <3>1. chains'[k] = UpdateChain(chains[k], slots[k])
      BY <1>3, <1>6, <2>1
    <3> QED BY <3>1, <1>1, <1>2, UpdateChainIs
  <2>2. ASSUME NEW k \in Classes, slots[k] = <<>>
        PROVE  chains'[k] = chains[k] /\ Extends(chains[k], chains'[k])
    <3>1. chains'[k] = chains[k]
      BY <1>3, <1>6, <2>2
    <3> QED BY <3>1 DEF Extends
  <2>3. \A k \in Classes : /\ GoodChain(chains'[k]) /\ Extends(chains[k], chains'[k])
                           /\ slots[k] # <<>> =>
                                chains'[k][ActiveDef(chains'[k])].slots = slots[k]
    BY <1>2, <2>1, <2>2
  <2>4. chains' \in [Classes -> Seq(StructDef)]
    <3>1. \A k \in Classes : chains'[k] \in Seq(StructDef)
      BY <2>3 DEF GoodChain
    <3>2. chains' = [k \in Classes |-> chains'[k]]
      BY <1>6
    <3> QED BY <3>1, <3>2
  <2> QED BY <1>1, <1>6, <2>3, <2>4 DEF Redefined
<1> QED BY <1>4, <1>5, <1>6

LEMMA KindsAre ==
    ASSUME Typing, NEW path \in Seq(Objs), \A i \in DOMAIN path : path[i] \in Live
    PROVE  KindsOf(path) \in Seq(PathKind) /\ (path # <<>> => KindsOf(path) # <<>>)
<1>1. DOMAIN path = 1..Len(path) /\ Len(path) \in Nat /\ (path # <<>> => Len(path) # 0)
  OBVIOUS
<1>2. ASSUME NEW i \in DOMAIN path PROVE Kind(path[i]) \in PathKind
  <2>1. path[i] \in Objs /\ obj[path[i]] \in Object /\ obj[path[i]].type # "free"
    BY Parts DEF Live
  <2>2. obj[path[i]].type \in KindTypes /\ obj[path[i]].cls \in Classes \cup {NIL}
    BY <2>1, ObjectParts
  <2> QED BY <2>2 DEF Kind, PathKind
<1>3. KindsOf(path) \in Seq(PathKind) /\ DOMAIN KindsOf(path) = 1..Len(path)
  BY <1>1, <1>2 DEF KindsOf
<1> QED BY <1>1, <1>3

(* The first stage: the flag goes from has to had, the call from rough to  *)
(* detailed, and the path becomes a link unless it is one.                 *)
Reports(o) ==
    /\ CanStageOne(o)
    /\ \E n : Put(o, n) /\ SameSort(n, obj[o]) /\ n.ref = obj[o].ref
              /\ n.dead = "had" /\ n.at = obj[o].at
    /\ callInfo' = [callInfo EXCEPT ![obj[o].at] = "detailed"]
    /\ Moved /\ Redefined

LEMMA StageOneReports ==
    ASSUME Typing, NEW o \in Objs, CanStageOne(o), NEW path \in Seq(Objs), path # <<>>,
           \A i \in DOMAIN path : path[i] \in Live, NEW fields \in Seq(Slots),
           StageOne(o, path, fields)
    PROVE  Reports(o)
<1> DEFINE new == NewLink(KindsOf(path), fields)
           n == [obj[o] EXCEPT !.dead = "had"]
<1>1. /\ obj \in [Objs -> Object] /\ obj[o] \in Object
      /\ GoodLinks(links) /\ links \in Seq(Link)
  BY Parts
<1>2. GoodLink(new) /\ new \in Link
  BY KindsAre, NewLinkGood DEF GoodLink
<1>3. n \in Object /\ SameSort(n, obj[o]) /\ n.ref = obj[o].ref /\ n.dead = "had" /\ n.at = obj[o].at
  BY <1>1 DEF Object, SameSort
<1>4. /\ obj' = [obj EXCEPT ![o] = n]
      /\ callInfo' = [callInfo EXCEPT ![obj[o].at] = "detailed"]
      /\ links' = links \/ links' = Append(links, new)
      /\ UpdateAllStructDefs(links')
  BY DEF StageOne
<1> HIDE DEF n, new
<1>5. Moved
  <2>1. \A i \in DOMAIN links : GoodLink(links[i]) /\ Follows(links[i], links[i])
    BY <1>1 DEF GoodLinks, Follows
  <2>2. CASE links' = links
    BY <1>1, <2>1, <2>2 DEF Moved, GoodLinks
  <2>3. CASE links' = Append(links, new)
    <3>1. /\ links' \in Seq(Link) /\ DOMAIN links' = DOMAIN links \cup {Len(links) + 1}
          /\ links'[Len(links) + 1] = new
          /\ \A i \in DOMAIN links : links'[i] = links[i]
      BY <1>1, <1>2, <2>3
    <3> QED BY <1>2, <2>1, <3>1 DEF Moved, GoodLinks
  <2> QED BY <1>4, <2>2, <2>3
<1>6. Redefined
  BY <1>4, <1>5, Redefines DEF Moved
<1>7. Put(o, n)
  BY <1>3, <1>4 DEF Put
<1> QED BY <1>3, <1>4, <1>5, <1>6, <1>7 DEF Reports

LEMMA StageTwoMoves ==
    ASSUME Typing, NEW path, NEW fields, Found(path, fields) # 0, StageTwo(path, fields)
    PROVE  Moved /\ Redefined /\ UNCHANGED <<obj, callInfo>>
<1> DEFINE f == Found(path, fields)
           m == Advance(links[f])
<1>1. GoodLinks(links) /\ links \in Seq(Link) /\ Len(links) \in Nat /\ DOMAIN links = 1..Len(links)
  BY Parts
<1>2. f \in DOMAIN links
  BY <1>1, FindLinkIs DEF Found
<1>3. /\ links' = [links EXCEPT ![f] = m]
      /\ UpdateAllStructDefs(links') /\ UNCHANGED <<obj, callInfo>>
  BY DEF StageTwo
<1>4. \A i \in DOMAIN links : GoodLink(links[i]) /\ Follows(links[i], links[i])
  BY <1>1 DEF GoodLinks, Follows
<1> HIDE DEF f
<1>5. GoodLink(m) /\ Follows(links[f], m) /\ m \in Link
  BY <1>2, <1>4, AdvanceKeeps DEF GoodLink
<1> HIDE DEF m
<1>6. /\ links' \in Seq(Link) /\ DOMAIN links' = DOMAIN links /\ links'[f] = m
      /\ \A i \in DOMAIN links : i # f => links'[i] = links[i]
  BY <1>1, <1>2, <1>3, <1>5
<1>7. Moved
  BY <1>4, <1>5, <1>6 DEF Moved, GoodLinks
<1> QED BY <1>3, <1>7, Redefines DEF Moved

(* One call of gc_mark: a marked object is passed by, another visited. *)
Passed ==
    /\ Head(work).ptr \in marked
    /\ work' = Tail(work)
    /\ UNCHANGED <<obj, links, chains, callInfo, marked, pc>>
Visited ==
    /\ Head(work).ptr \notin marked
    /\ marked' = marked \cup {Head(work).ptr}
    /\ work' = Children(Head(work)) \o Tail(work)
    /\ \/ Reports(Head(work).ptr)
       \/ ~CanStageOne(Head(work).ptr) /\ Moved /\ Redefined /\ UNCHANGED <<obj, callInfo>>
       \/ ~CanStageOne(Head(work).ptr) /\ UNCHANGED <<obj, callInfo, links, chains, pc>>
       \/ pc' = "crash" /\ UNCHANGED <<obj, callInfo, links, chains>>
Marks ==
    /\ pc = "mark" /\ work # <<>>
    /\ Passed \/ Visited
    /\ UNCHANGED <<locals, roots, gcFor>>

LEMMA MarkStepMarks ==
    ASSUME Typing, Heap, MarkStep
    PROVE  Marks
<1> DEFINE w == Head(work)
           o == w.ptr
<1>1. /\ pc = "mark" /\ work # <<>> /\ UNCHANGED <<locals, roots, gcFor>>
  BY DEF MarkStep
<1>2. w \in Call /\ w \in ToSet(work) /\ o \in Objs
  BY <1>1, Parts, HeadTailSet, CallParts
<1>3. CASE o \in marked
  BY <1>1, <1>3 DEF MarkStep, Marks, Passed
<1>4. CASE o \notin marked
  <2>1. /\ marked' = marked \cup {o}
        /\ work' = Children(w) \o Tail(work)
        /\ \/ CanStageOne(o) /\ StageOne(o, PathTo(w), FieldsTo(w))
           \/ /\ ~CanStageOne(o) /\ Found(PathTo(w), FieldsTo(w)) # 0
              /\ StageTwo(PathTo(w), FieldsTo(w))
           \/ ~CanStageOne(o) /\ UNCHANGED <<obj, links, chains, callInfo, pc>>
    BY <1>4 DEF MarkStep
  <2>2. PathTo(w) \in Seq(Objs) /\ FieldsTo(w) \in Seq(Slots)
    BY <1>2, CallParts
  <2>3. \A i \in DOMAIN PathTo(w) : PathTo(w)[i] \in Live
    <3>1. o \in Live /\ \A i \in DOMAIN w.path : w.path[i] \in Live
      BY <1>1, <1>2 DEF Heap, Reaching, Pending
    <3>2. w.path \in Seq(Objs)
      BY <1>2, CallParts
    <3>3. /\ DOMAIN Append(w.path, o) = DOMAIN w.path \cup {Len(w.path) + 1}
          /\ Append(w.path, o)[Len(w.path) + 1] = o
          /\ \A i \in DOMAIN w.path : Append(w.path, o)[i] = w.path[i]
      BY <1>2, <3>2
    <3>4. \A i \in DOMAIN Append(w.path, o) : Append(w.path, o)[i] \in Live
      BY <3>1, <3>3
    <3> QED BY <3>1, <3>4 DEF PathTo
  <2> HIDE DEF w
  <2>4. CASE CanStageOne(o) /\ StageOne(o, PathTo(w), FieldsTo(w))
    <3>1. CASE PathTo(w) = <<>>
      <4>1. pc' = "crash" /\ UNCHANGED <<obj, callInfo, links, chains>>
        BY <2>4, <3>1 DEF StageOne
      <4> QED BY <1>1, <1>4, <2>1, <4>1 DEF Marks, Visited, w
    <3>2. CASE PathTo(w) # <<>>
      <4>1. Reports(o)
        BY <1>2, <2>2, <2>3, <2>4, <3>2, StageOneReports
      <4> QED BY <1>1, <1>4, <2>1, <4>1 DEF Marks, Visited, w
    <3> QED BY <3>1, <3>2
  <2>5. CASE /\ ~CanStageOne(o) /\ Found(PathTo(w), FieldsTo(w)) # 0
             /\ StageTwo(PathTo(w), FieldsTo(w))
    <3>1. Moved /\ Redefined /\ UNCHANGED <<obj, callInfo>>
      BY <2>5, StageTwoMoves
    <3> QED BY <1>1, <1>4, <2>1, <2>5, <3>1 DEF Marks, Visited, w
  <2>6. CASE ~CanStageOne(o) /\ UNCHANGED <<obj, links, chains, callInfo, pc>>
    BY <1>1, <1>4, <2>1, <2>6 DEF Marks, Visited, w
  <2> QED BY <2>1, <2>4, <2>5, <2>6
<1> QED BY <1>3, <1>4

(* Load and Drop. *)
Looked ==
    /\ pc = "run"
    /\ \A p \in locals' : \/ p \in locals
                          \/ \E o \in Objs, s \in Slots : p = obj[o].ref[s] /\ p # NIL
    /\ UNCHANGED <<obj, links, chains, callInfo, work, roots, marked, gcFor, pc>>

(* A call of assert-dead, that counts or does not. *)
Asserted(c, ln) ==
    /\ pc = "run"
    /\ \/ UNCHANGED <<obj, callInfo>>
       \/ /\ obj[c].dead = "no" /\ callInfo[ln] = "none"
          /\ \E n : Put(c, n) /\ SameSort(n, obj[c]) /\ n.ref = obj[c].ref
                    /\ n.dead = "has" /\ n.at = ln
          /\ callInfo' = [callInfo EXCEPT ![ln] = "rough"]
    /\ UNCHANGED <<locals, links, chains, work, roots, marked, gcFor, pc>>

LEMMA AssertDeadAsserts ==
    ASSUME Typing, NEW c \in Cells, NEW ln \in Assertions, AssertDead(c, ln)
    PROVE  Asserted(c, ln)
<1>1. obj \in [Objs -> Object] /\ c \in Objs /\ obj[c] \in Object
  BY Parts DEF Objs
<1> DEFINE n == [obj[c] EXCEPT !.dead = "has", !.at = ln]
<1>2. n \in Object /\ SameSort(n, obj[c]) /\ n.ref = obj[c].ref /\ n.dead = "has" /\ n.at = ln
  BY <1>1 DEF Object, SameSort
<1>3. /\ pc = "run" /\ UNCHANGED <<locals, links, chains, work, roots, marked, gcFor, pc>>
      /\ \/ UNCHANGED <<obj, callInfo>>
         \/ /\ obj[c].dead = "no" /\ callInfo[ln] = "none"
            /\ obj' = [obj EXCEPT ![c].dead = "has", ![c].at = ln]
            /\ callInfo' = [callInfo EXCEPT ![ln] = "rough"]
  BY DEF AssertDead, collecting
<1>4. obj' = [obj EXCEPT ![c].dead = "has", ![c].at = ln] => obj' = [obj EXCEPT ![c] = n]
  BY <1>1 DEF Object
<1> HIDE DEF n
<1>5. obj' = [obj EXCEPT ![c].dead = "has", ![c].at = ln] => Put(c, n)
  BY <1>2, <1>4 DEF Put
<1> QED BY <1>2, <1>3, <1>5 DEF Asserted

(* gc_sweep: what is not marked is free. *)
Swept ==
    /\ pc = "mark" /\ work = <<>> /\ roots = {}
    /\ obj' \in [Objs -> Object]
    /\ \A o \in Objs : /\ o \in marked => obj'[o] = obj[o]
                       /\ o \notin marked => obj'[o].type = "free" /\ obj'[o].ref = NoRefs
                       /\ SameFlag(obj'[o], obj[o])
    /\ marked' = {} /\ pc' = "run" /\ gcFor' = "user"
    /\ UNCHANGED <<locals, links, chains, callInfo, work, roots>>

LEMMA SweepSweeps ==
    ASSUME Typing, Sweep
    PROVE  Swept
<1> DEFINE n(o) == [obj[o] EXCEPT !.type = "free", !.cls = NIL, !.def = 0, !.ref = NoRefs]
<1>1. \A o \in Objs : obj[o] \in Object
  BY Parts
<1>2. NoRefs \in [Slots -> Ref]
  BY DEF NoRefs, Ref
<1>3. \A o \in Objs : /\ n(o) \in Object /\ n(o).type = "free" /\ n(o).ref = NoRefs
                      /\ SameFlag(n(o), obj[o])
  BY <1>1, <1>2 DEF Object, SameFlag
<1>4. obj' = [o \in Objs |-> IF o \in marked THEN obj[o] ELSE n(o)]
  BY DEF Sweep
<1> HIDE DEF n
<1>5. obj' \in [Objs -> Object]
  BY <1>1, <1>3, <1>4
<1>6. \A o \in Objs : /\ o \in marked => obj'[o] = obj[o]
                      /\ o \notin marked => obj'[o].type = "free" /\ obj'[o].ref = NoRefs
                      /\ SameFlag(obj'[o], obj[o])
  BY <1>3, <1>4 DEF SameFlag
<1> QED BY <1>5, <1>6 DEF Sweep, Swept

(* Every step is one of these. *)
LEMMA StepCases ==
    ASSUME Typing, Heap, [Next]_vars
    PROVE  \/ \E o \in Objs, s \in Slots, v \in Value : Stored(o, s, v)
           \/ Looked
           \/ \E c \in Cells, x \in Value, y \in Value : Created(c, x, y)
           \/ \E c \in Cells, ln \in Assertions : Asserted(c, ln)
           \/ \E cause \in Causes : StartGc(cause)
           \/ \E r \in Objs : TakeRoot(r)
           \/ Marks
           \/ Swept
           \/ UNCHANGED vars
<1>1. /\ Cells \subseteq Objs /\ Symbols \subseteq Objs
      /\ NIL \in Value /\ \A v \in Value : v \in Ref
  BY Parts DEF Objs, Value, Ref
<1>2. 0 \in Slots
  BY DEF Slots
<1>3. ASSUME Store PROVE \E o \in Objs, s \in Slots, v \in Value : Stored(o, s, v)
  <2>1. ASSUME NEW c \in Cells, NEW s \in Slots, NEW v \in Value, NEW ln \in Lines,
               SetField(c, s, v, ln) \/ SetCarCdr(c, s, v, ln)
        PROVE  Stored(c, s, v)
    <3>1. Assign(c, s, v, ln)
      BY <2>1 DEF SetField, SetCarCdr
    <3> QED BY <1>1, <3>1, AssignStores
  <2>2. ASSUME NEW g \in Symbols, NEW v \in Value, NEW ln \in Lines,
               SetGlobal(g, v, ln) \/ SetLocal(g, v, ln)
        PROVE  Stored(g, 0, v)
    <3>1. Assign(g, 0, v, ln) \/ SetLocal(g, v, ln)
      BY <2>2 DEF SetGlobal
    <3> QED BY <1>1, <1>2, <3>1, AssignStores, SetLocalStores DEF Heap
  <2>3. \/ \E c \in Cells, s \in Slots, v \in Value, ln \in Lines :
               SetField(c, s, v, ln) \/ SetCarCdr(c, s, v, ln)
        \/ \E g \in Symbols, v \in Value, ln \in Lines :
               SetGlobal(g, v, ln) \/ SetLocal(g, v, ln)
    BY <1>3 DEF Store
  <2> QED BY <1>1, <1>2, <2>1, <2>2, <2>3
<1>4. ASSUME NEW c \in Cells, NEW ln \in Lines \cup {0}, CreateAt(c, ln)
      PROVE  \E x \in Value, y \in Value : Created(c, x, y)
  <2>1. ASSUME NEW k \in Classes, NEW sites \in [Slots -> Garbage], NewStruct(c, k, sites)
        PROVE  Created(c, NIL, NIL)
    BY <2>1, NewStructCreates
  <2>2. ASSUME NEW x \in Value, NEW y \in Value, NewInternal(c, x, y)
        PROVE  Created(c, x, y)
    BY <1>1, <2>2, NewInternalCreates
  <2>3. ASSUME NEW x \in Value, NEW y \in Value, ln # 0, NewExternal(c, x, y, ln)
        PROVE  Created(c, x, y)
    BY <1>1, <2>3, NewExternalCreates
  <2>4. \/ \E k \in Classes, sites \in [Slots -> Garbage] : NewStruct(c, k, sites)
        \/ "internal" \in Constructors /\ \E x, y \in Value : NewInternal(c, x, y)
        \/ ln # 0 /\ \E x, y \in Value : NewExternal(c, x, y, ln)
    BY <1>4 DEF CreateAt
  <2> QED BY <1>1, <2>1, <2>2, <2>3, <2>4
<1>5. ASSUME NEW o \in Objs, NEW s \in Slots, Load(o, s) PROVE Looked
  BY <1>5 DEF Load, Looked, collecting
<1>6. ASSUME NEW c \in Cells, Drop(c) PROVE Looked
  BY <1>6 DEF Drop, Looked, collecting
<1>7. ASSUME Collect
      PROVE  \/ \E cause \in Causes : StartGc(cause)
             \/ \E r \in Objs : TakeRoot(r)
             \/ Marks \/ Swept
  BY <1>7, MarkStepMarks, SweepSweeps, ChoiceAssumption DEF Collect
<1>8. ASSUME Other
      PROVE  Looked \/ Collect
  BY <1>5, <1>6, <1>8 DEF Other
<1>9. ASSUME NEW c \in Cells, NEW ln \in Assertions, AssertDead(c, ln)
      PROVE  Asserted(c, ln)
  BY <1>9, AssertDeadAsserts
<1>10. \/ Store
       \/ \E c \in Cells, ln \in Lines \cup {0} : CreateAt(c, ln)
       \/ \E c \in Cells, ln \in Assertions : AssertDead(c, ln)
       \/ Other
       \/ UNCHANGED vars
  BY DEF Next
<1> QED BY <1>3, <1>4, <1>7, <1>8, <1>9, <1>10

-----------------------------------------------------------------------------
(* The type invariant, the links and the definitions.                      *)

(* The definition of an instance is one of its class's. *)
Placed(n, ch) ==
    n.type \in Structs =>
       /\ n.def \in DOMAIN ch[n.cls]
       /\ n.type = "struct_instance_with_rec" <=> ch[n.cls][n.def].slots # <<>>

LEMMA PlacedNow ==
    ASSUME Typing
    PROVE  \A o \in Objs : Placed(obj[o], chains)
BY DEF Typing, DefsSound, Placed

LEMMA PlacedLater ==
    ASSUME Typing, Sorts, NEW o \in Objs, NEW n, SameSort(n, obj[o]),
           \A k \in Classes : Extends(chains[k], chains'[k])
    PROVE  Placed(n, chains')
<1>1. Placed(obj[o], chains)
  BY PlacedNow
<1>2. obj[o].type \in Structs => Extends(chains[obj[o].cls], chains'[obj[o].cls])
  BY DEF Sorts
<1> QED BY <1>1, <1>2 DEF Placed, SameSort, Extends

(* The links of the next state are good ones and follow those of this one. *)
LEMMA LinksStep ==
    ASSUME Typing, Heap, [Next]_vars
    PROVE  Moved
<1>0. GoodLinks(links) /\ \A i \in DOMAIN links : Follows(links[i], links[i])
  BY Parts DEF Follows
<1>1. ASSUME NotedAll(links, links') PROVE Moved
  BY <1>1 DEF NotedAll, Noted, Moved, Follows
<1>2. ASSUME links' = links PROVE Moved
  BY <1>0, <1>2 DEF Moved
<1>3. ASSUME Marks PROVE Moved
  BY <1>2, <1>3 DEF Marks, Passed, Visited, Reports
<1> QED BY <1>1, <1>2, <1>3, StepCases
        DEF Stored, Looked, Created, Asserted, StartGc, TakeRoot, Swept, vars

LEMMA ChainsStep ==
    ASSUME Typing, Heap, [Next]_vars
    PROVE  /\ chains' \in [Classes -> Seq(StructDef)]
           /\ \A k \in Classes : GoodChain(chains'[k]) /\ Extends(chains[k], chains'[k])
<1>0. /\ chains \in [Classes -> Seq(StructDef)]
      /\ \A k \in Classes : GoodChain(chains[k]) /\ Extends(chains[k], chains[k])
  BY Parts DEF Extends
<1>1. chains' = chains \/ Redefined
  BY StepCases DEF Stored, Looked, Created, Asserted, StartGc, TakeRoot, Swept, vars,
                   Marks, Passed, Visited, Reports
<1> QED BY <1>0, <1>1 DEF Redefined

LEMMA ObjStep ==
    ASSUME Typing, Heap, [Next]_vars
    PROVE  obj' \in [Objs -> Object] /\ \A o \in Objs : Placed(obj'[o], chains')
<1>1. /\ obj \in [Objs -> Object] /\ Sorts
      /\ \A k \in Classes : Extends(chains[k], chains'[k]) /\ GoodChain(chains[k])
      /\ \A o \in Objs : SameSort(obj[o], obj[o])
  BY Parts, ChainsStep DEF Heap, SameSort
<1>2. \A o \in Objs : Placed(obj[o], chains')
  BY <1>1, PlacedLater
<1>3. ASSUME NEW o \in Objs, NEW n, Put(o, n), Placed(n, chains')
      PROVE  obj' \in [Objs -> Object] /\ \A p \in Objs : Placed(obj'[p], chains')
  BY <1>1, <1>2, <1>3, PutIs
<1>4. ASSUME NEW o \in Objs, NEW n, Put(o, n), SameSort(n, obj[o])
      PROVE  obj' \in [Objs -> Object] /\ \A p \in Objs : Placed(obj'[p], chains')
  BY <1>1, <1>3, <1>4, PlacedLater
<1>5. ASSUME NEW o \in Objs, NEW s \in Slots, NEW v \in Value, Stored(o, s, v)
      PROVE  obj' \in [Objs -> Object] /\ \A p \in Objs : Placed(obj'[p], chains')
  BY <1>4, <1>5 DEF Stored
<1>6. ASSUME NEW c \in Cells, NEW x \in Value, NEW y \in Value, Created(c, x, y)
      PROVE  obj' \in [Objs -> Object] /\ \A p \in Objs : Placed(obj'[p], chains')
  <2>1. PICK n : Put(c, n) /\ (IsCons(n, x, y) \/ IsInstance(n, c))
    BY <1>6 DEF Created
  <2>2. chains' = chains /\ c \in Objs
    BY <1>6 DEF Created, Objs
  <2>3. Placed(n, chains')
    <3>1. CASE IsCons(n, x, y)
      BY <3>1 DEF IsCons, Placed, Structs
    <3>2. CASE IsInstance(n, c)
      <4>1. ActiveDef(chains[n.cls]) \in DOMAIN chains[n.cls]
        BY <1>1, <3>2, GoodChainActive DEF IsInstance
      <4> QED BY <2>2, <3>2, <4>1 DEF IsInstance, Placed
    <3> QED BY <2>1, <3>1, <3>2
  <2> QED BY <1>3, <2>1, <2>2, <2>3
<1>7. ASSUME NEW c \in Cells, NEW ln \in Assertions, Asserted(c, ln)
      PROVE  obj' \in [Objs -> Object] /\ \A p \in Objs : Placed(obj'[p], chains')
  BY <1>1, <1>2, <1>4, <1>7 DEF Asserted, Objs
<1>8. ASSUME Marks
      PROVE  obj' \in [Objs -> Object] /\ \A p \in Objs : Placed(obj'[p], chains')
  <2>1. Head(work).ptr \in Objs
    BY <1>8, Parts, HeadTailSet, CallParts DEF Marks
  <2>2. obj' = obj \/ Reports(Head(work).ptr)
    BY <1>8 DEF Marks, Passed, Visited
  <2> QED BY <1>1, <1>2, <1>4, <2>1, <2>2 DEF Reports
<1>9. ASSUME Swept
      PROVE  obj' \in [Objs -> Object] /\ \A p \in Objs : Placed(obj'[p], chains')
  BY <1>2, <1>9 DEF Swept, Placed, Structs
<1>10. ASSUME obj' = obj
       PROVE  obj' \in [Objs -> Object] /\ \A p \in Objs : Placed(obj'[p], chains')
  BY <1>1, <1>2, <1>10
<1> QED BY <1>5, <1>6, <1>7, <1>8, <1>9, <1>10, StepCases DEF Looked, StartGc, TakeRoot, vars

LEMMA OthersStep ==
    ASSUME Typing, Heap, [Next]_vars
    PROVE  /\ locals' \subseteq Objs /\ roots' \subseteq Objs /\ marked' \subseteq Objs
           /\ callInfo' \in [Assertions -> {"none", "rough", "detailed"}]
           /\ work' \in Seq(Call)
           /\ gcFor' \in Causes
           /\ pc' \in {"run", "mark", "fatal", "crash"}
<1> DEFINE Goal == /\ locals' \subseteq Objs /\ roots' \subseteq Objs /\ marked' \subseteq Objs
                   /\ callInfo' \in [Assertions -> {"none", "rough", "detailed"}]
                   /\ work' \in Seq(Call)
                   /\ gcFor' \in Causes
                   /\ pc' \in {"run", "mark", "fatal", "crash"}
<1>1. /\ locals \subseteq Objs /\ roots \subseteq Objs /\ marked \subseteq Objs
      /\ callInfo \in [Assertions -> {"none", "rough", "detailed"}]
      /\ work \in Seq(Call) /\ gcFor \in Causes
      /\ pc \in {"run", "mark", "fatal", "crash"}
      /\ \A o \in Objs, s \in Slots : obj[o].ref[s] \in Objs \cup {NIL}
      /\ Cells \subseteq Objs /\ Symbols \subseteq Objs
  BY Parts, ObjectParts DEF Typing, TypeOK, Ref, Objs
<1>2. ASSUME NEW o \in Objs, NEW s \in Slots, NEW v \in Value, Stored(o, s, v) PROVE Goal
  BY <1>1, <1>2 DEF Stored
<1>3. ASSUME Looked PROVE Goal
  BY <1>1, <1>3 DEF Looked
<1>4. ASSUME NEW c \in Cells, NEW x \in Value, NEW y \in Value, Created(c, x, y) PROVE Goal
  BY <1>1, <1>4 DEF Created
<1>5. ASSUME NEW c \in Cells, NEW ln \in Assertions, Asserted(c, ln) PROVE Goal
  BY <1>1, <1>5 DEF Asserted
<1>6. ASSUME NEW cause \in Causes, StartGc(cause) PROVE Goal
  BY <1>1, <1>6 DEF StartGc
<1>7. ASSUME NEW r \in Objs, TakeRoot(r) PROVE Goal
  <2> DEFINE w == [ptr |-> r, path |-> <<>>, fields |-> <<>>, via |-> 0]
  <2>1. w \in Call
    BY DEF Call, Slots
  <2>2. work' = <<w>>
    BY <1>7 DEF TakeRoot
  <2> HIDE DEF w
  <2>3. work' \in Seq(Call)
    BY <2>1, <2>2
  <2> QED BY <1>1, <1>7, <2>3 DEF TakeRoot
<1>8. ASSUME Marks PROVE Goal
  <2>1. /\ Head(work) \in Call /\ Tail(work) \in Seq(Call)
    BY <1>1, <1>8, HeadTailSet DEF Marks
  <2>2. Head(work).ptr \in Objs /\ Children(Head(work)) \in Seq(Call)
    BY <2>1, CallParts, ChildrenAre
  <2>3. Children(Head(work)) \o Tail(work) \in Seq(Call)
    BY <2>1, <2>2, ConcatSet
  <2>4. work' \in Seq(Call) /\ marked' \subseteq Objs
    BY <1>1, <1>8, <2>1, <2>2, <2>3 DEF Marks, Passed, Visited
  <2>5. callInfo' \in [Assertions -> {"none", "rough", "detailed"}]
    BY <1>1, <1>8 DEF Marks, Passed, Visited, Reports
  <2>6. pc' \in {"run", "mark", "fatal", "crash"}
    BY <1>1, <1>8 DEF Marks, Passed, Visited, Reports, Redefined
  <2> QED BY <1>1, <1>8, <2>4, <2>5, <2>6 DEF Marks
<1>9. ASSUME Swept PROVE Goal
  BY <1>1, <1>9 DEF Swept, Causes
<1>10. ASSUME UNCHANGED vars PROVE Goal
  BY <1>1, <1>10 DEF vars
<1> QED BY <1>2, <1>3, <1>4, <1>5, <1>6, <1>7, <1>8, <1>9, <1>10, StepCases

LEMMA TypingStep ==
    ASSUME Typing, Heap, [Next]_vars
    PROVE  Typing'
<1>1. /\ links' \in Seq(Link)
      /\ \A i \in DOMAIN links' :
            /\ links'[i].active \in DOMAIN links'[i].data
            /\ \A k \in DOMAIN links'[i].data :
                  /\ k < links'[i].active => links'[i].data[k].checked
                  /\ links'[i].data[k].checked => k <= links'[i].active
  BY LinksStep DEF Moved, GoodLinks, GoodLink
<1>2. TypeOK'
  BY <1>1, ObjStep, ChainsStep, OthersStep DEF TypeOK
<1>3. Attributed'
  BY <1>1 DEF Attributed
<1>4. DefsSound'
  <2>1. \A k \in Classes : Cardinality({i \in DOMAIN chains'[k] : chains'[k][i].active}) = 1
    <3> SUFFICES ASSUME NEW k \in Classes
                 PROVE  Cardinality({i \in DOMAIN chains'[k] : chains'[k][i].active}) = 1
      OBVIOUS
    <3> DEFINE c == chains'[k]
    <3>1. c \in Seq(StructDef) /\ GoodChain(c)
      BY ChainsStep
    <3> HIDE DEF c
    <3>2. Cardinality({i \in DOMAIN c : c[i].active}) = 1
      BY <3>1, OneActive
    <3> QED BY <3>2 DEF c
  <2> QED BY <2>1, ObjStep DEF DefsSound, Placed
<1> QED BY <1>2, <1>3, <1>4 DEF Typing

-----------------------------------------------------------------------------
(* The heap: nothing that is used is free, and the marking misses nothing. *)

LEMMA Kinds ==
    /\ SlotsOf("free") = {}
    /\ \A s \in Slots : s \in SlotsOf("cons")
    /\ KindTypes \cap {"free"} = {}
    /\ "cons" \notin Structs /\ "symbol" \notin Structs /\ "free" \notin Structs
    /\ \A s \in Slots : NoRefs[s] = NIL
    /\ Cells \subseteq Objs /\ Symbols \subseteq Objs /\ Cells \cap Symbols = {}
    /\ Objs = Cells \cup Symbols
BY ObjAssumption DEF SlotsOf, Slots, KindTypes, Structs, NoRefs, Objs

LEMMA HeapStored ==
    ASSUME Typing, Heap, NEW o \in Objs, NEW s \in Slots, NEW v \in Value, Stored(o, s, v)
    PROVE  Heap'
<1>1. PICK n : /\ Put(o, n) /\ SameSort(n, obj[o]) /\ SameFlag(n, obj[o])
               /\ n.ref \in {obj[o].ref, [obj[o].ref EXCEPT ![s] = v]}
  BY DEF Stored
<1>2. /\ obj' \in [Objs -> Object] /\ obj'[o] = n
      /\ \A p \in Objs : p # o => obj'[p] = obj[p]
  BY <1>1, Parts, PutIs
<1>3. /\ pc = "run" /\ pc' \in {"run", "crash"} /\ s \in SlotsOf(obj[o].type)
      /\ UNCHANGED <<locals, work, roots, marked>>
  BY DEF Stored
<1>4. /\ \A p \in Objs : SameSort(obj'[p], obj[p]) /\ SameFlag(obj'[p], obj[p])
  BY <1>1, <1>2 DEF SameSort, SameFlag
<1>5. \A r \in Slots : n.ref[r] = obj[o].ref[r] \/ (r = s /\ n.ref[r] = v)
  <2>1. obj[o].ref \in [Slots -> Ref]
    BY Parts, ObjectParts
  <2> QED BY <1>1, <2>1
<1>6. \A p \in Objs : p \in Live' <=> p \in Live
  BY <1>4 DEF Live, SameSort
<1>7. v # NIL => v \in Live /\ v \in Objs
  BY Parts DEF Value, Heap, Contained
<1>8. Phases' /\ Sorts' /\ Reaching'
  BY <1>3, <1>4, Kinds DEF Heap, Phases, Sorts, Reaching, SameSort, SameFlag
<1>9. locals' \subseteq Live'
  BY <1>3, <1>6, Parts DEF Heap, Contained
<1>10. ASSUME NEW p \in Objs, NEW r \in Slots, obj'[p].ref[r] # NIL
       PROVE  r \in SlotsOf(obj'[p].type) /\ obj'[p].ref[r] \in Live'
  <2>1. obj'[p].type = obj[p].type
    BY <1>4 DEF SameSort
  <2>2. CASE obj'[p].ref[r] = obj[p].ref[r]
    <3>1. r \in SlotsOf(obj[p].type) /\ obj[p].ref[r] \in Live /\ obj[p].ref[r] \in Objs
      BY <1>10, <2>2 DEF Heap, Contained, Live
    <3> QED BY <1>6, <2>1, <2>2, <3>1
  <2>3. CASE p = o /\ r = s /\ obj'[p].ref[r] = v
    BY <1>3, <1>6, <1>7, <1>10, <2>1, <2>3
  <2> QED BY <1>2, <1>5, <2>2, <2>3
<1>11. Contained'
  BY <1>9, <1>10 DEF Contained
<1> QED BY <1>8, <1>11 DEF Heap

LEMMA HeapLooked ==
    ASSUME Typing, Heap, Looked
    PROVE  Heap'
<1>1. /\ pc = "run" /\ UNCHANGED <<obj, work, roots, marked, pc>>
  BY DEF Looked
<1>2. Live' = Live
  BY <1>1 DEF Live
<1>3. locals' \subseteq Live
  BY DEF Looked, Heap, Contained
<1>4. Phases' /\ Sorts' /\ Reaching'
  BY <1>1 DEF Heap, Phases, Sorts, Reaching
<1>5. Contained'
  BY <1>1, <1>2, <1>3 DEF Heap, Contained
<1> QED BY <1>4, <1>5 DEF Heap

LEMMA HeapCreated ==
    ASSUME Typing, Heap, NEW c \in Cells, NEW x \in Value, NEW y \in Value, Created(c, x, y)
    PROVE  Heap'
<1>1. PICK n : /\ Put(c, n) /\ SameFlag(n, obj[c])
               /\ IsCons(n, x, y) \/ IsInstance(n, c)
  BY DEF Created
<1>2. /\ obj' \in [Objs -> Object] /\ obj'[c] = n /\ c \in Objs
      /\ \A p \in Objs : p # c => obj'[p] = obj[p]
  BY <1>1, Parts, PutIs, Kinds
<1>3. /\ pc = "run" /\ pc' \in {"run", "crash"} /\ obj[c].type = "free"
      /\ locals' = locals \cup {c}
      /\ UNCHANGED <<work, roots, marked>>
  BY DEF Created
<1>4. n.type = "cons" \/ (n.type \in Structs /\ n.cls \in Classes)
  BY <1>1 DEF IsCons, IsInstance
<1>5. \A p \in Objs : p \in Live' <=> p \in Live \/ p = c
  BY <1>2, <1>4, Kinds DEF Live
<1>6. Phases' /\ Reaching'
  BY <1>3 DEF Heap, Phases, Reaching
<1>7. Sorts'
  BY <1>2, <1>4, Kinds DEF Heap, Sorts, Structs
<1>8. locals' \subseteq Live'
  BY <1>2, <1>3, <1>5, Parts DEF Heap, Contained
<1>9. \A v \in Value : v # NIL => v \in Live /\ v \in Objs
  BY Parts DEF Value, Heap, Contained
<1>10. ASSUME NEW r \in Slots, n.ref[r] # NIL
       PROVE  r \in SlotsOf(n.type) /\ n.ref[r] \in Live'
  <2>1. CASE IsCons(n, x, y)
    <3>1. n.ref[r] \in {x, y} /\ n.type = "cons"
      BY <2>1 DEF IsCons
    <3> QED BY <1>5, <1>9, <1>10, <3>1, Kinds
  <2>2. CASE IsInstance(n, c)
    <3>1. n.ref[r] = obj[c].ref[r]
      BY <2>2 DEF IsInstance
    <3>2. obj[c].ref[r] = NIL
      BY <1>2, <1>3, Kinds DEF Heap, Contained
    <3> QED BY <1>10, <3>1, <3>2
  <2> QED BY <1>1, <2>1, <2>2
<1>11. ASSUME NEW p \in Objs, p # c, NEW r \in Slots, obj'[p].ref[r] # NIL
       PROVE  r \in SlotsOf(obj'[p].type) /\ obj'[p].ref[r] \in Live'
  <2>1. obj'[p] = obj[p]
    BY <1>2, <1>11
  <2>2. r \in SlotsOf(obj[p].type) /\ obj[p].ref[r] \in Live /\ obj[p].ref[r] \in Objs
    BY <1>11, <2>1 DEF Heap, Contained, Live
  <2> QED BY <1>5, <2>1, <2>2
<1>12. Contained'
  BY <1>2, <1>8, <1>10, <1>11 DEF Contained
<1> QED BY <1>6, <1>7, <1>12 DEF Heap

(* An update of flags only. *)
LEMMA HeapFlagged ==
    ASSUME Typing, Heap, NEW o \in Cells, NEW n, Put(o, n), SameSort(n, obj[o]), n.ref = obj[o].ref
    PROVE  /\ Live' = Live /\ Sorts'
           /\ \A p \in Objs : SameSort(obj'[p], obj[p]) /\ obj'[p].ref = obj[p].ref
<1>1. /\ obj' \in [Objs -> Object] /\ obj'[o] = n /\ o \in Objs
      /\ \A p \in Objs : p # o => obj'[p] = obj[p]
  BY Parts, PutIs, Kinds
<1>2. \A p \in Objs : SameSort(obj'[p], obj[p]) /\ obj'[p].ref = obj[p].ref
  BY <1>1 DEF SameSort
<1>3. Live' = Live
  BY <1>2 DEF Live, SameSort
<1>4. \A g \in Symbols : obj'[g] = obj[g]
  BY <1>1, Kinds
<1>5. Sorts'
  BY <1>2, <1>4, Kinds DEF Heap, Sorts, SameSort
<1> QED BY <1>2, <1>3, <1>5

LEMMA HeapAsserted ==
    ASSUME Typing, Heap, NEW c \in Cells, NEW ln \in Assertions, Asserted(c, ln)
    PROVE  Heap'
<1>1. /\ pc = "run" /\ UNCHANGED <<locals, work, roots, marked, pc>>
  BY DEF Asserted
<1>2. /\ Live' = Live /\ Sorts'
      /\ \A p \in Objs : SameSort(obj'[p], obj[p]) /\ obj'[p].ref = obj[p].ref
  <2>1. CASE UNCHANGED obj
    BY <2>1 DEF Heap, Sorts, Live, SameSort
  <2>2. CASE ~UNCHANGED obj
    BY <2>2, HeapFlagged DEF Asserted
  <2> QED BY <2>1, <2>2
<1>3. Phases' /\ Reaching'
  BY <1>1 DEF Heap, Phases, Reaching
<1>4. Contained'
  BY <1>1, <1>2 DEF Heap, Contained, SameSort
<1> QED BY <1>2, <1>3, <1>4 DEF Heap

LEMMA HeapStartGc ==
    ASSUME Typing, Heap, NEW cause \in Causes, StartGc(cause)
    PROVE  Heap'
<1>1. /\ pc = "run" /\ pc' = "mark" /\ roots' = locals \cup Symbols
      /\ UNCHANGED <<obj, locals, work, marked>>
  BY DEF StartGc
<1>2. work = <<>> /\ marked = {} /\ ToSet(work) = {} /\ Pending = {} /\ Pending' = {}
  <2>1. work = <<>> /\ marked = {}
    BY <1>1 DEF Heap, Phases
  <2>2. ToSet(work) = {}
    BY <2>1 DEF ToSet
  <2> QED BY <1>1, <2>1, <2>2 DEF Pending
<1>3. Live' = Live /\ Symbols \subseteq Live
  BY <1>1, Kinds DEF Live, Heap, Sorts
<1>4. Reaching'
  BY <1>1, <1>2, <1>3 DEF Heap, Contained, Reaching
<1>5. Phases' /\ Sorts' /\ Contained'
  BY <1>1, <1>3 DEF Heap, Phases, Sorts, Contained
<1> QED BY <1>4, <1>5 DEF Heap

LEMMA HeapTakeRoot ==
    ASSUME Typing, Heap, NEW r \in Objs, TakeRoot(r)
    PROVE  Heap'
<1> DEFINE w == [ptr |-> r, path |-> <<>>, fields |-> <<>>, via |-> 0]
<1>1. /\ pc = "mark" /\ work = <<>> /\ r \in roots /\ roots' = roots \ {r} /\ work' = <<w>>
      /\ UNCHANGED <<obj, locals, marked, pc>>
  BY DEF TakeRoot
<1>2. w.ptr = r /\ w.path = <<>>
  OBVIOUS
<1> HIDE DEF w
<1>3. Pending = {} /\ ToSet(work') = {w} /\ Pending' = {r}
  <2>1. ToSet(work) = {}
    BY <1>1 DEF ToSet
  <2>2. ToSet(<<w>>) = {w}
    <3>1. DOMAIN <<w>> = {1} /\ <<w>>[1] = w
      OBVIOUS
    <3> QED BY <3>1 DEF ToSet
  <2> QED BY <1>1, <1>2, <2>1, <2>2 DEF Pending
<1>4. Live' = Live
  BY <1>1 DEF Live
<1>5. DOMAIN w.path = {}
  BY <1>2
<1>6. Reaching'
  BY <1>1, <1>3, <1>4, <1>5 DEF Heap, Reaching
<1>7. Phases' /\ Sorts' /\ Contained'
  BY <1>1, <1>4 DEF Heap, Phases, Sorts, Contained
<1> QED BY <1>6, <1>7 DEF Heap

(* The calls before and after a visit. *)
LEMMA WorkAfter ==
    ASSUME Typing, Visited, work # <<>>
    PROVE  /\ Head(work) \in Call /\ Head(work).ptr \in Objs
           /\ ToSet(work) = {Head(work)} \cup ToSet(Tail(work))
           /\ ToSet(work') = ToSet(Children(Head(work))) \cup ToSet(Tail(work))
           /\ Pending = {Head(work).ptr} \cup {w.ptr : w \in ToSet(Tail(work))}
           /\ Pending' = {w.ptr : w \in ToSet(Children(Head(work)))}
                            \cup {w.ptr : w \in ToSet(Tail(work))}
<1>1. /\ Head(work) \in Call /\ Tail(work) \in Seq(Call)
      /\ ToSet(work) = {Head(work)} \cup ToSet(Tail(work))
  BY Parts, HeadTailSet
<1>2. Head(work).ptr \in Objs /\ Children(Head(work)) \in Seq(Call)
  BY <1>1, CallParts, ChildrenAre
<1>3. ToSet(work') = ToSet(Children(Head(work))) \cup ToSet(Tail(work))
  <2>1. work' = Children(Head(work)) \o Tail(work)
    BY DEF Visited
  <2>2. ToSet(Children(Head(work)) \o Tail(work))
           = ToSet(Children(Head(work))) \cup ToSet(Tail(work))
    <3> DEFINE a == Children(Head(work))
               b == Tail(work)
    <3>1. a \in Seq(Call) /\ b \in Seq(Call)
      BY <1>1, <1>2
    <3> HIDE DEF a, b
    <3>2. ToSet(a \o b) = ToSet(a) \cup ToSet(b)
      BY <3>1, ConcatSet
    <3> QED BY <3>2 DEF a, b
  <2> QED BY <2>1, <2>2
<1>4. Pending = {Head(work).ptr} \cup {w.ptr : w \in ToSet(Tail(work))}
  BY <1>1 DEF Pending
<1>5. Pending' = {w.ptr : w \in ToSet(Children(Head(work)))}
                    \cup {w.ptr : w \in ToSet(Tail(work))}
  BY <1>3 DEF Pending
<1> QED BY <1>1, <1>2, <1>3, <1>4, <1>5

LEMMA PathToLive ==
    ASSUME NEW w \in Call, w.ptr \in Live, \A i \in DOMAIN w.path : w.path[i] \in Live
    PROVE  \A i \in DOMAIN PathTo(w) : PathTo(w)[i] \in Live
<1>1. w.path \in Seq(Objs) /\ w.ptr \in Objs
  BY CallParts
<1>2. /\ DOMAIN Append(w.path, w.ptr) = DOMAIN w.path \cup {Len(w.path) + 1}
      /\ Append(w.path, w.ptr)[Len(w.path) + 1] = w.ptr
      /\ \A i \in DOMAIN w.path : Append(w.path, w.ptr)[i] = w.path[i]
  BY <1>1
<1>3. \A i \in DOMAIN Append(w.path, w.ptr) : Append(w.path, w.ptr)[i] \in Live
  BY <1>2
<1> QED BY <1>3 DEF PathTo

LEMMA HeapMarks ==
    ASSUME Typing, Heap, Marks
    PROVE  Heap'
<1> DEFINE w == Head(work)
           o == w.ptr
<1>0. /\ pc = "mark" /\ work # <<>> /\ UNCHANGED <<locals, roots>>
      /\ Reaching /\ Contained /\ Sorts
  BY DEF Marks, Heap
<1>1. CASE Passed
  <2>1. o \in marked /\ work' = Tail(work) /\ UNCHANGED <<obj, locals, roots, marked, pc>>
    BY <1>0, <1>1 DEF Passed
  <2>2. ToSet(work) = {w} \cup ToSet(Tail(work))
    BY <1>0, Parts, HeadTailSet
  <2>3. Pending = {o} \cup Pending' /\ Live' = Live /\ ToSet(work') \subseteq ToSet(work)
    BY <2>1, <2>2 DEF Pending, Live
  <2>4. Phases' /\ Sorts' /\ Contained'
    BY <1>0, <2>1, <2>3 DEF Phases, Sorts, Contained
  <2>5. Reaching'
    BY <1>0, <2>1, <2>3 DEF Reaching
  <2> QED BY <2>4, <2>5 DEF Heap
<1>2. CASE Visited
  <2>1. /\ w \in Call /\ o \in Objs
        /\ ToSet(work) = {w} \cup ToSet(Tail(work))
        /\ ToSet(work') = ToSet(Children(w)) \cup ToSet(Tail(work))
        /\ Pending = {o} \cup {x.ptr : x \in ToSet(Tail(work))}
        /\ Pending' = {x.ptr : x \in ToSet(Children(w))} \cup {x.ptr : x \in ToSet(Tail(work))}
    BY <1>0, <1>2, WorkAfter
  <2>2. /\ o \notin marked /\ marked' = marked \cup {o}
    BY <1>2 DEF Visited
  <2>3. /\ Live' = Live /\ Sorts'
        /\ \A p \in Objs : SameSort(obj'[p], obj[p]) /\ obj'[p].ref = obj[p].ref
    <3>1. CASE UNCHANGED obj
      BY <1>0, <3>1 DEF Sorts, Live, SameSort
    <3>2. CASE Reports(o)
      <4>1. obj[o].dead = "has"
        BY <3>2 DEF Reports, CanStageOne
      <4>2. o \in Cells
        BY <1>0, <2>1, <4>1, Kinds DEF Sorts
      <4>3. PICK n : Put(o, n) /\ SameSort(n, obj[o]) /\ n.ref = obj[o].ref
        BY <3>2 DEF Reports
      <4> QED BY <4>2, <4>3, HeapFlagged
    <3> QED BY <1>2, <3>1, <3>2 DEF Visited
  <2>4. pc' # "run"
    BY <1>0, <1>2 DEF Visited, Reports, Redefined
  <2>5. Contained'
    BY <1>0, <2>3 DEF Contained, SameSort
  <2> HIDE DEF w
  <2>6. /\ \A c \in ToSet(Children(w)) : c.ptr \in Live /\ c.path = PathTo(w)
        /\ \A s \in Slots : obj[o].ref[s] # NIL => obj[o].ref[s] \in Pending'
    <3>1. /\ \A c \in ToSet(Children(w)) :
                 /\ c.via \in Slots /\ c.ptr = obj[o].ref[c.via] /\ c.ptr # NIL
                 /\ c.path = PathTo(w)
          /\ \A s \in Slots : obj[o].ref[s] # NIL =>
                 \E c \in ToSet(Children(w)) : c.ptr = obj[o].ref[s]
      BY <2>1, ChildrenAre
    <3> QED BY <1>0, <2>1, <3>1 DEF Contained
  <2>7. o \in Live /\ \A i \in DOMAIN w.path : w.path[i] \in Live
    BY <1>0, <2>1 DEF Reaching
  <2>8. \A i \in DOMAIN PathTo(w) : PathTo(w)[i] \in Live
    BY <2>1, <2>7, PathToLive
  <2>9. roots' \cup marked' \cup Pending' \subseteq Live'
    BY <1>0, <2>1, <2>2, <2>3, <2>6, <2>7 DEF Reaching
  <2>10. \A x \in ToSet(work') : \A i \in DOMAIN x.path : x.path[i] \in Live'
    BY <1>0, <2>1, <2>3, <2>6, <2>8 DEF Reaching
  <2>11. \A p \in marked' : \A s \in Slots : obj'[p].ref[s] \in marked' \cup Pending' \cup {NIL}
    <3> SUFFICES ASSUME NEW p \in marked', NEW s \in Slots
                 PROVE  obj'[p].ref[s] \in marked' \cup Pending' \cup {NIL}
      OBVIOUS
    <3>1. p \in Objs
      BY <2>1, <2>2, Parts
    <3>2. obj'[p].ref[s] = obj[p].ref[s]
      BY <2>3, <3>1
    <3>3. CASE p = o
      BY <2>6, <3>2, <3>3
    <3>4. CASE p # o
      <4>1. obj[p].ref[s] \in marked \cup Pending \cup {NIL}
        BY <1>0, <2>2, <3>4 DEF Reaching
      <4> QED BY <2>1, <2>2, <3>2, <4>1
    <3> QED BY <3>3, <3>4
  <2>12. locals' \cup Symbols \subseteq marked' \cup roots' \cup Pending'
    BY <1>0, <2>1, <2>2 DEF Reaching
  <2>13. Reaching'
    BY <2>9, <2>10, <2>11, <2>12 DEF Reaching
  <2>14. Phases'
    BY <2>4 DEF Phases
  <2> QED BY <2>3, <2>5, <2>13, <2>14 DEF Heap
<1> QED BY <1>1, <1>2 DEF Marks

LEMMA HeapSwept ==
    ASSUME Typing, Heap, Swept
    PROVE  Heap'
<1>1. /\ pc = "mark" /\ work = <<>> /\ roots = {}
      /\ \A o \in Objs : /\ o \in marked => obj'[o] = obj[o]
                         /\ o \notin marked => obj'[o].type = "free" /\ obj'[o].ref = NoRefs
      /\ marked' = {} /\ pc' = "run" /\ UNCHANGED <<locals, work, roots>>
  BY DEF Swept
<1>2. Pending = {}
  <2>1. ToSet(work) = {}
    BY <1>1 DEF ToSet
  <2> QED BY <2>1 DEF Pending
<1>3. /\ locals \cup Symbols \subseteq marked /\ marked \subseteq Live /\ marked \subseteq Objs
      /\ \A o \in marked : \A s \in Slots : obj[o].ref[s] \in marked \cup {NIL}
  BY <1>1, <1>2, Parts DEF Heap, Reaching
<1>4. \A o \in Objs : o \in Live' <=> o \in marked
  BY <1>1, <1>3 DEF Live
<1>5. Phases' /\ Reaching'
  BY <1>1 DEF Phases, Reaching
<1>6. Sorts'
  BY <1>1, <1>3, Kinds DEF Heap, Sorts
<1>7. Contained'
  <2>1. locals' \subseteq Live'
    BY <1>1, <1>3, <1>4
  <2>2. ASSUME NEW o \in Objs, NEW s \in Slots, obj'[o].ref[s] # NIL
        PROVE  s \in SlotsOf(obj'[o].type) /\ obj'[o].ref[s] \in Live'
    <3>1. o \in marked /\ obj'[o] = obj[o]
      BY <1>1, <2>2, Kinds
    <3>2. obj[o].ref[s] \in marked /\ s \in SlotsOf(obj[o].type)
      BY <1>3, <2>2, <3>1 DEF Heap, Contained
    <3> QED BY <1>3, <1>4, <3>1, <3>2
  <2> QED BY <2>1, <2>2 DEF Contained
<1> QED BY <1>5, <1>6, <1>7 DEF Heap

LEMMA HeapStep ==
    ASSUME Typing, Heap, [Next]_vars
    PROVE  Heap'
<1>1. ASSUME UNCHANGED vars PROVE Heap'
  <2>1. UNCHANGED <<obj, locals, work, roots, marked, pc>>
    BY <1>1 DEF vars
  <2>2. Live' = Live /\ Pending' = Pending
    BY <2>1 DEF Live, Pending
  <2> QED BY <2>1, <2>2 DEF Heap, Phases, Sorts, Contained, Reaching
<1> QED BY <1>1, StepCases, HeapStored, HeapLooked, HeapCreated, HeapAsserted,
           HeapStartGc, HeapTakeRoot, HeapMarks, HeapSwept

-----------------------------------------------------------------------------
(* Flags and reports. *)

LEMMA FlagsSame ==
    ASSUME Flags, \A c \in Cells : SameFlag(obj'[c], obj[c]), callInfo' = callInfo
    PROVE  Flags'
BY DEF Flags, SameFlag

LEMMA FlagsAsserted ==
    ASSUME Typing, Flags, NEW c \in Cells, NEW ln \in Assertions, Asserted(c, ln)
    PROVE  Flags'
<1>1. CASE UNCHANGED <<obj, callInfo>>
  BY <1>1, FlagsSame DEF SameFlag
<1>2. CASE ~UNCHANGED <<obj, callInfo>>
  <2>1. /\ obj[c].dead = "no" /\ callInfo[ln] = "none"
        /\ callInfo' = [callInfo EXCEPT ![ln] = "rough"]
    BY <1>2 DEF Asserted
  <2>2. PICK n : Put(c, n) /\ n.dead = "has" /\ n.at = ln
    BY <1>2 DEF Asserted
  <2>3. /\ obj'[c].dead = "has" /\ obj'[c].at = ln
        /\ \A d \in Cells : d # c => obj'[d] = obj[d]
    BY <2>2, Parts, PutIs, Kinds
  <2>4. /\ callInfo'[ln] = "rough"
        /\ \A l \in Assertions : l # ln => callInfo'[l] = callInfo[l]
    BY <2>1, Parts
  <2>5. ASSUME NEW d \in Cells, d # c, obj[d].dead \in {"has", "had"}
        PROVE  obj[d].at # ln
    BY <2>1, <2>5 DEF Flags
  <2>6. \A d \in Cells : obj[d].dead \in {"no", "has", "had"}
    BY Parts, ObjectParts, Kinds
  <2>7. \A d \in Cells :
          /\ obj'[d].dead = "has" => obj'[d].at \in Assertions /\ callInfo'[obj'[d].at] = "rough"
          /\ obj'[d].dead = "had" => obj'[d].at \in Assertions /\ callInfo'[obj'[d].at] = "detailed"
    <3> SUFFICES ASSUME NEW d \in Cells
                 PROVE  /\ obj'[d].dead = "has" =>
                              obj'[d].at \in Assertions /\ callInfo'[obj'[d].at] = "rough"
                        /\ obj'[d].dead = "had" =>
                              obj'[d].at \in Assertions /\ callInfo'[obj'[d].at] = "detailed"
      OBVIOUS
    <3>1. CASE d = c
      BY <2>3, <2>4, <3>1
    <3>2. CASE d # c
      BY <2>3, <2>4, <2>5, <3>2 DEF Flags
    <3> QED BY <3>1, <3>2
  <2>8. \A l \in Assertions :
          /\ callInfo'[l] = "rough" => \E d \in Cells : obj'[d].dead = "has" /\ obj'[d].at = l
          /\ callInfo'[l] = "detailed" => \E d \in Cells : obj'[d].dead = "had" /\ obj'[d].at = l
    <3> SUFFICES ASSUME NEW l \in Assertions
                 PROVE  /\ callInfo'[l] = "rough" =>
                              \E d \in Cells : obj'[d].dead = "has" /\ obj'[d].at = l
                        /\ callInfo'[l] = "detailed" =>
                              \E d \in Cells : obj'[d].dead = "had" /\ obj'[d].at = l
      OBVIOUS
    <3>1. CASE l = ln
      BY <2>3, <2>4, <3>1
    <3>2. CASE l # ln
      <4>1. \A d \in Cells : obj[d].dead \in {"has", "had"} => obj'[d] = obj[d]
        BY <2>1, <2>3
      <4> QED BY <2>4, <3>2, <4>1 DEF Flags
    <3> QED BY <3>1, <3>2
  <2>9. ASSUME NEW d \in Cells, NEW e \in Cells, obj'[d].dead # "no", obj'[e].dead # "no",
               obj'[d].at = obj'[e].at
        PROVE  d = e
    <3>1. CASE d # c /\ e # c
      BY <2>3, <2>9, <3>1 DEF Flags
    <3>2. CASE d = c \/ e = c
      BY <2>3, <2>5, <2>6, <2>9, <3>2
    <3> QED BY <3>1, <3>2
  <2> QED BY <2>7, <2>8, <2>9 DEF Flags
<1> QED BY <1>1, <1>2

LEMMA FlagsReports ==
    ASSUME Typing, Flags, NEW o \in Cells, Reports(o)
    PROVE  Flags'
<1>1. /\ obj[o].dead = "has" /\ callInfo[obj[o].at] = "rough" /\ obj[o].at \in Assertions
      /\ callInfo' = [callInfo EXCEPT ![obj[o].at] = "detailed"]
  BY DEF Reports, CanStageOne, Flags
<1>2. PICK n : Put(o, n) /\ n.dead = "had" /\ n.at = obj[o].at
  BY DEF Reports
<1>3. /\ obj'[o].dead = "had" /\ obj'[o].at = obj[o].at
      /\ \A d \in Cells : d # o => obj'[d] = obj[d]
  BY <1>2, Parts, PutIs, Kinds
<1>4. /\ callInfo'[obj[o].at] = "detailed"
      /\ \A l \in Assertions : l # obj[o].at => callInfo'[l] = callInfo[l]
  BY <1>1, Parts
<1>5. ASSUME NEW d \in Cells, d # o, obj[d].dead \in {"has", "had"}
      PROVE  obj[d].at # obj[o].at
  BY <1>1, <1>5 DEF Flags
<1>6. \A d \in Cells :
        /\ obj'[d].dead = "has" => obj'[d].at \in Assertions /\ callInfo'[obj'[d].at] = "rough"
        /\ obj'[d].dead = "had" => obj'[d].at \in Assertions /\ callInfo'[obj'[d].at] = "detailed"
  <2> SUFFICES ASSUME NEW d \in Cells
               PROVE  /\ obj'[d].dead = "has" =>
                            obj'[d].at \in Assertions /\ callInfo'[obj'[d].at] = "rough"
                      /\ obj'[d].dead = "had" =>
                            obj'[d].at \in Assertions /\ callInfo'[obj'[d].at] = "detailed"
    OBVIOUS
  <2>1. CASE d = o
    BY <1>1, <1>3, <1>4, <2>1
  <2>2. CASE d # o
    BY <1>3, <1>4, <1>5, <2>2 DEF Flags
  <2> QED BY <2>1, <2>2
<1>7. \A l \in Assertions :
        /\ callInfo'[l] = "rough" => \E d \in Cells : obj'[d].dead = "has" /\ obj'[d].at = l
        /\ callInfo'[l] = "detailed" => \E d \in Cells : obj'[d].dead = "had" /\ obj'[d].at = l
  <2> SUFFICES ASSUME NEW l \in Assertions
               PROVE  /\ callInfo'[l] = "rough" =>
                            \E d \in Cells : obj'[d].dead = "has" /\ obj'[d].at = l
                      /\ callInfo'[l] = "detailed" =>
                            \E d \in Cells : obj'[d].dead = "had" /\ obj'[d].at = l
    OBVIOUS
  <2>1. CASE l = obj[o].at
    BY <1>3, <1>4, <2>1
  <2>2. CASE l # obj[o].at
    <3>1. callInfo'[l] = callInfo[l]
      BY <1>4, <2>2
    <3>2. \A d \in Cells : obj[d].at = l => obj'[d] = obj[d]
      BY <1>3, <2>2
    <3> QED BY <3>1, <3>2 DEF Flags
  <2> QED BY <2>1, <2>2
<1>8. ASSUME NEW d \in Cells, NEW e \in Cells, obj'[d].dead # "no", obj'[e].dead # "no",
             obj'[d].at = obj'[e].at
      PROVE  d = e
  <2>1. \A c \in Cells : obj'[c].at = obj[c].at /\ (obj'[c].dead # "no" => obj[c].dead # "no")
    BY <1>1, <1>3
  <2> QED BY <1>8, <2>1 DEF Flags
<1> QED BY <1>6, <1>7, <1>8 DEF Flags

(* Only objects with a flag are reported, and those are cells. *)
LEMMA ReportsCell ==
    ASSUME Typing, Heap, work # <<>>, Reports(Head(work).ptr)
    PROVE  Head(work).ptr \in Cells
<1>1. Head(work).ptr \in Objs
  BY Parts, HeadTailSet, CallParts
<1>2. obj[Head(work).ptr].dead = "has"
  BY DEF Reports, CanStageOne
<1> QED BY <1>1, <1>2, Kinds DEF Heap, Sorts

LEMMA FlagsStep ==
    ASSUME Typing, Heap, Flags, [Next]_vars
    PROVE  Flags'
<1>1. ASSUME NEW o \in Objs, NEW n, Put(o, n), SameFlag(n, obj[o]), callInfo' = callInfo
      PROVE  Flags'
  <2>1. \A c \in Cells : SameFlag(obj'[c], obj[c])
    BY <1>1, Parts, PutIs, Kinds DEF SameFlag
  <2> QED BY <1>1, <2>1, FlagsSame
<1>2. ASSUME UNCHANGED <<obj, callInfo>> PROVE Flags'
  BY <1>2, FlagsSame DEF SameFlag
<1>3. ASSUME NEW o \in Objs, NEW s \in Slots, NEW v \in Value, Stored(o, s, v) PROVE Flags'
  BY <1>1, <1>3 DEF Stored
<1>4. ASSUME NEW c \in Cells, NEW x \in Value, NEW y \in Value, Created(c, x, y) PROVE Flags'
  BY <1>1, <1>4, Kinds DEF Created
<1>5. ASSUME Swept PROVE Flags'
  BY <1>5, FlagsSame, Kinds DEF Swept
<1>6. ASSUME Marks PROVE Flags'
  BY <1>2, <1>6, FlagsReports, ReportsCell DEF Marks, Passed, Visited
<1> QED BY <1>2, <1>3, <1>4, <1>5, <1>6, StepCases, FlagsAsserted
        DEF Looked, StartGc, TakeRoot, vars

(* An object that still has its flag when it is visited is reported. *)
LEMMA ReportedStep ==
    ASSUME Typing, Heap, Flags, Reported, [Next]_vars
    PROVE  Reported'
<1>1. ASSUME Marks PROVE Reported'
  <2> DEFINE o == Head(work).ptr
  <2>1. pc = "mark" /\ work # <<>> /\ \A p \in marked : obj[p].dead # "has"
    BY <1>1 DEF Marks, Reported
  <2>2. CASE Passed
    BY <2>1, <2>2 DEF Passed, Reported
  <2>3. CASE Visited /\ Reports(o)
    <3>1. o \in Cells /\ o \in Objs
      BY <2>1, <2>3, ReportsCell, Kinds
    <3>2. PICK n : Put(o, n) /\ n.dead = "had"
      BY <2>3 DEF Reports
    <3>3. obj'[o].dead = "had" /\ \A p \in marked : p # o => obj'[p] = obj[p]
      BY <3>1, <3>2, Parts, PutIs
    <3> QED BY <2>1, <2>3, <3>3 DEF Visited, Reported
  <2>4. CASE Visited /\ ~CanStageOne(o) /\ UNCHANGED obj
    <3>1. obj[o].dead # "has"
      <4>1. o \in Objs
        BY <2>1, Parts, HeadTailSet, CallParts
      <4> QED BY <2>4, <4>1, Kinds DEF CanStageOne, Flags, Heap, Sorts
    <3> QED BY <2>1, <2>4, <3>1 DEF Visited, Reported
  <2>5. CASE pc' = "crash"
    BY <2>5 DEF Reported
  <2> QED BY <1>1, <2>2, <2>3, <2>4, <2>5 DEF Marks, Visited
<1>2. ASSUME pc' # "mark" PROVE Reported'
  BY <1>2 DEF Reported
<1>3. ASSUME UNCHANGED <<obj, marked, pc>> PROVE Reported'
  BY <1>3 DEF Reported
<1>4. ASSUME NEW cause \in Causes, StartGc(cause) PROVE Reported'
  BY <1>4 DEF StartGc, Heap, Phases, Reported
<1>5. ASSUME NEW c \in Cells, NEW ln \in Assertions, Asserted(c, ln) PROVE pc' # "mark"
  BY <1>5 DEF Asserted
<1> QED BY <1>1, <1>2, <1>3, <1>4, <1>5, StepCases DEF Stored, Looked, Created, TakeRoot, Swept, vars

-----------------------------------------------------------------------------
(* The definitions are ready for the links. *)

LEMMA ReadyStep ==
    ASSUME Typing, Heap, Ready, [Next]_vars
    PROVE  Ready'
<1>1. ASSUME NotedAll(links, links'), chains' = chains, pc = "run" PROVE Ready'
  <2>1. \A k \in Classes : WantedSlots(links', k) = WantedSlots(links, k)
    BY <1>1, Parts, NotedWanted
  <2> QED BY <1>1, <2>1 DEF Ready
<1>2. ASSUME links' = links, chains' = chains, pc \in {"run", "mark"} PROVE Ready'
  BY <1>2 DEF Ready
<1>3. ASSUME Redefined PROVE Ready'
  BY <1>3 DEF Redefined, Ready
<1>4. ASSUME Marks PROVE Ready'
  BY <1>2, <1>3, <1>4 DEF Marks, Passed, Visited, Reports
<1>5. ASSUME UNCHANGED vars PROVE Ready'
  BY <1>5 DEF vars, Ready
<1> QED BY <1>1, <1>2, <1>4, <1>5, StepCases
        DEF Stored, Looked, Created, Asserted, StartGc, TakeRoot, Swept

-----------------------------------------------------------------------------
(* The paths and their fields. *)

LEMMA InSeq ==
    ASSUME NEW T, NEW q \in Seq(T), NEW x \in ToSet(q)
    PROVE  x \in T
BY DEF ToSet

(* The types, the references and whose a cons is decide. *)
LEMMA LeadsStill ==
    ASSUME NEW o \in Objs, NEW s, NEW p, Leads(o, s, p),
           \A x \in Objs : /\ obj'[x].type = obj[x].type /\ obj'[x].ref = obj[x].ref
                           /\ obj'[x].external = obj[x].external
    PROVE  Leads(o, s, p)'
<1>1. \A q : IsInternal(q)' <=> IsInternal(q)
  BY DEF IsInternal
<1>2. ASSUME NEW S \in SUBSET Objs PROVE Passes(S)' <=> Passes(S)
  BY <1>1 DEF Passes
<1>3. ASSUME NEW S \in SUBSET Objs, o \in S, Passes(S)'
      PROVE  \E x \in S : s \in SlotsOf(obj'[x].type) /\ obj'[x].ref[s] = p
  <2>1. Passes(S)
    BY <1>2, <1>3
  <2>2. PICK x \in S : s \in SlotsOf(obj[x].type) /\ obj[x].ref[s] = p
    BY <1>3, <2>1 DEF Leads
  <2> QED BY <2>2
<1> QED BY <1>3 DEF Leads

LEMMA FitsStill ==
    ASSUME NEW w \in Call, Fits(w),
           \A x \in Objs : /\ obj'[x].type = obj[x].type /\ obj'[x].ref = obj[x].ref
                           /\ obj'[x].external = obj[x].external
    PROVE  Fits(w)'
<1>1. /\ w.path \in Seq(Objs) /\ DOMAIN w.path = 1..Len(w.path) /\ Len(w.path) \in Nat
      /\ w.fields \in Seq(Slots) /\ DOMAIN w.fields = 1..Len(w.fields) /\ Len(w.fields) \in Nat
  BY CallParts
<1>2. Len(w.fields) = IF w.path = <<>> THEN 0 ELSE Len(w.path) - 1
  BY DEF Fits
<1>3. \A i \in DOMAIN w.fields : w.path[i] \in Objs
  <2>1. \A i \in DOMAIN w.fields : i \in DOMAIN w.path
    BY <1>1, <1>2
  <2> QED BY <1>1, <2>1
<1>4. w.path # <<>> => w.path[Len(w.path)] \in Objs
  BY <1>1
<1>5. \A i \in DOMAIN w.fields : Leads(w.path[i], w.fields[i], w.path[i + 1])'
  BY <1>3, LeadsStill DEF Fits
<1>6. w.path # <<>> => Leads(w.path[Len(w.path)], w.via, w.ptr)'
  BY <1>4, LeadsStill DEF Fits
<1> QED BY <1>2, <1>5, <1>6 DEF Fits

(* The path grows by the object in hand and the fields by the slot it was  *)
(* reached through, or neither grows at an internal cons.                  *)
LEMMA FitsOn ==
    ASSUME NEW w \in Call, Fits(w)
    PROVE  /\ Len(FieldsTo(w)) = IF PathTo(w) = <<>> THEN 0 ELSE Len(PathTo(w)) - 1
           /\ \A i \in DOMAIN FieldsTo(w) :
                 Leads(PathTo(w)[i], FieldsTo(w)[i], PathTo(w)[i + 1])
<1> DEFINE p == w.path
           f == w.fields
           n == Len(p)
<1>1. /\ p \in Seq(Objs) /\ DOMAIN p = 1..n /\ n \in Nat
      /\ f \in Seq(Slots) /\ DOMAIN f = 1..Len(f) /\ Len(f) \in Nat
      /\ w.ptr \in Objs /\ w.via \in Slots
  BY CallParts
<1>2. /\ Len(f) = IF p = <<>> THEN 0 ELSE n - 1
      /\ \A i \in DOMAIN f : Leads(p[i], f[i], p[i + 1])
      /\ p # <<>> => Leads(p[n], w.via, w.ptr)
  BY DEF Fits
<1>3. CASE IsInternal(w.ptr)
  BY <1>2, <1>3 DEF PathTo, FieldsTo
<1>4. CASE ~IsInternal(w.ptr)
  <2> DEFINE q == PathTo(w)
             g == FieldsTo(w)
  <2>1. q = Append(p, w.ptr) /\ g = IF p = <<>> THEN f ELSE Append(f, w.via)
    BY <1>4 DEF PathTo, FieldsTo
  <2> HIDE DEF p, f, q, g
  <2>2. q # <<>> /\ Len(q) = n + 1 /\ q[n + 1] = w.ptr /\ \A i \in 1..n : q[i] = p[i]
    BY <1>1, <2>1
  <2>3. CASE p = <<>>
    <3>1. n = 0 /\ g = f /\ Len(f) = 0 /\ DOMAIN f = {}
      BY <1>1, <1>2, <2>1, <2>3
    <3> QED BY <2>2, <3>1 DEF q, g
  <2>4. CASE p # <<>>
    <3>1. Len(f) = n - 1 /\ n # 0 /\ g = Append(f, w.via)
      BY <1>1, <1>2, <2>1, <2>4
    <3>2. /\ Len(g) = n /\ DOMAIN g = 1..n /\ g[n] = w.via
          /\ \A i \in 1..(n - 1) : i \in DOMAIN f /\ g[i] = f[i]
      <4>1. /\ Append(f, w.via) \in Seq(Slots) /\ Len(Append(f, w.via)) = Len(f) + 1
            /\ Append(f, w.via)[Len(f) + 1] = w.via
            /\ \A i \in 1..Len(f) : Append(f, w.via)[i] = f[i]
        BY <1>1
      <4>2. n \in Nat /\ Len(f) + 1 = n /\ DOMAIN f = 1..(n - 1)
        BY <1>1, <3>1
      <4> HIDE DEF n
      <4>3. DOMAIN g = 1..Len(g)
        BY <3>1, <4>1
      <4> QED BY <3>1, <4>1, <4>2, <4>3
    <3>3. ASSUME NEW i \in DOMAIN g PROVE Leads(q[i], g[i], q[i + 1])
      <4>1. CASE i = n
        BY <1>1, <1>2, <2>2, <2>4, <3>1, <3>2, <4>1
      <4>2. CASE i # n
        <5>1. i \in 1..(n - 1) /\ i \in 1..n /\ i + 1 \in 1..n
          BY <1>1, <3>2, <4>2
        <5> QED BY <1>2, <2>2, <3>2, <5>1
      <4> QED BY <4>1, <4>2
    <3> QED BY <1>1, <2>2, <3>2, <3>3 DEF q, g
  <2> QED BY <2>3, <2>4
<1> QED BY <1>3, <1>4

(* A slot of the object in hand leads on from the last object of the path, *)
(* also when the object in hand is internal and so not that one.           *)
LEMMA LeadsChild ==
    ASSUME NEW w \in Call, Fits(w), NEW s, NEW p, PathTo(w) # <<>>,
           s \in SlotsOf(obj[w.ptr].type), obj[w.ptr].ref[s] = p
    PROVE  Leads(PathTo(w)[Len(PathTo(w))], s, p)
<1>1. /\ w.path \in Seq(Objs) /\ w.ptr \in Objs
  BY CallParts
<1>2. CASE IsInternal(w.ptr)
  <2>1. PathTo(w) = w.path
    BY <1>2 DEF PathTo
  <2>2. Leads(w.path[Len(w.path)], w.via, w.ptr)
    BY <2>1 DEF Fits
  <2>3. ASSUME NEW S \in SUBSET Objs, w.path[Len(w.path)] \in S, Passes(S) PROVE w.ptr \in S
    <3>1. PICK x \in S : w.via \in SlotsOf(obj[x].type) /\ obj[x].ref[w.via] = w.ptr
      BY <2>2, <2>3 DEF Leads
    <3> QED BY <1>2, <2>3, <3>1 DEF Passes
  <2> QED BY <2>1, <2>3 DEF Leads
<1>3. CASE ~IsInternal(w.ptr)
  <2>1. PathTo(w)[Len(PathTo(w))] = w.ptr
    BY <1>1, <1>3 DEF PathTo
  <2> QED BY <2>1 DEF Leads
<1> QED BY <1>2, <1>3

LEMMA PathsStep ==
    ASSUME Typing, Heap, Paths, [Next]_vars
    PROVE  Paths'
<1> DEFINE Goal == \A w \in ToSet(work') : Fits(w)'
<1>1. ASSUME work' = <<>> PROVE Goal
  BY <1>1 DEF ToSet
<1>2. ASSUME pc = "run", work' = work PROVE Goal
  BY <1>1, <1>2 DEF Heap, Phases
<1>3. ASSUME UNCHANGED <<obj, work>> PROVE Goal
  <2>1. ASSUME NEW w \in ToSet(work) PROVE Fits(w)'
    <3>1. w \in Call /\ Fits(w)
      BY Parts, InSeq DEF Paths
    <3> QED BY <1>3, <3>1, FitsStill
  <2> QED BY <1>3, <2>1
<1>4. ASSUME NEW r \in Objs, TakeRoot(r) PROVE Goal
  <2> DEFINE w == [ptr |-> r, path |-> <<>>, fields |-> <<>>, via |-> 0]
  <2>1. work' = <<w>>
    BY <1>4 DEF TakeRoot
  <2>2. Fits(w)'
    BY DEF Fits
  <2>3. ToSet(<<w>>) = {w}
    <3> HIDE DEF w
    <3>1. DOMAIN <<w>> = {1} /\ <<w>>[1] = w
      OBVIOUS
    <3> QED BY <3>1 DEF ToSet
  <2> HIDE DEF w
  <2> QED BY <2>1, <2>2, <2>3
<1>5. ASSUME Marks PROVE Goal
  <2> DEFINE w == Head(work)
  <2>1. /\ work # <<>> /\ ToSet(work) = {w} \cup ToSet(Tail(work)) /\ ToSet(work) \subseteq Call
    BY <1>5, Parts, HeadTailSet DEF Marks
  <2>2. CASE Passed
    <3>1. ToSet(work') \subseteq ToSet(work) /\ obj' = obj
      BY <2>1, <2>2 DEF Passed
    <3>2. ASSUME NEW c \in ToSet(work') PROVE Fits(c)'
      <4>1. c \in Call /\ Fits(c)
        BY <2>1, <3>1 DEF Paths
      <4> QED BY <3>1, <4>1, FitsStill
    <3> QED BY <3>2
  <2>3. CASE Visited
    <3>1. /\ ToSet(work') = ToSet(Children(w)) \cup ToSet(Tail(work))
          /\ w \in Call /\ w.ptr \in Objs
      BY <2>1, <2>3, WorkAfter
    <3>2. \A o \in Objs : /\ obj'[o].type = obj[o].type /\ obj'[o].ref = obj[o].ref
                          /\ obj'[o].external = obj[o].external
      <4>1. CASE UNCHANGED obj
        BY <4>1
      <4>2. CASE Reports(w.ptr)
        <5>1. w.ptr \in Cells
          BY <2>1, <4>2, ReportsCell
        <5> QED BY <4>2, <5>1, HeapFlagged DEF Reports, SameSort
      <4> QED BY <2>3, <4>1, <4>2 DEF Visited
    <3>3. Fits(w)
      BY <2>1 DEF Paths
    <3>4. ASSUME NEW c \in ToSet(Children(w)) PROVE Fits(c)'
      <4>1. /\ c \in Call /\ c.via \in Slots
            /\ c.ptr = obj[w.ptr].ref[c.via] /\ c.ptr # NIL
            /\ c.path = PathTo(w) /\ c.fields = FieldsTo(w)
        BY <3>1, ChildrenAre
      <4>2. c.via \in SlotsOf(obj[w.ptr].type)
        BY <3>1, <4>1 DEF Heap, Contained
      <4>3. c.path # <<>> => Leads(c.path[Len(c.path)], c.via, c.ptr)
        BY <3>1, <3>3, <4>1, <4>2, LeadsChild
      <4>4. Fits(c)
        BY <3>1, <3>3, <4>1, <4>3, FitsOn DEF Fits
      <4> QED BY <3>2, <4>1, <4>4, FitsStill
    <3>5. ASSUME NEW c \in ToSet(Tail(work)) PROVE Fits(c)'
      <4>1. c \in Call /\ Fits(c)
        BY <2>1 DEF Paths
      <4> QED BY <3>2, <4>1, FitsStill
    <3> QED BY <3>1, <3>4, <3>5
  <2> QED BY <1>5, <2>2, <2>3 DEF Marks
<1>6. ASSUME Swept PROVE Goal
  BY <1>1, <1>6 DEF Swept
<1> HIDE DEF Goal
<1>7. Goal
  BY <1>2, <1>3, <1>4, <1>5, <1>6, StepCases
     DEF Stored, Looked, Created, Asserted, StartGc, vars
<1> QED BY <1>7 DEF Goal, Paths

-----------------------------------------------------------------------------
(* The theorems. *)

LEMMA InitTyping == Init => Typing
<1> SUFFICES ASSUME Init PROVE Typing
  OBVIOUS
<1>1. Blank("symbol") \in Object /\ Blank("free") \in Object
  BY DEF Blank, Object, KindTypes, SiteValues, NoRefs, NoSites, Ref
<1>2. obj \in [Objs -> Object]
  BY <1>1 DEF Init
<1>3. /\ FirstDef \in StructDef /\ FirstDef.active /\ FirstDef.slots = <<>>
  BY DEF FirstDef, StructDef
<1>4. chains \in [Classes -> Seq(StructDef)]
  BY <1>3 DEF Init
<1>5. TypeOK
  BY <1>2, <1>4 DEF Init, TypeOK, Causes
<1>6. Attributed
  BY DEF Init, Attributed
<1>7. \A k \in Classes : GoodChain(chains[k])
  <2> SUFFICES ASSUME NEW k \in Classes PROVE GoodChain(chains[k])
    OBVIOUS
  <2>1. chains[k] = <<FirstDef>> /\ <<FirstDef>> \in Seq(StructDef)
    BY <1>3 DEF Init
  <2>2. DOMAIN <<FirstDef>> = {1} /\ <<FirstDef>>[1] = FirstDef
    OBVIOUS
  <2> QED BY <1>3, <2>1, <2>2 DEF GoodChain
<1>8. \A k \in Classes : Cardinality({i \in DOMAIN chains[k] : chains[k][i].active}) = 1
  BY <1>4, <1>7, OneActive
<1>9. \A o \in Objs : obj[o].type \notin Structs
  BY DEF Init, Blank, Structs
<1>10. DefsSound
  BY <1>8, <1>9 DEF DefsSound
<1> QED BY <1>5, <1>6, <1>10 DEF Typing

LEMMA InitHolds == Init => IInv
<1> SUFFICES ASSUME Init PROVE IInv
  OBVIOUS
<1>1. Typing
  BY InitTyping
<1>2. \A o \in Objs : /\ obj[o].type = IF o \in Symbols THEN "symbol" ELSE "free"
                      /\ obj[o].ref = NoRefs /\ obj[o].dead = "no"
  BY DEF Init, Blank
<1>3. /\ links = <<>> /\ locals = {} /\ work = <<>> /\ roots = {} /\ marked = {} /\ pc = "run"
      /\ callInfo = [l \in Assertions |-> "none"]
  BY DEF Init
<1>4. Heap
  <2>1. Phases /\ Reaching
    BY <1>3 DEF Phases, Reaching
  <2>2. Sorts
    BY <1>2, Kinds DEF Sorts
  <2>3. Contained
    BY <1>2, <1>3, Kinds DEF Contained
  <2> QED BY <2>1, <2>2, <2>3 DEF Heap
<1>5. Reported /\ Flags
  BY <1>2, <1>3, Kinds DEF Reported, Flags
<1>6. Ready
  <2> SUFFICES ASSUME NEW k \in Classes PROVE WantedSlots(links, k) = <<>>
    BY DEF Ready
  <2>1. SlotsWaited(links, k) = <<>>
    BY <1>3 DEF SlotsWaited
  <2>2. SlotsWaited(links, k) \in Seq(Seq({}))
    BY <2>1
  <2>3. WantedSlots(links, k) \in Seq({})
    BY <2>2, WantedType
  <2> QED BY <2>3
<1>7. Paths
  <2>1. ToSet(work) = {}
    BY <1>3 DEF ToSet
  <2> QED BY <2>1 DEF Paths
<1> QED BY <1>1, <1>4, <1>5, <1>6, <1>7 DEF IInv

LEMMA NextKeeps == IInv /\ [Next]_vars => IInv'
<1> SUFFICES ASSUME IInv, [Next]_vars PROVE IInv'
  OBVIOUS
<1>1. Typing /\ Heap /\ Reported /\ Flags /\ Ready /\ Paths
  BY DEF IInv
<1>2. Typing' /\ Heap'
  BY <1>1, TypingStep, HeapStep
<1>3. Reported' /\ Flags' /\ Ready' /\ Paths'
  BY <1>1, ReportedStep, FlagsStep, ReadyStep, PathsStep
<1> QED BY <1>2, <1>3 DEF IInv

(* The invariant of the whole facility: its state is well typed, what it   *)
(* uses is not free, its flags and calls agree, its links and definitions  *)
(* are sound and its paths and their fields are in step.                   *)
THEOREM Invariance == Spec => []IInv
<1>1. Init => IInv
  BY InitHolds
<1>2. IInv /\ [Next]_vars => IInv'
  BY NextKeeps
<1> QED BY <1>1, <1>2, PTL DEF Spec

(* The state is well typed in every state of every run: links, chains and  *)
(* the stack of gc_mark hold what the code takes them to hold, and the     *)
(* active element of a link is one of its elements.                        *)
THEOREM TypeCorrect == Spec => []TypeOK
<1>1. IInv => TypeOK
  BY DEF IInv, Typing
<1> QED BY <1>1, Invariance, PTL

(* try_record_assign_site and try_update_obj_link_active_info keep every   *)
(* link checked up to its active element and never past it.                *)
THEOREM LinksAttributed == Spec => []Attributed
<1>1. IInv => Attributed
  BY DEF IInv, Typing
<1> QED BY <1>1, Invariance, PTL

(* get_active_struct_def_obj never finds none or two, and an instance has  *)
(* room for lines as its definition says.                                  *)
THEOREM DefinitionsSound == Spec => []DefsSound
<1>1. IInv => DefsSound
  BY DEF IInv, Typing
<1> QED BY <1>1, Invariance, PTL

(* Between collections, the active definition of a class names every slot  *)
(* that a link waits for in it (try_update_all_struct_defs).               *)
THEOREM ClassesInstrumented == Spec => []Instrumented
<1>1. IInv => Instrumented
  <2> SUFFICES ASSUME IInv, pc = "run", NEW k \in Classes, WantedSlots(links, k) # <<>>
               PROVE  ToSet(WantedSlots(links, k))
                         \subseteq ToSet(chains[k][ActiveDef(chains[k])].slots)
    BY DEF Instrumented
  <2> QED BY DEF IInv, Ready
<1> QED BY <1>1, Invariance, PTL

(* The table of calls and the flags of the cells agree: a call is rough    *)
(* while one cell has its flag up, and detailed while one cell had it.     *)
THEOREM CallsAgree == Spec => []CallInfoAgrees
<1>1. IInv => CallInfoAgrees
  <2> SUFFICES ASSUME IInv, NEW ln \in Assertions
               PROVE  LET flagged(d) == {c \in Cells : obj[c].dead = d /\ obj[c].at = ln}
                      IN  /\ pc \in {"run", "mark"} =>
                               /\ callInfo[ln] = "rough" <=> Cardinality(flagged("has")) = 1
                               /\ callInfo[ln] = "detailed" <=> Cardinality(flagged("had")) = 1
                          /\ callInfo[ln] = "none" => flagged("has") \cup flagged("had") = {}
    BY DEF CallInfoAgrees
  <2> DEFINE flagged(d) == {c \in Cells : obj[c].dead = d /\ obj[c].at = ln}
  <2>1. Flags
    BY DEF IInv
  <2>2. callInfo[ln] # "rough" => flagged("has") = {}
    BY <2>1 DEF Flags
  <2>3. callInfo[ln] # "detailed" => flagged("had") = {}
    BY <2>1 DEF Flags
  <2>4. callInfo[ln] = "rough" => \E c : flagged("has") = {c}
    <3> SUFFICES ASSUME callInfo[ln] = "rough" PROVE \E c : flagged("has") = {c}
      OBVIOUS
    <3>1. PICK c \in Cells : obj[c].dead = "has" /\ obj[c].at = ln
      BY <2>1 DEF Flags
    <3>2. flagged("has") = {c}
      BY <2>1, <3>1 DEF Flags
    <3> QED BY <3>2
  <2>5. callInfo[ln] = "detailed" => \E c : flagged("had") = {c}
    <3> SUFFICES ASSUME callInfo[ln] = "detailed" PROVE \E c : flagged("had") = {c}
      OBVIOUS
    <3>1. PICK c \in Cells : obj[c].dead = "had" /\ obj[c].at = ln
      BY <2>1 DEF Flags
    <3>2. flagged("had") = {c}
      BY <2>1, <3>1 DEF Flags
    <3> QED BY <3>2
  <2>6. \A S : S = {} => Cardinality(S) # 1
    BY FS_EmptySet
  <2>7. \A S : (\E c : S = {c}) => Cardinality(S) = 1
    BY FS_Singleton
  <2> HIDE DEF flagged
  <2>8. /\ callInfo[ln] = "rough" <=> Cardinality(flagged("has")) = 1
        /\ callInfo[ln] = "detailed" <=> Cardinality(flagged("had")) = 1
        /\ callInfo[ln] = "none" => flagged("has") \cup flagged("had") = {}
    BY <2>2, <2>3, <2>4, <2>5, <2>6, <2>7
  <2> QED BY <2>8 DEF flagged
<1> QED BY <1>1, Invariance, PTL

(* When a marking is over, no object that stays still has its flag up:     *)
(* every assertion about a reachable object was reported.                  *)
THEOREM NoAssertionMissed == Spec => []NoneMissed
<1>1. IInv => NoneMissed
  BY DEF IInv, Reported, NoneMissed
<1> QED BY <1>1, Invariance, PTL

(* The buffers of gc_mark stay in step over internal conses: in every call *)
(* it makes there is one field between each two objects of the path, the   *)
(* slot by which the first, or the last internal cons between them, refers *)
(* to the second.                                                          *)
THEOREM FieldsLeadOn == Spec => []FieldsLead
<1>1. IInv => FieldsLead
  <2> SUFFICES ASSUME IInv, NEW w \in ToSet(work)
               PROVE  LET path == PathTo(w)
                          fields == FieldsTo(w)
                      IN  /\ Len(fields) = IF path = <<>> THEN 0 ELSE Len(path) - 1
                          /\ \A i \in DOMAIN fields : Leads(path[i], fields[i], path[i + 1])
    BY DEF FieldsLead
  <2>1. w \in Call /\ Fits(w)
    BY Parts, InSeq DEF IInv, Paths
  <2> QED BY <2>1, FitsOn
<1> QED BY <1>1, Invariance, PTL

(* gc_mark, the recording and the struct definitions never take back what  *)
(* was learnt: links advance one element at a time and stay checked, and a *)
(* call of assert-dead goes from none to rough to detailed.                *)
THEOREM Learning == Spec => Learns
<1>1. IInv /\ [Next]_vars => Learnt
  <2> SUFFICES ASSUME IInv, [Next]_vars PROVE Learnt
    OBVIOUS
  <2>1. Typing /\ Heap /\ Flags
    BY DEF IInv
  <2>2. Moved
    BY <2>1, LinksStep
  <2>3. \A ln \in Assertions : callInfo[ln] \in {"none", "rough", "detailed"}
    BY <2>1, Parts
  <2>4. \/ callInfo' = callInfo
        \/ \E ln \in Assertions :
              callInfo[ln] = "none" /\ callInfo' = [callInfo EXCEPT ![ln] = "rough"]
        \/ \E ln \in Assertions :
              callInfo[ln] = "rough" /\ callInfo' = [callInfo EXCEPT ![ln] = "detailed"]
    <3>1. ASSUME NEW c \in Cells, NEW ln \in Assertions, Asserted(c, ln)
          PROVE  \/ callInfo' = callInfo
                 \/ callInfo[ln] = "none" /\ callInfo' = [callInfo EXCEPT ![ln] = "rough"]
      BY <3>1 DEF Asserted
    <3>2. ASSUME Marks
          PROVE  \/ callInfo' = callInfo
                 \/ \E ln \in Assertions :
                       callInfo[ln] = "rough" /\ callInfo' = [callInfo EXCEPT ![ln] = "detailed"]
      <4>1. callInfo' = callInfo \/ Reports(Head(work).ptr)
        BY <3>2 DEF Marks, Passed, Visited
      <4>2. ASSUME Reports(Head(work).ptr)
            PROVE  \E ln \in Assertions :
                       callInfo[ln] = "rough" /\ callInfo' = [callInfo EXCEPT ![ln] = "detailed"]
        <5>1. Head(work).ptr \in Cells
          BY <2>1, <3>2, <4>2, ReportsCell DEF Marks
        <5>2. obj[Head(work).ptr].at \in Assertions
          BY <2>1, <4>2, <5>1 DEF Flags, Reports, CanStageOne
        <5> QED BY <4>2, <5>2 DEF Reports, CanStageOne
      <4> QED BY <4>1, <4>2
    <3> QED BY <2>1, <3>1, <3>2, StepCases
            DEF Stored, Looked, Created, StartGc, TakeRoot, Swept, vars
  <2>5. \A ln \in Assertions :
           <<callInfo[ln], callInfo'[ln]>> \in
              {<<"none", "none">>, <<"none", "rough">>, <<"rough", "rough">>,
               <<"rough", "detailed">>, <<"detailed", "detailed">>}
    <3>1. callInfo \in [Assertions -> {"none", "rough", "detailed"}]
      BY <2>1, Parts
    <3> QED BY <2>3, <2>4, <3>1
  <2> QED BY <2>2, <2>5 DEF Learnt, Moved, Follows
<1>2. IInv /\ [Next]_vars => [Learnt]_vars
  BY <1>1
<1> QED BY <1>2, Invariance, PTL DEF Spec, Learns
=============================================================================
