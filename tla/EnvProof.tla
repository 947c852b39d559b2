------------------------------- MODULE EnvProof -------------------------------
(***************************************************************************)
(* Lexical scope in environments, for any parameter lists, frames and      *)
(* depth of re-entries.                                                    *)
(*                                                                         *)
(* What scope means for a variable and what the code looks up are the      *)
(* same frame by frame (InStep), but for the frames a define is in the     *)
(* middle of, whose formals are one ahead (HalfStep), and those that       *)
(* something came to use or change meanwhile (spoilt).  To know that the   *)
(* store of the actuals mends the one and not the other takes:             *)
(*   - that a cons is in the actuals of one frame only, so that set! in    *)
(*     one frame changes none beside it (Owned);                           *)
(*   - that the formals alone say what a variable of a frame can mean,     *)
(*     also in a spoilt frame, so that the frame the code finds and the    *)
(*     one scope finds are the same (Named), with the frames that lack an  *)
(*     actual never extended (Lacking);                                    *)
(*   - that the list of formals a call has read is a tail of the frame's,  *)
(*     and what the form put before it are new names (NamesNew), and       *)
(*     that of two calls about one frame the inner has spoilt it for the   *)
(*     outer (Nested).                                                     *)
(***************************************************************************)
EXTENDS Env, SequenceTheorems, WellFoundedInduction, TLAPS

(* The position of v among the formals fl, or their number. *)
Hits(v, fl) == {i \in DOMAIN fl : fl[i] = v}
Place(v, fl) == IF Hits(v, fl) = {} THEN Len(fl) ELSE First(Hits(v, fl))

(* The values of the actuals al behind the n-th, in the conses vals. *)
Behind(al, n, vals) == [k \in DOMAIN After(al, n) |-> vals[After(al, n)[k]]]

(* What a frame of these lists says of v is what m says. *)
Matches(v, fl, rest, al, vals, m) ==
    IF Place(v, fl) > Len(al) THEN m.is = "error"
    ELSE IF Hits(v, fl) # {} THEN m.is = "bound" /\ m.value = vals[al[Place(v, fl)]]
    ELSE IF rest = v THEN m.is = "rest" /\ m.value = Behind(al, Place(v, fl), vals)
    ELSE m.is = "none"

(* What variables, frames and the calls of leval_define are made of. *)
Made == 1..Len(frames)
Meaning == [is : {"none", "error"}] \cup [is : {"bound"}, value : Values]
              \cup [is : {"rest"}, value : Seq(Values)]
Frame == [fl : Seq(Vars), rest : Vars \cup {None}, up : Nat, al : Seq(Nat)]
Naming == [proc : {"define"}, at : {"formals"}, gc : BOOLEAN, var : Vars,
           val : Values, env : Nat, list : Seq(Vars)]
Valuing == [proc : {"define"}, at : {"actuals"}, gc : BOOLEAN, var : Vars,
            val : Values, env : Nat, list : Seq(Nat)]
Defining == Naming \cup Valuing
Call == Defining \cup {AfterGc}

Typing ==
    /\ frames \in Seq(Frame) /\ \A f \in Made : frames[f].up < f
    /\ cells \in Seq(Values)
    /\ scope \in Seq([Vars -> Meaning]) /\ Len(scope) = Len(frames)
    /\ spoilt \subseteq Made
    /\ calls \in Seq(Call)
    /\ \A i \in DOMAIN calls : calls[i] \in Defining => calls[i].env \in Made

(* Each cons is in the actuals of one frame, also those that a call has    *)
(* read and will store, and once.                                          *)
Owns(f, al, owner) ==
    /\ \A k \in DOMAIN al : al[k] \in DOMAIN owner /\ owner[al[k]] = f
    /\ \A k, l \in DOMAIN al : al[k] = al[l] => k = l
Owned == \E owner \in [DOMAIN cells -> Made] :
            /\ \A f \in Made : Owns(f, frames[f].al, owner)
            /\ \A i \in DOMAIN calls :
                  calls[i] \in Valuing => Owns(calls[i].env, calls[i].list, owner)

(* The formals alone, in step or not: a formal is bound, or its actual was *)
(* missing from the start.                                                 *)
Binding(v, fl, rest) ==
    IF Hits(v, fl) # {} THEN {"bound", "error"}
    ELSE IF rest = v THEN {"rest", "error"} ELSE {"none", "error"}
Named == \A f \in Made, v \in Vars :
            scope[f][v].is \in Binding(v, frames[f].fl, frames[f].rest)

(* A frame in which an actual is missing is never extended. *)
Lacking == \A f \in Made, v \in Vars : scope[f][v].is = "error" =>
              /\ f \notin spoilt
              /\ \A i \in DOMAIN calls : calls[i] \in Defining => calls[i].env # f

(* The formals fl are those of old with others in front, of new names. *)
Renewed(old, fl, rest) ==
    \E new \in Seq(Vars) :
       /\ fl = new \o old
       /\ \A k \in DOMAIN new : new[k] # rest /\ Hits(new[k], old) = {}

(* A call that has read the formals will store them with its variable, and *)
(* so will those of the same frame outside of it.                          *)
NamesNew == \A i \in DOMAIN calls : calls[i] \in Naming =>
               LET d == calls[i] IN
               /\ Renewed(d.list, frames[d.env].fl, frames[d.env].rest)
               /\ Hits(d.var, d.list) = {} /\ d.var # frames[d.env].rest
Nested == \A i, j \in DOMAIN calls :
             i < j /\ calls[i] \in Defining /\ calls[j] \in Defining
                   /\ calls[i].env = calls[j].env =>
                /\ calls[i] \in Valuing => calls[i].env \in spoilt
                /\ calls[i] \in Naming /\ calls[j] \in Naming =>
                      Renewed(calls[i].list, calls[j].list, frames[calls[i].env].rest)

(* A frame which is neither spoilt nor half extended says what scope says, *)
(* and one half extended does so without its new formal.                   *)
Agrees(f, fl, v) == Matches(v, fl, frames[f].rest, frames[f].al, cells, scope[f][v])
InStep == \A f \in Made \ (spoilt \cup Half(calls)), v \in Vars :
             Agrees(f, frames[f].fl, v)
HalfStep == \A i \in DOMAIN calls : calls[i] \in Valuing /\ calls[i].env \notin spoilt =>
               LET d == calls[i] IN
               /\ scope[d.env][d.var] = [is |-> "bound", value |-> d.val]
               /\ \E fl \in Seq(Vars) :
                     /\ frames[d.env].fl = <<d.var>> \o fl
                     /\ \A v \in Vars \ {d.var} : Agrees(d.env, fl, v)

IInv == /\ Typing /\ Owned /\ Named /\ Lacking
        /\ NamesNew /\ Nested /\ InStep /\ HalfStep

-----------------------------------------------------------------------------
(* Positions in lists. *)

(* First is the least number. *)
LEMMA FirstIs ==
    ASSUME NEW S \in SUBSET Nat, S # {}
    PROVE  First(S) \in S /\ \A j \in S : First(S) <= j
<1> DEFINE R == OpToRel(<, Nat)
<1>1. IsWellFoundedOn(R, Nat)
  BY NatLessThanWellFounded
<1>2. \A i, j \in Nat : i < j => <<i, j>> \in R
  BY DEF OpToRel
<1> HIDE DEF R
<1>3. PICK i \in S : \A j \in S : ~(<<j, i>> \in R)
  BY <1>1, WFMin
<1>4. \A j \in S : i <= j
  <2> SUFFICES ASSUME NEW j \in S PROVE i <= j
    OBVIOUS
  <2>1. ~(j < i)
    BY <1>2, <1>3
  <2> QED BY <2>1
<1> QED BY <1>4 DEF First

LEMMA PlaceIs ==
    ASSUME NEW T, NEW fl \in Seq(T), NEW v
    PROVE  /\ Place(v, fl) \in 0..Len(fl)
           /\ Hits(v, fl) = {} => Place(v, fl) = Len(fl)
           /\ Hits(v, fl) # {} => /\ Place(v, fl) \in DOMAIN fl /\ fl[Place(v, fl)] = v
                                  /\ \A j \in DOMAIN fl : fl[j] = v => Place(v, fl) <= j
<1>1. Len(fl) \in Nat /\ DOMAIN fl = 1..Len(fl) /\ Hits(v, fl) \in SUBSET Nat
  BY DEF Hits
<1>2. CASE Hits(v, fl) = {}
  BY <1>1, <1>2 DEF Place
<1>3. CASE Hits(v, fl) # {}
  <2>1. Place(v, fl) = First(Hits(v, fl))
    BY <1>3 DEF Place
  <2>2. Place(v, fl) \in Hits(v, fl) /\ \A j \in Hits(v, fl) : Place(v, fl) <= j
    BY <1>1, <1>3, <2>1, FirstIs
  <2> QED BY <1>1, <1>3, <2>2 DEF Hits
<1> QED BY <1>2, <1>3

LEMMA PlaceOnly ==
    ASSUME NEW T, NEW fl \in Seq(T), NEW v, NEW i \in DOMAIN fl, fl[i] = v,
           \A j \in DOMAIN fl : fl[j] = v => i <= j
    PROVE  Place(v, fl) = i
<1>1. Hits(v, fl) # {} /\ DOMAIN fl \subseteq Nat
  BY DEF Hits
<1>2. Place(v, fl) \in DOMAIN fl /\ fl[Place(v, fl)] = v /\ Place(v, fl) <= i
  BY <1>1, PlaceIs
<1>3. i <= Place(v, fl)
  BY <1>2
<1> QED BY <1>1, <1>2, <1>3

(* A formal in front. *)
LEMMA InFront ==
    ASSUME NEW T, NEW fl \in Seq(T), NEW w \in T
    PROVE  /\ <<w>> \o fl \in Seq(T) /\ Len(<<w>> \o fl) = Len(fl) + 1
           /\ (<<w>> \o fl)[1] = w
           /\ \A i \in DOMAIN fl : (<<w>> \o fl)[i + 1] = fl[i]
           /\ \A i \in DOMAIN (<<w>> \o fl) :
                 i = 1 \/ (i - 1 \in DOMAIN fl /\ (<<w>> \o fl)[i] = fl[i - 1])
<1>1. <<w>> \in Seq(T) /\ Len(<<w>>) = 1 /\ <<w>>[1] = w
  OBVIOUS
<1>2. /\ <<w>> \o fl \in Seq(T) /\ Len(<<w>> \o fl) = 1 + Len(fl)
      /\ \A i \in 1..(1 + Len(fl)) :
            (<<w>> \o fl)[i] = IF i <= 1 THEN <<w>>[i] ELSE fl[i - 1]
  BY <1>1, ConcatProperties
<1>3. Len(fl) \in Nat /\ DOMAIN fl = 1..Len(fl) /\ DOMAIN (<<w>> \o fl) = 1..(1 + Len(fl))
  BY <1>2
<1>4. \A i \in DOMAIN fl : (<<w>> \o fl)[i + 1] = fl[i]
  <2> SUFFICES ASSUME NEW i \in DOMAIN fl PROVE (<<w>> \o fl)[i + 1] = fl[i]
    OBVIOUS
  <2>1. i + 1 \in 1..(1 + Len(fl)) /\ ~(i + 1 <= 1) /\ i + 1 - 1 = i
    BY <1>3
  <2> QED BY <1>2, <2>1
<1>5. \A i \in DOMAIN (<<w>> \o fl) :
         i = 1 \/ (i - 1 \in DOMAIN fl /\ (<<w>> \o fl)[i] = fl[i - 1])
  BY <1>2, <1>3
<1> QED BY <1>1, <1>2, <1>3, <1>4, <1>5

LEMMA PlaceInFront ==
    ASSUME NEW T, NEW fl \in Seq(T), NEW w \in T, NEW v
    PROVE  /\ v = w => Hits(v, <<w>> \o fl) # {} /\ Place(v, <<w>> \o fl) = 1
           /\ v # w => /\ Hits(v, <<w>> \o fl) = {} <=> Hits(v, fl) = {}
                       /\ Place(v, <<w>> \o fl) = Place(v, fl) + 1
<1> DEFINE gl == <<w>> \o fl
<1>1. /\ gl \in Seq(T) /\ Len(gl) = Len(fl) + 1 /\ gl[1] = w
      /\ \A i \in DOMAIN fl : gl[i + 1] = fl[i]
      /\ \A i \in DOMAIN gl : i = 1 \/ (i - 1 \in DOMAIN fl /\ gl[i] = fl[i - 1])
  BY InFront
<1> HIDE DEF gl
<1>2. Len(fl) \in Nat /\ DOMAIN fl = 1..Len(fl) /\ DOMAIN gl = 1..(Len(fl) + 1)
  BY <1>1
<1>3. ASSUME v = w PROVE Hits(v, gl) # {} /\ Place(v, gl) = 1
  <2>1. 1 \in DOMAIN gl /\ gl[1] = v /\ \A j \in DOMAIN gl : 1 <= j
    BY <1>1, <1>2, <1>3
  <2> QED BY <1>1, <2>1, PlaceOnly DEF Hits
<1>4. ASSUME v # w PROVE Hits(v, gl) = {} <=> Hits(v, fl) = {}
  <2>1. ASSUME NEW i \in Hits(v, fl) PROVE i + 1 \in Hits(v, gl)
    BY <1>1, <1>2 DEF Hits
  <2>2. ASSUME NEW i \in Hits(v, gl) PROVE i - 1 \in Hits(v, fl)
    BY <1>1, <1>2, <1>4 DEF Hits
  <2> QED BY <2>1, <2>2
<1>5. ASSUME v # w PROVE Place(v, gl) = Place(v, fl) + 1
  <2>1. CASE Hits(v, fl) = {}
    BY <1>1, <1>2, <1>4, <1>5, <2>1, PlaceIs
  <2>2. CASE Hits(v, fl) # {}
    <3> DEFINE p == Place(v, fl)
    <3>1. p \in DOMAIN fl /\ fl[p] = v /\ \A j \in DOMAIN fl : fl[j] = v => p <= j
      BY <2>2, PlaceIs
    <3> HIDE DEF p
    <3>2. p + 1 \in DOMAIN gl /\ gl[p + 1] = v
      BY <1>1, <1>2, <3>1
    <3>3. ASSUME NEW j \in DOMAIN gl, gl[j] = v PROVE p + 1 <= j
      <4>1. j - 1 \in DOMAIN fl /\ fl[j - 1] = v
        BY <1>1, <1>5, <3>3
      <4>2. p <= j - 1
        BY <3>1, <4>1
      <4> QED BY <1>2, <3>1, <4>2
    <3> QED BY <1>1, <3>2, <3>3, PlaceOnly DEF p
  <2> QED BY <2>1, <2>2
<1> QED BY <1>3, <1>4, <1>5 DEF gl

LEMMA AfterIs ==
    ASSUME NEW T, NEW al \in Seq(T), NEW n \in 0..Len(al)
    PROVE  /\ After(al, n) \in Seq(T) /\ DOMAIN After(al, n) = 1..(Len(al) - n)
           /\ \A k \in 1..(Len(al) - n) : n + k \in DOMAIN al /\ After(al, n)[k] = al[n + k]
<1>1. Len(al) \in Nat /\ n \in Nat /\ n + 1 \in 1..(Len(al) + 1) /\ Len(al) \in n..Len(al)
  OBVIOUS
<1>2. \A i \in (n+1)..Len(al) : al[i] \in T
  BY <1>1
<1>3. /\ After(al, n) \in Seq(T)
      /\ Len(After(al, n)) = IF n + 1 <= Len(al) THEN Len(al) - (n + 1) + 1 ELSE 0
      /\ \A i \in 1..(Len(al) - (n + 1) + 1) : After(al, n)[i] = al[n + 1 + i - 1]
  BY <1>1, <1>2, SubSeqProperties DEF After
<1>4. Len(After(al, n)) = Len(al) - n
  BY <1>1, <1>3
<1>5. ASSUME NEW k \in 1..(Len(al) - n) PROVE n + k \in DOMAIN al /\ After(al, n)[k] = al[n + k]
  <2>1. k \in 1..(Len(al) - (n + 1) + 1) /\ n + 1 + k - 1 = n + k /\ n + k \in 1..Len(al)
    BY <1>1
  <2> QED BY <1>3, <2>1
<1> QED BY <1>3, <1>4, <1>5

LEMMA AfterInFront ==
    ASSUME NEW T, NEW al \in Seq(T), NEW w \in T, NEW n \in 0..Len(al)
    PROVE  After(<<w>> \o al, n + 1) = After(al, n)
<1> DEFINE bl == <<w>> \o al
<1>1. /\ bl \in Seq(T) /\ Len(bl) = Len(al) + 1
      /\ \A i \in DOMAIN al : bl[i + 1] = al[i]
  BY InFront
<1> HIDE DEF bl
<1>2. Len(al) \in Nat /\ n \in Nat /\ n + 1 \in 0..Len(bl) /\ Len(bl) - (n + 1) = Len(al) - n
  BY <1>1
<1>3. /\ After(al, n) \in Seq(T) /\ DOMAIN After(al, n) = 1..(Len(al) - n)
      /\ \A k \in 1..(Len(al) - n) : n + k \in DOMAIN al /\ After(al, n)[k] = al[n + k]
  BY AfterIs
<1>4. /\ After(bl, n + 1) \in Seq(T) /\ DOMAIN After(bl, n + 1) = 1..(Len(al) - n)
      /\ \A k \in 1..(Len(al) - n) : After(bl, n + 1)[k] = bl[n + 1 + k]
  <2> DEFINE m == n + 1
  <2>1. m \in 0..Len(bl) /\ Len(bl) - m = Len(al) - n
    BY <1>2
  <2> HIDE DEF m
  <2>2. /\ After(bl, m) \in Seq(T) /\ DOMAIN After(bl, m) = 1..(Len(bl) - m)
        /\ \A k \in 1..(Len(bl) - m) : m + k \in DOMAIN bl /\ After(bl, m)[k] = bl[m + k]
    BY <1>1, <2>1, AfterIs
  <2> QED BY <2>1, <2>2 DEF m
<1>5. \A k \in 1..(Len(al) - n) : After(bl, n + 1)[k] = After(al, n)[k]
  <2> SUFFICES ASSUME NEW k \in 1..(Len(al) - n) PROVE After(bl, n + 1)[k] = After(al, n)[k]
    OBVIOUS
  <2>1. n + 1 + k = (n + k) + 1
    BY <1>2
  <2> QED BY <1>1, <1>3, <1>4, <2>1
<1>6. After(bl, n + 1) = After(al, n)
  BY <1>3, <1>4, <1>5
<1> QED BY <1>6 DEF bl

-----------------------------------------------------------------------------
(* What a frame says of a variable depends on its own conses only, and an  *)
(* actual in front of them goes with a formal in front.                    *)

LEMMA MatchesKept ==
    ASSUME NEW fl \in Seq(Vars), NEW al \in Seq(Nat), NEW rest, NEW v, NEW m,
           NEW vals, NEW wals, \A k \in DOMAIN al : wals[al[k]] = vals[al[k]],
           Matches(v, fl, rest, al, vals, m)
    PROVE  Matches(v, fl, rest, al, wals, m)
<1>1. Place(v, fl) \in 0..Len(fl) /\ Len(al) \in Nat /\ DOMAIN al = 1..Len(al)
  BY PlaceIs
<1>2. CASE Place(v, fl) > Len(al)
  BY <1>2 DEF Matches
<1>3. CASE ~(Place(v, fl) > Len(al)) /\ Hits(v, fl) # {}
  <2>1. Place(v, fl) \in DOMAIN al
    BY <1>1, <1>3, PlaceIs
  <2> QED BY <1>3, <2>1 DEF Matches
<1>4. CASE ~(Place(v, fl) > Len(al)) /\ Hits(v, fl) = {}
  <2> DEFINE n == Place(v, fl)
  <2>1. n \in 0..Len(al)
    BY <1>1, <1>4
  <2> HIDE DEF n
  <2>2. /\ DOMAIN After(al, n) = 1..(Len(al) - n)
        /\ \A k \in 1..(Len(al) - n) : n + k \in DOMAIN al /\ After(al, n)[k] = al[n + k]
    BY <2>1, AfterIs
  <2>3. \A k \in DOMAIN After(al, n) : wals[After(al, n)[k]] = vals[After(al, n)[k]]
    BY <2>2
  <2>4. Behind(al, n, wals) = Behind(al, n, vals)
    BY <2>3 DEF Behind
  <2> QED BY <1>4, <2>4 DEF Matches, n
<1> QED BY <1>2, <1>3, <1>4

LEMMA MatchesInFront ==
    ASSUME NEW fl \in Seq(Vars), NEW al \in Seq(Nat), NEW rest, NEW v \in Vars, NEW m,
           NEW w \in Vars, v # w, NEW c \in Nat, NEW vals,
           Matches(v, fl, rest, al, vals, m)
    PROVE  Matches(v, <<w>> \o fl, rest, <<c>> \o al, vals, m)
<1> DEFINE gl == <<w>> \o fl
           bl == <<c>> \o al
           n == Place(v, fl)
<1>1. (Hits(v, gl) = {} <=> Hits(v, fl) = {}) /\ Place(v, gl) = n + 1
  BY PlaceInFront
<1>2. Len(bl) = Len(al) + 1 /\ \A i \in DOMAIN al : bl[i + 1] = al[i]
  BY InFront
<1>3. n \in Nat /\ Len(al) \in Nat /\ DOMAIN al = 1..Len(al)
  BY PlaceIs
<1>4. n + 1 > Len(bl) <=> n > Len(al)
  BY <1>2, <1>3
<1>5. ASSUME ~(n > Len(al)) PROVE Behind(bl, n + 1, vals) = Behind(al, n, vals)
  <2>1. n \in 0..Len(al)
    BY <1>3, <1>5
  <2>2. After(bl, n + 1) = After(al, n)
    BY <2>1, AfterInFront
  <2> QED BY <2>2 DEF Behind
<1>6. ASSUME ~(n > Len(al)), Hits(v, fl) # {} PROVE bl[n + 1] = al[n]
  <2>1. n \in DOMAIN al
    BY <1>3, <1>6, PlaceIs
  <2> QED BY <1>2, <2>1
<1>7. Matches(v, fl, rest, al, vals, m) <=>
        IF n > Len(al) THEN m.is = "error"
        ELSE IF Hits(v, fl) # {} THEN m.is = "bound" /\ m.value = vals[al[n]]
        ELSE IF rest = v THEN m.is = "rest" /\ m.value = Behind(al, n, vals)
        ELSE m.is = "none"
  BY DEF Matches
<1>8. Matches(v, gl, rest, bl, vals, m) <=>
        IF Place(v, gl) > Len(bl) THEN m.is = "error"
        ELSE IF Hits(v, gl) # {} THEN m.is = "bound" /\ m.value = vals[bl[Place(v, gl)]]
        ELSE IF rest = v THEN m.is = "rest" /\ m.value = Behind(bl, Place(v, gl), vals)
        ELSE m.is = "none"
  BY DEF Matches
<1> HIDE DEF gl, bl, n
<1>9. Matches(v, gl, rest, bl, vals, m)
  BY <1>1, <1>4, <1>5, <1>6, <1>7, <1>8
<1> QED BY <1>9 DEF gl, bl

-----------------------------------------------------------------------------
(* The calls of leval_define on the stack. *)

LEMMA Kinds ==
    /\ \A c \in Naming : c.proc = "define" /\ c.at = "formals"
    /\ \A c \in Valuing : c.proc = "define" /\ c.at = "actuals"
    /\ AfterGc \notin Defining
    /\ \A c \in Call : c # AfterGc => c \in Defining
    /\ \A c \in Naming : c \notin Valuing
    /\ \A c \in Call : /\ c \in Valuing <=> c.proc = "define" /\ c.at = "actuals"
                       /\ c \in Naming <=> c.proc = "define" /\ c.at = "formals"
<1>1. \A c \in Naming : c.proc = "define" /\ c.at = "formals"
  BY DEF Naming
<1>2. \A c \in Valuing : c.proc = "define" /\ c.at = "actuals"
  BY DEF Valuing
<1>3. AfterGc.proc # "define"
  BY DEF AfterGc
<1>4. Defining = Naming \cup Valuing /\ Call = Defining \cup {AfterGc}
  BY DEF Defining, Call
<1> QED BY <1>1, <1>2, <1>3, <1>4

LEMMA HalfIs ==
    ASSUME NEW S, NEW list \in Seq(Call), NEW f
    PROVE  f \in Half(list) <=> \E i \in DOMAIN list : list[i] \in Valuing /\ list[i].env = f
<1>1. \A i \in DOMAIN list : list[i] \in Call
  OBVIOUS
<1>2. \A i \in DOMAIN list :
         list[i] \in Valuing <=> list[i].proc = "define" /\ list[i].at = "actuals"
  BY <1>1, Kinds
<1> QED BY <1>2 DEF Half

(* The innermost call, and what it becomes. *)
LEMMA InnermostIs ==
    ASSUME calls \in Seq(Call), ~Evaluating
    PROVE  /\ Len(calls) \in DOMAIN calls /\ Len(calls) \in Nat
           /\ DOMAIN calls = 1..Len(calls)
           /\ Innermost = calls[Len(calls)] /\ Innermost \in Defining
<1>1. calls # <<>> /\ Innermost = calls[Len(calls)] /\ Innermost # AfterGc
  BY DEF Evaluating, Innermost
<1>2. Len(calls) \in DOMAIN calls /\ Len(calls) \in Nat /\ DOMAIN calls = 1..Len(calls)
  BY <1>1
<1>3. Innermost \in Call
  BY <1>1, <1>2
<1> QED BY <1>1, <1>2, <1>3, Kinds

LEMMA Prefix ==
    ASSUME NEW s \in Seq(Call), NEW n \in 0..Len(s)
    PROVE  /\ SubSeq(s, 1, n) \in Seq(Call) /\ Len(SubSeq(s, 1, n)) = n
           /\ \A i \in 1..n : SubSeq(s, 1, n)[i] = s[i]
<1>1. \A i \in 1..n : s[i] \in Call
  OBVIOUS
<1> QED BY <1>1, SubSeqProperties

LEMMA OuterIs ==
    ASSUME calls \in Seq(Call), calls # <<>>
    PROVE  /\ Outer \in Seq(Call) /\ Len(Outer) = Len(calls) - 1
           /\ \A i \in 1..(Len(calls) - 1) : Outer[i] = calls[i]
<1>1. Len(calls) - 1 \in 0..Len(calls)
  OBVIOUS
<1> QED BY <1>1, Prefix DEF Outer

LEMMA GoesOn ==
    ASSUME calls \in Seq(Call), ~Evaluating, NEW c \in Call, Continue(c)
    PROVE  /\ calls' \in Seq(Call) /\ DOMAIN calls' = DOMAIN calls
           /\ calls'[Len(calls)] = c
           /\ \A i \in DOMAIN calls : i # Len(calls) => calls'[i] = calls[i]
<1>1. calls # <<>> /\ Len(calls) \in Nat /\ Len(calls) \in DOMAIN calls
  BY InnermostIs
<1>2. /\ Outer \in Seq(Call) /\ Len(Outer) = Len(calls) - 1
      /\ \A i \in 1..(Len(calls) - 1) : Outer[i] = calls[i]
  BY <1>1, OuterIs
<1>3. calls' = Append(Outer, c)
  BY DEF Continue
<1>4. /\ calls' \in Seq(Call) /\ Len(calls') = Len(Outer) + 1
      /\ calls'[Len(Outer) + 1] = c
      /\ \A i \in 1..Len(Outer) : calls'[i] = Outer[i]
  BY <1>2, <1>3, AppendProperties
<1>5. Len(Outer) + 1 = Len(calls) /\ DOMAIN calls = 1..Len(calls)
  BY <1>1, <1>2
<1>6. DOMAIN calls' = 1..Len(calls)
  BY <1>4, <1>5
<1> QED BY <1>1, <1>2, <1>4, <1>5, <1>6

LEMMA Typed ==
    ASSUME Typing
    PROVE  /\ Len(frames) \in Nat /\ DOMAIN frames = Made /\ DOMAIN scope = Made
           /\ \A f \in Made : /\ f \in Nat \ {0} /\ frames[f] \in Frame
                              /\ frames[f].fl \in Seq(Vars) /\ frames[f].al \in Seq(Nat)
                              /\ frames[f].rest \in Vars \cup {None}
                              /\ frames[f].up \in Nat /\ frames[f].up < f
                              /\ scope[f] \in [Vars -> Meaning]
           /\ \A i \in DOMAIN calls :
                 /\ calls[i] \in Call
                 /\ calls[i] \in Defining => /\ calls[i].env \in Made /\ calls[i].var \in Vars
                                             /\ calls[i].val \in Values
                 /\ calls[i] \in Naming => calls[i].list \in Seq(Vars)
                 /\ calls[i] \in Valuing => calls[i].list \in Seq(Nat)
<1>1. /\ Len(frames) \in Nat /\ DOMAIN frames = Made /\ DOMAIN scope = Made
      /\ \A f \in Made : f \in Nat \ {0} /\ frames[f] \in Frame /\ scope[f] \in [Vars -> Meaning]
  BY DEF Typing, Made
<1>2. \A r \in Frame : /\ r.fl \in Seq(Vars) /\ r.al \in Seq(Nat)
                       /\ r.rest \in Vars \cup {None} /\ r.up \in Nat
  BY DEF Frame
<1>3. \A f \in Made : frames[f].up < f
  BY DEF Typing
<1>4. \A i \in DOMAIN calls : /\ calls[i] \in Call
                              /\ calls[i] \in Defining => calls[i].env \in Made
  BY DEF Typing
<1>5. \A c \in Naming : c.var \in Vars /\ c.val \in Values /\ c.list \in Seq(Vars)
  BY DEF Naming
<1>6. \A c \in Valuing : c.var \in Vars /\ c.val \in Values /\ c.list \in Seq(Nat)
  BY DEF Valuing
<1>7. Defining = Naming \cup Valuing
  BY DEF Defining
<1> QED BY <1>1, <1>2, <1>3, <1>4, <1>5, <1>6, <1>7

-----------------------------------------------------------------------------
(* The invariant with other calls, or fewer: those of before, which may    *)
(* have run the form, and others which are none of leval_define.           *)

Alike(c, d) == /\ c \in Naming <=> d \in Naming
               /\ c \in Valuing <=> d \in Valuing
               /\ d \in Defining => /\ d.env = c.env /\ d.var = c.var
                                    /\ d.val = c.val /\ d.list = c.list

LEMMA SameCalls ==
    ASSUME IInv, calls' \in Seq(Call), UNCHANGED <<frames, cells, scope>>,
           \A i \in DOMAIN calls' : calls'[i] \in Defining =>
              i \in DOMAIN calls /\ Alike(calls[i], calls'[i]),
           spoilt \subseteq spoilt', spoilt' \subseteq spoilt \cup Half(calls),
           Half(calls) \ Half(calls') \subseteq spoilt'
    PROVE  IInv'
<1>0. /\ Made' = Made
      /\ \A f, fl, v : Agrees(f, fl, v)' <=> Agrees(f, fl, v)
  BY DEF Made, Agrees
<1>1. Defining = Naming \cup Valuing /\ \A c \in Naming : c \notin Valuing
  BY Kinds DEF Defining
<1>2. \A i \in DOMAIN calls' : calls'[i] \in Defining =>
         /\ i \in DOMAIN calls /\ calls[i] \in Defining
         /\ calls[i] \in Naming <=> calls'[i] \in Naming
         /\ calls[i] \in Valuing <=> calls'[i] \in Valuing
         /\ calls'[i].env = calls[i].env /\ calls'[i].var = calls[i].var
         /\ calls'[i].val = calls[i].val /\ calls'[i].list = calls[i].list
  BY <1>1 DEF Alike
<1>3. \A f : f \in Half(calls) => f \in Made
                                  /\ \E i \in DOMAIN calls : calls[i] \in Defining /\ calls[i].env = f
  BY <1>1, HalfIs DEF IInv, Typing
<1>4. Typing'
  BY <1>0, <1>2, <1>3 DEF IInv, Typing
<1>5. Owned'
  <2>1. PICK owner \in [DOMAIN cells -> Made] :
           /\ \A f \in Made : Owns(f, frames[f].al, owner)
           /\ \A i \in DOMAIN calls :
                  calls[i] \in Valuing => Owns(calls[i].env, calls[i].list, owner)
    BY DEF IInv, Owned
  <2>2. \A i \in DOMAIN calls' :
           calls'[i] \in Valuing => Owns(calls'[i].env, calls'[i].list, owner)
    BY <1>1, <1>2, <2>1
  <2> QED BY <1>0, <2>1, <2>2 DEF Owned
<1>6. Named'
  BY <1>0 DEF IInv, Named
<1>7. Lacking'
  BY <1>0, <1>2, <1>3 DEF IInv, Lacking
<1>8. NamesNew'
  BY <1>1, <1>2 DEF IInv, NamesNew
<1>9. Nested'
  BY <1>1, <1>2 DEF IInv, Nested
<1>10. InStep'
  BY <1>0 DEF IInv, InStep
<1>11. HalfStep'
  <2> SUFFICES ASSUME NEW i \in DOMAIN calls', calls'[i] \in Valuing, calls'[i].env \notin spoilt'
               PROVE  LET d == calls'[i] IN
                      /\ scope[d.env][d.var] = [is |-> "bound", value |-> d.val]
                      /\ \E fl \in Seq(Vars) :
                            /\ frames[d.env].fl = <<d.var>> \o fl
                            /\ \A v \in Vars \ {d.var} : Agrees(d.env, fl, v)
    BY <1>0 DEF HalfStep
  <2>1. /\ i \in DOMAIN calls /\ calls[i] \in Valuing /\ calls[i].env \notin spoilt
        /\ calls'[i].env = calls[i].env /\ calls'[i].var = calls[i].var
        /\ calls'[i].val = calls[i].val
    BY <1>1, <1>2
  <2> QED BY <2>1 DEF IInv, HalfStep
<1> QED BY <1>4, <1>5, <1>6, <1>7, <1>8, <1>9, <1>10, <1>11 DEF IInv

(* The form begins in the middle of a call. *)
LEMMA Marks ==
    ASSUME NEW c \in Defining
    PROVE  [c EXCEPT !.gc = TRUE] \in Defining /\ Alike(c, [c EXCEPT !.gc = TRUE])
<1>1. ASSUME c \in Naming
      PROVE  [c EXCEPT !.gc = TRUE] \in Naming /\ Alike(c, [c EXCEPT !.gc = TRUE])
  <2> DEFINE d == [c EXCEPT !.gc = TRUE]
  <2>1. d \in Naming /\ d.env = c.env /\ d.var = c.var /\ d.val = c.val /\ d.list = c.list
    BY <1>1 DEF Naming
  <2> HIDE DEF d
  <2>2. d \in Naming /\ Alike(c, d)
    BY <1>1, <2>1, Kinds DEF Alike
  <2> QED BY <2>2 DEF d
<1>2. ASSUME c \in Valuing
      PROVE  [c EXCEPT !.gc = TRUE] \in Valuing /\ Alike(c, [c EXCEPT !.gc = TRUE])
  <2> DEFINE d == [c EXCEPT !.gc = TRUE]
  <2>1. d \in Valuing /\ d.env = c.env /\ d.var = c.var /\ d.val = c.val /\ d.list = c.list
    BY <1>2 DEF Valuing
  <2> HIDE DEF d
  <2>2. d \in Valuing /\ Alike(c, d)
    BY <1>2, <2>1, Kinds DEF Alike
  <2> QED BY <2>2 DEF d
<1> QED BY <1>1, <1>2 DEF Defining

LEMMA Alikes == \A c : Alike(c, c)
BY DEF Alike

LEMMA ReentersSafely ==
    ASSUME IInv, Reenter
    PROVE  IInv'
<1>0. calls \in Seq(Call) /\ UNCHANGED <<frames, cells, scope, spoilt>>
  BY DEF IInv, Typing, Reenter, envVars
<1>1. CASE Collect
  <2> DEFINE c == [Innermost EXCEPT !.gc = TRUE]
             n == Len(calls)
  <2>1. ~Evaluating /\ calls' = Outer \o <<c, AfterGc>>
    BY <1>1 DEF Collect
  <2>2. /\ n \in DOMAIN calls /\ n \in Nat /\ DOMAIN calls = 1..n
        /\ Innermost = calls[n] /\ Innermost \in Defining
    BY <1>0, <2>1, InnermostIs
  <2>3. c \in Defining /\ Alike(calls[n], c)
    BY <2>2, Marks
  <2> HIDE DEF c, n
  <2>4. calls # <<>>
    BY <2>2
  <2>5. Outer \in Seq(Call) /\ Len(Outer) = n - 1 /\ \A i \in 1..(n - 1) : Outer[i] = calls[i]
    BY <1>0, <2>4, OuterIs DEF n
  <2>6. c \in Call /\ AfterGc \in Call /\ AfterGc \notin Defining
    BY <2>3, Kinds DEF Call
  <2>7. calls' = Append(Append(Outer, c), AfterGc)
    BY <2>1, <2>5, <2>6
  <2>8. /\ Append(Outer, c) \in Seq(Call) /\ Len(Append(Outer, c)) = n
        /\ Append(Outer, c)[n] = c
        /\ \A i \in 1..(n - 1) : Append(Outer, c)[i] = calls[i]
    <3>1. /\ Append(Outer, c) \in Seq(Call) /\ Len(Append(Outer, c)) = Len(Outer) + 1
          /\ Append(Outer, c)[Len(Outer) + 1] = c
          /\ \A i \in 1..Len(Outer) : Append(Outer, c)[i] = Outer[i]
      BY <2>5, <2>6, AppendProperties
    <3>2. Len(Outer) + 1 = n
      BY <2>2, <2>5
    <3> QED BY <2>5, <3>1, <3>2
  <2>9. /\ calls' \in Seq(Call) /\ Len(calls') = n + 1 /\ calls'[n + 1] = AfterGc
        /\ calls'[n] = c /\ \A i \in 1..(n - 1) : calls'[i] = calls[i]
    <3>1. /\ calls' \in Seq(Call) /\ Len(calls') = n + 1 /\ calls'[n + 1] = AfterGc
          /\ \A i \in 1..n : calls'[i] = Append(Outer, c)[i]
      BY <2>6, <2>7, <2>8, AppendProperties
    <3> QED BY <2>2, <2>8, <3>1
  <2>10. /\ DOMAIN calls' = 1..(n + 1)
         /\ \A i \in 1..(n + 1) : i = n + 1 \/ i = n \/ i \in 1..(n - 1)
    BY <2>2, <2>9
  <2>11. \A i \in DOMAIN calls' : calls'[i] \in Defining =>
            i \in DOMAIN calls /\ Alike(calls[i], calls'[i])
    <3> SUFFICES ASSUME NEW i \in DOMAIN calls', calls'[i] \in Defining
                 PROVE  i \in DOMAIN calls /\ Alike(calls[i], calls'[i])
      OBVIOUS
    <3>1. CASE i = n + 1
      BY <2>6, <2>9, <3>1
    <3>2. CASE i = n
      BY <2>2, <2>3, <2>9, <3>2
    <3>3. CASE i \in 1..(n - 1)
      BY <2>2, <2>9, <3>3, Alikes
    <3> QED BY <2>10, <3>1, <3>2, <3>3
  <2>12. ASSUME NEW f \in Half(calls) PROVE f \in Half(calls')
    <3>1. PICK i \in DOMAIN calls : calls[i] \in Valuing /\ calls[i].env = f
      BY <1>0, HalfIs
    <3>2. i \in DOMAIN calls' /\ (i = n \/ calls'[i] = calls[i])
      BY <2>2, <2>9, <2>10
    <3>3. calls'[i] \in Valuing /\ calls'[i].env = f
      BY <2>3, <2>9, <3>1, <3>2 DEF Alike
    <3> QED BY <2>9, <3>2, <3>3, HalfIs
  <2> QED BY <1>0, <2>9, <2>11, <2>12, SameCalls
<1>2. CASE FormEnds
  <2> DEFINE n == Len(calls)
  <2>1. calls # <<>> /\ calls[n] = AfterGc /\ calls' = Outer
    BY <1>2 DEF FormEnds, Finish, Innermost
  <2>2. n \in Nat /\ DOMAIN calls = 1..n
    BY <1>0
  <2>3. Outer \in Seq(Call) /\ Len(Outer) = n - 1 /\ \A i \in 1..(n - 1) : Outer[i] = calls[i]
    BY <1>0, <2>1, OuterIs
  <2> HIDE DEF n
  <2>4. \A i \in DOMAIN calls' : i \in DOMAIN calls /\ i # n /\ calls'[i] = calls[i]
    BY <2>1, <2>2, <2>3
  <2>5. ASSUME NEW f \in Half(calls) PROVE f \in Half(calls')
    <3>1. PICK i \in DOMAIN calls : calls[i] \in Valuing /\ calls[i].env = f
      BY <1>0, HalfIs
    <3>2. i # n
      BY <2>1, <3>1, Kinds DEF Defining
    <3>3. i \in DOMAIN calls' /\ calls'[i] = calls[i]
      BY <2>1, <2>2, <2>3, <3>2
    <3>4. calls' \in Seq(Call)
      BY <2>1, <2>3
    <3> QED BY <3>1, <3>3, <3>4, HalfIs
  <2>6. calls' \in Seq(Call)
    BY <2>1, <2>3
  <2>7. \A i \in DOMAIN calls' : i \in DOMAIN calls /\ Alike(calls[i], calls'[i])
    BY <2>4, Alikes
  <2> QED BY <1>0, <2>5, <2>6, <2>7, SameCalls
<1> QED BY <1>1, <1>2 DEF Reenter

LEMMA LeavesSafely ==
    ASSUME IInv, Leave
    PROVE  IInv'
<1>0. /\ calls \in Seq(Call) /\ Unwind /\ UNCHANGED <<frames, cells, scope>>
      /\ spoilt' = spoilt \cup (Half(calls) \ Half(calls'))
  BY DEF IInv, Typing, Leave
<1>1. \E n \in 0..Len(calls) : calls' = SubSeq(calls, 1, n)
  <2>1. CASE Fail
    <3>1. SubSeq(calls, 1, 0) = <<>>
      BY <1>0
    <3>2. 0 \in 0..Len(calls)
      BY <1>0
    <3> QED BY <2>1, <3>1, <3>2 DEF Fail
  <2>2. CASE ThrowOut
    <3>1. \A n \in 0..(Len(calls) - 1) : n \in 0..Len(calls)
      BY <1>0
    <3> QED BY <2>2, <3>1 DEF ThrowOut
  <2> QED BY <1>0, <2>1, <2>2 DEF Unwind
<1>2. PICK n \in 0..Len(calls) : calls' = SubSeq(calls, 1, n)
  BY <1>1
<1>3. calls' \in Seq(Call) /\ Len(calls') = n /\ \A i \in 1..n : calls'[i] = calls[i]
  BY <1>0, <1>2, Prefix
<1>4. \A i \in DOMAIN calls' : i \in DOMAIN calls /\ calls'[i] = calls[i]
  BY <1>0, <1>3
<1>5. \A i \in DOMAIN calls' : i \in DOMAIN calls /\ Alike(calls[i], calls'[i])
  BY <1>4, Alikes
<1> QED BY <1>0, <1>3, <1>5, SameCalls

-----------------------------------------------------------------------------
(* Chains of frames. *)

LEMMA Induction ==
    ASSUME NEW S, 0 \in S, \A n \in Nat : n \in S => n + 1 \in S
    PROVE  Nat \subseteq S
<1> SUFFICES ASSUME Nat \ S # {} PROVE FALSE
  OBVIOUS
<1>1. First(Nat \ S) \in Nat \ S /\ \A m \in Nat \ S : First(Nat \ S) <= m
  BY FirstIs
<1>2. PICK n \in Nat \ S : \A m \in Nat \ S : n <= m
  BY <1>1
<1>3. n # 0 /\ n - 1 \in Nat /\ n - 1 \in S
  BY <1>2
<1> QED BY <1>2, <1>3

(* A chain is the frame and the chain of the one around it. *)
LEMMA ChainFrom ==
    ASSUME Typing
    PROVE  /\ Chain(NIL) = <<>>
           /\ \A env \in Made : Chain(env) = <<env>> \o Chain(frames[env].up)
<1> DEFINE F(g, f) == IF f = NIL THEN <<>> ELSE <<f>> \o g[frames[f].up]
           Upto(g, n) == g = [f \in 0..n |-> F(g, f)]
           top == Len(frames)
           chain == CHOOSE g : g = [f \in Envs |-> F(g, f)]
<1>1. /\ top \in Nat /\ Envs = 0..top /\ NIL \in Envs
      /\ \A f \in Made : f \in Envs /\ f # NIL /\ frames[f].up \in Envs /\ frames[f].up < f
      /\ \A f \in Envs : f = NIL \/ f \in Made
  BY Typed DEF Envs, NIL, Made
<1>2. \A env : Chain(env) = chain[env]
  BY DEF Chain
<1>3. \A f : f = NIL => \A g : F(g, f) = <<>>
  OBVIOUS
<1>4. \A f : f # NIL => \A g : F(g, f) = <<f>> \o g[frames[f].up]
  OBVIOUS
<1> HIDE DEF F, top
<1>5. \A n \in Nat : n <= top => \E g : Upto(g, n)
  <2> DEFINE S == {n \in Nat : n <= top => \E g : Upto(g, n)}
  <2>1. 0 \in S
    <3> DEFINE g == [f \in 0..0 |-> <<>>]
    <3>1. \A f \in 0..0 : f = NIL
      BY DEF NIL
    <3>2. \A f \in 0..0 : F(g, f) = <<>>
      BY <1>3, <3>1
    <3>3. Upto(g, 0)
      BY <3>2
    <3> QED BY <3>3
  <2>2. ASSUME NEW n \in Nat, n \in S PROVE n + 1 \in S
    <3>1. SUFFICES ASSUME n + 1 <= top PROVE \E h : Upto(h, n + 1)
      OBVIOUS
    <3>2. PICK g : Upto(g, n)
      BY <1>1, <2>2, <3>1
    <3> DEFINE h == [f \in 0..(n + 1) |-> F(g, f)]
    <3>3. \A f \in 0..n : f \in 0..(n + 1) /\ g[f] = F(g, f)
      BY <3>2
    <3>4. \A f \in 0..n : h[f] = g[f]
      BY <3>3
    <3> HIDE DEF h
    <3>5. ASSUME NEW f \in 0..(n + 1) PROVE F(h, f) = F(g, f)
      <4>1. CASE f = NIL
        BY <1>3, <4>1
      <4>2. CASE f # NIL
        <5>1. f \in Made
          BY <1>1, <3>1, <4>2
        <5>2. frames[f].up \in 0..n
          BY <1>1, <5>1
        <5>3. h[frames[f].up] = g[frames[f].up]
          BY <3>4, <5>2
        <5> QED BY <1>4, <4>2, <5>3
      <4> QED BY <4>1, <4>2
    <3>6. h = [f \in 0..(n + 1) |-> F(h, f)]
      BY <3>5 DEF h
    <3> QED BY <3>6
  <2> HIDE DEF S
  <2>3. Nat \subseteq S
    BY <2>1, <2>2, Induction
  <2> QED BY <2>3 DEF S
<1>6. \E g : g = [f \in Envs |-> F(g, f)]
  BY <1>1, <1>5
<1>7. chain = [f \in Envs |-> F(chain, f)]
  BY <1>6
<1> HIDE DEF chain
<1>8. \A f \in Envs : chain[f] = F(chain, f)
  BY <1>7
<1>9. chain[NIL] = <<>>
  BY <1>1, <1>3, <1>8
<1>10. \A env \in Made : chain[env] = <<env>> \o chain[frames[env].up]
  BY <1>1, <1>4, <1>8
<1> QED BY <1>2, <1>9, <1>10

LEMMA ChainIs ==
    ASSUME Typing
    PROVE  \A env \in Envs : Chain(env) \in Seq(Made) /\ (env # NIL => env \in Within(env))
<1>1. /\ Chain(NIL) = <<>>
      /\ \A env \in Made : Chain(env) = <<env>> \o Chain(frames[env].up)
  BY ChainFrom
<1>2. \A f \in Made : f \in Nat \ {0} /\ frames[f].up \in Nat /\ frames[f].up < f
  BY Typed
<1>3. /\ Len(frames) \in Nat /\ Envs = 0..Len(frames) /\ Made = 1..Len(frames) /\ NIL = 0
  BY Typed DEF Envs, Made, NIL
<1> DEFINE S == {n \in Nat : \A env \in Envs : env <= n => Chain(env) \in Seq(Made)}
<1>4. 0 \in S
  <2>1. \A env \in Envs : env <= 0 => env = NIL
    BY <1>3
  <2>2. Chain(NIL) \in Seq(Made)
    BY <1>1
  <2> QED BY <2>1, <2>2
<1>5. ASSUME NEW n \in Nat, n \in S PROVE n + 1 \in S
  <2>1. ASSUME NEW env \in Envs, env <= n + 1 PROVE Chain(env) \in Seq(Made)
    <3>1. CASE env = NIL
      BY <1>1, <3>1
    <3>2. CASE env # NIL
      <4>1. env \in Made
        BY <1>3, <3>2
      <4>2. frames[env].up \in Envs /\ frames[env].up <= n
        BY <1>2, <1>3, <2>1, <4>1
      <4>3. Chain(frames[env].up) \in Seq(Made)
        BY <1>5, <4>2
      <4>4. <<env>> \o Chain(frames[env].up) \in Seq(Made)
        BY <4>1, <4>3, InFront
      <4> QED BY <1>1, <4>1, <4>4
    <3> QED BY <3>1, <3>2
  <2> QED BY <2>1
<1> HIDE DEF S
<1>6. Nat \subseteq S
  BY <1>4, <1>5, Induction
<1>7. ASSUME NEW env \in Envs PROVE Chain(env) \in Seq(Made)
  <2>1. env \in Nat
    BY <1>3
  <2>2. env \in S /\ env <= env
    BY <1>6, <2>1
  <2> QED BY <2>2 DEF S
<1>8. ASSUME NEW env \in Envs, env # NIL PROVE env \in Within(env)
  <2>1. env \in Made
    BY <1>3, <1>8
  <2>2. frames[env].up \in Envs
    BY <1>2, <1>3, <2>1
  <2>3. Chain(frames[env].up) \in Seq(Made)
    BY <1>7, <2>2
  <2>4. PICK s \in Seq(Made) : Chain(env) = <<env>> \o s
    BY <1>1, <2>1, <2>3
  <2>5. 1 \in DOMAIN Chain(env) /\ Chain(env)[1] = env
    BY <2>1, <2>4
  <2> QED BY <2>5 DEF Within
<1> QED BY <1>7, <1>8

(* The first frame of the chain in a set. *)
OnChain(env, S) == {i \in DOMAIN Chain(env) : Chain(env)[i] \in S}
FirstIn(env, S) == IF OnChain(env, S) = {} THEN NIL ELSE Chain(env)[First(OnChain(env, S))]

Found(var) == {g \in Made : InFrame(var, frames[g]).is # "none"}
Bound(var) == {g \in Made : scope[g][var].is # "none"}

LEMMA FirstInIs ==
    ASSUME Typing, NEW env \in Envs, NEW S, FirstIn(env, S) # NIL
    PROVE  \E i \in DOMAIN Chain(env) :
              /\ FirstIn(env, S) = Chain(env)[i] /\ Chain(env)[i] \in S
              /\ \A j \in DOMAIN Chain(env) : j < i => Chain(env)[j] \notin S
<1>1. Chain(env) \in Seq(Made)
  BY ChainIs
<1>2. OnChain(env, S) # {} /\ OnChain(env, S) \in SUBSET Nat
  BY <1>1 DEF FirstIn, OnChain
<1>3. /\ First(OnChain(env, S)) \in OnChain(env, S)
      /\ \A j \in OnChain(env, S) : First(OnChain(env, S)) <= j
  BY <1>2, FirstIs
<1>4. PICK i \in OnChain(env, S) : i = First(OnChain(env, S)) /\ \A j \in OnChain(env, S) : i <= j
  BY <1>3
<1>5. FirstIn(env, S) = Chain(env)[i]
  BY <1>2, <1>4 DEF FirstIn
<1>6. i \in DOMAIN Chain(env) /\ Chain(env)[i] \in S
  BY DEF OnChain
<1>7. ASSUME NEW j \in DOMAIN Chain(env), j < i, Chain(env)[j] \in S PROVE FALSE
  <2>1. j \in OnChain(env, S)
    BY <1>7 DEF OnChain
  <2>2. i <= j /\ i \in Nat /\ j \in Nat
    BY <1>2, <1>4, <2>1
  <2> QED BY <1>7, <2>2
<1> QED BY <1>5, <1>6, <1>7

LEMMA FirstInOnly ==
    ASSUME Typing, NEW env \in Envs, NEW S, NEW i \in DOMAIN Chain(env), Chain(env)[i] \in S,
           \A j \in DOMAIN Chain(env) : j < i => Chain(env)[j] \notin S
    PROVE  FirstIn(env, S) = Chain(env)[i]
<1>1. Chain(env) \in Seq(Made) /\ \A f \in Made : f # NIL
  BY ChainIs, Typed DEF NIL
<1>2. OnChain(env, S) # {}
  BY DEF OnChain
<1>3. OnChain(env, S) \in SUBSET Nat
  BY <1>1 DEF OnChain
<1>4. /\ First(OnChain(env, S)) \in OnChain(env, S)
      /\ \A j \in OnChain(env, S) : First(OnChain(env, S)) <= j
  BY <1>2, <1>3, FirstIs
<1>5. First(OnChain(env, S)) <= i
  BY <1>4 DEF OnChain
<1>6. ~(First(OnChain(env, S)) < i)
  BY <1>4 DEF OnChain
<1>7. First(OnChain(env, S)) = i
  BY <1>3, <1>4, <1>5, <1>6 DEF OnChain
<1> QED BY <1>2, <1>7 DEF FirstIn

LEMMA NoneOn ==
    ASSUME Typing, NEW env \in Envs, NEW S
    PROVE  FirstIn(env, S) = NIL <=> \A i \in DOMAIN Chain(env) : Chain(env)[i] \notin S
<1>1. Chain(env) \in Seq(Made) /\ \A f \in Made : f # NIL
  BY ChainIs, Typed DEF NIL
<1>2. ASSUME FirstIn(env, S) # NIL PROVE \E i \in DOMAIN Chain(env) : Chain(env)[i] \in S
  BY <1>2, FirstInIs
<1>3. ASSUME NEW i \in DOMAIN Chain(env), Chain(env)[i] \in S PROVE FirstIn(env, S) # NIL
  <2>1. OnChain(env, S) # {} /\ OnChain(env, S) \in SUBSET Nat
    BY <1>1, <1>3 DEF OnChain
  <2>2. First(OnChain(env, S)) \in OnChain(env, S)
    BY <2>1, FirstIs
  <2>3. Chain(env)[First(OnChain(env, S))] \in Made
    BY <1>1, <2>2 DEF OnChain
  <2> QED BY <1>1, <2>1, <2>3 DEF FirstIn
<1> QED BY <1>2, <1>3

LEMMA LooksUp ==
    ASSUME Typing, NEW env \in Envs, NEW var
    PROVE  /\ Envlookup(var, env) = IF FirstIn(env, Found(var)) = NIL THEN [is |-> "none"]
                                    ELSE InFrame(var, frames[FirstIn(env, Found(var))])
           /\ Nearest(var, env) = FirstIn(env, Bound(var))
<1>1. \A i \in DOMAIN Chain(env) : Chain(env)[i] \in Made
  BY ChainIs
<1>2. {i \in DOMAIN Chain(env) : InFrame(var, frames[Chain(env)[i]]).is # "none"}
         = OnChain(env, Found(var))
  BY <1>1 DEF OnChain, Found
<1>3. {i \in DOMAIN Chain(env) : scope[Chain(env)[i]][var].is # "none"}
         = OnChain(env, Bound(var))
  BY <1>1 DEF OnChain, Bound
<1>4. FirstFrame(env, LAMBDA g : InFrame(var, frames[g]).is # "none")
         = FirstIn(env, Found(var))
  BY <1>2 DEF FirstFrame, FirstIn
<1>5. FirstFrame(env, LAMBDA g : scope[g][var].is # "none") = FirstIn(env, Bound(var))
  BY <1>3 DEF FirstFrame, FirstIn
<1>6. Nearest(var, env) = FirstIn(env, Bound(var))
  BY <1>5 DEF Nearest
<1>7. Envlookup(var, env) = IF FirstIn(env, Found(var)) = NIL THEN [is |-> "none"]
                            ELSE InFrame(var, frames[FirstIn(env, Found(var))])
  BY <1>4 DEF Envlookup
<1> QED BY <1>6, <1>7

LEMMA InFrameIs ==
    ASSUME NEW frame \in Frame, NEW v
    PROVE  InFrame(v, frame) =
              IF Place(v, frame.fl) > Len(frame.al) THEN [is |-> "error"]
              ELSE IF Hits(v, frame.fl) # {}
                   THEN [is |-> "cell", cell |-> frame.al[Place(v, frame.fl)]]
              ELSE IF frame.rest = v
                   THEN [is |-> "fresh", list |-> After(frame.al, Place(v, frame.fl))]
              ELSE [is |-> "none"]
BY DEF InFrame, Place, Hits

LEMMA InFrameKind ==
    ASSUME NEW frame \in Frame, NEW v
    PROVE  InFrame(v, frame).is \in {"none", "cell", "fresh", "error"}
<1>1. PICK r : r = InFrame(v, frame)
  OBVIOUS
<1>2. \/ r = [is |-> "error"]
      \/ r = [is |-> "cell", cell |-> frame.al[Place(v, frame.fl)]]
      \/ r = [is |-> "fresh", list |-> After(frame.al, Place(v, frame.fl))]
      \/ r = [is |-> "none"]
  BY <1>1, InFrameIs
<1>3. r.is \in {"none", "cell", "fresh", "error"}
  BY <1>2
<1> QED BY <1>1, <1>3

(* A variable that is in no frame of an environment is not in its first. *)
LEMMA NotFound ==
    ASSUME Typing, NEW env \in Envs, NEW var, Envlookup(var, env).is = "none"
    PROVE  \A i \in DOMAIN Chain(env) : InFrame(var, frames[Chain(env)[i]]).is = "none"
<1>1. FirstIn(env, Found(var)) = NIL
  <2> SUFFICES ASSUME FirstIn(env, Found(var)) # NIL PROVE FALSE
    OBVIOUS
  <2>1. FirstIn(env, Found(var)) \in Found(var)
    BY FirstInIs
  <2>2. Envlookup(var, env) = InFrame(var, frames[FirstIn(env, Found(var))])
    BY LooksUp
  <2> QED BY <2>1, <2>2 DEF Found
<1>2. \A i \in DOMAIN Chain(env) : Chain(env)[i] \in Made
  BY ChainIs
<1> QED BY <1>1, <1>2, NoneOn DEF Found

-----------------------------------------------------------------------------
(* Lexical scope, in environments of frames that are in step. *)

LEMMA SaysTheSame ==
    ASSUME IInv, NEW f \in Made, NEW v \in Vars, Agrees(f, frames[f].fl, v)
    PROVE  LET r == InFrame(v, frames[f])
               m == scope[f][v]
           IN  /\ m.is = "error" => r.is = "error"
               /\ m.is = "none" => r.is = "none"
               /\ m.is = "bound" => r.is = "cell" /\ m.value = cells[r.cell]
               /\ m.is = "rest" => /\ r.is = "fresh"
                                   /\ m.value = [k \in DOMAIN r.list |-> cells[r.list[k]]]
               /\ m.is \in {"error", "none", "bound", "rest"}
<1> DEFINE r == InFrame(v, frames[f])
           m == scope[f][v]
           fl == frames[f].fl
           al == frames[f].al
           rest == frames[f].rest
           n == Place(v, fl)
<1>1. frames[f] \in Frame /\ m \in Meaning
  BY Typed DEF IInv
<1>2. m.is \in {"error", "none", "bound", "rest"}
  BY <1>1 DEF Meaning
<1>3. r = IF n > Len(al) THEN [is |-> "error"]
          ELSE IF Hits(v, fl) # {} THEN [is |-> "cell", cell |-> al[n]]
          ELSE IF rest = v THEN [is |-> "fresh", list |-> After(al, n)]
          ELSE [is |-> "none"]
  BY <1>1, InFrameIs
<1>4. IF n > Len(al) THEN m.is = "error"
      ELSE IF Hits(v, fl) # {} THEN m.is = "bound" /\ m.value = cells[al[n]]
      ELSE IF rest = v THEN m.is = "rest" /\ m.value = Behind(al, n, cells)
      ELSE m.is = "none"
  BY DEF Agrees, Matches
<1> HIDE DEF r, m, fl, al, rest, n
<1>5. CASE n > Len(al)
  BY <1>2, <1>3, <1>4, <1>5 DEF r, m
<1>6. CASE ~(n > Len(al)) /\ Hits(v, fl) # {}
  BY <1>2, <1>3, <1>4, <1>6 DEF r, m
<1>7. CASE ~(n > Len(al)) /\ Hits(v, fl) = {} /\ rest = v
  BY <1>2, <1>3, <1>4, <1>7 DEF r, m, Behind
<1>8. CASE ~(n > Len(al)) /\ Hits(v, fl) = {} /\ rest # v
  BY <1>2, <1>3, <1>4, <1>8 DEF r, m
<1> QED BY <1>5, <1>6, <1>7, <1>8

LEMMA InScope ==
    ASSUME IInv
    PROVE  Lexical
<1> SUFFICES ASSUME NEW env \in Envs, NEW var \in Vars,
                    Within(env) \cap (spoilt \cup Half(calls)) = {}
             PROVE  Denotes(var, env) = Means(var, env)
  BY DEF Lexical
<1>0. Typing
  BY DEF IInv
<1>1. ASSUME NEW i \in DOMAIN Chain(env)
      PROVE  Chain(env)[i] \in Made /\ Agrees(Chain(env)[i], frames[Chain(env)[i]].fl, var)
  <2>1. Chain(env)[i] \in Made
    BY <1>0, ChainIs
  <2>2. Chain(env)[i] \notin spoilt \cup Half(calls)
    BY DEF Within
  <2> QED BY <2>1, <2>2 DEF IInv, InStep
<1>2. \A i \in DOMAIN Chain(env) :
         Chain(env)[i] \in Found(var) <=> Chain(env)[i] \in Bound(var)
  <2> SUFFICES ASSUME NEW i \in DOMAIN Chain(env)
               PROVE  Chain(env)[i] \in Found(var) <=> Chain(env)[i] \in Bound(var)
    OBVIOUS
  <2>1. PICK f : f = Chain(env)[i]
    OBVIOUS
  <2>2. f \in Made /\ Agrees(f, frames[f].fl, var)
    BY <1>1, <2>1
  <2>3. InFrame(var, frames[f]).is = "none" <=> scope[f][var].is = "none"
    BY <2>2, SaysTheSame
  <2> QED BY <2>1, <2>2, <2>3 DEF Found, Bound
<1>3. OnChain(env, Found(var)) = OnChain(env, Bound(var))
  BY <1>2 DEF OnChain
<1>4. FirstIn(env, Found(var)) = FirstIn(env, Bound(var))
  BY <1>3 DEF FirstIn
<1>5. PICK f : f = FirstIn(env, Bound(var))
  OBVIOUS
<1>6. /\ Envlookup(var, env) = IF f = NIL THEN [is |-> "none"] ELSE InFrame(var, frames[f])
      /\ Nearest(var, env) = f
  BY <1>0, <1>4, <1>5, LooksUp
<1>7. CASE f = NIL
  <2>1. Denotes(var, env) = vcell[var]
    BY <1>6, <1>7 DEF Denotes
  <2>2. Means(var, env) = vcell[var]
    BY <1>6, <1>7 DEF Means
  <2> QED BY <2>1, <2>2
<1>8. CASE f # NIL
  <2>1. PICK i \in DOMAIN Chain(env) : f = Chain(env)[i] /\ f \in Bound(var)
    BY <1>0, <1>5, <1>8, FirstInIs
  <2>2. f \in Made /\ Agrees(f, frames[f].fl, var) /\ scope[f][var].is # "none"
    BY <1>1, <2>1 DEF Bound
  <2> DEFINE r == InFrame(var, frames[f])
             m == scope[f][var]
  <2>3. /\ m.is = "error" => r.is = "error"
        /\ m.is = "bound" => r.is = "cell" /\ m.value = cells[r.cell]
        /\ m.is = "rest" => /\ r.is = "fresh"
                            /\ m.value = [k \in DOMAIN r.list |-> cells[r.list[k]]]
        /\ m.is \in {"error", "bound", "rest"}
    BY <2>2, SaysTheSame
  <2>4. Means(var, env) = IF m.is = "error" THEN None ELSE m.value
    BY <1>6, <1>8 DEF Means
  <2>5. Envlookup(var, env) = r
    BY <1>6, <1>8
  <2> HIDE DEF r, m
  <2>6. Denotes(var, env) = CASE r.is = "none" -> vcell[var]
                              [] r.is = "cell" -> cells[r.cell]
                              [] r.is = "fresh" -> [k \in DOMAIN r.list |-> cells[r.list[k]]]
                              [] r.is = "error" -> None
    BY <2>5 DEF Denotes
  <2>7. CASE m.is = "error"
    BY <2>3, <2>4, <2>6, <2>7
  <2>8. CASE m.is = "bound"
    BY <2>3, <2>4, <2>6, <2>8
  <2>9. CASE m.is = "rest"
    BY <2>3, <2>4, <2>6, <2>9
  <2> QED BY <2>3, <2>7, <2>8, <2>9
<1> QED BY <1>7, <1>8

-----------------------------------------------------------------------------
(* set! finds the frame that scope means, whatever state those on the way  *)
(* are in.                                                                 *)

(* A frame in which an actual is missing is in step. *)
LEMMA LackingIs ==
    ASSUME IInv, NEW f \in Made, NEW w \in Vars, scope[f][w].is = "error"
    PROVE  \A v \in Vars : Agrees(f, frames[f].fl, v)
<1>1. f \notin spoilt /\ \A i \in DOMAIN calls : calls[i] \in Defining => calls[i].env # f
  BY DEF IInv, Lacking
<1>2. f \notin Half(calls)
  BY <1>1, HalfIs DEF IInv, Typing, Defining
<1> QED BY <1>1, <1>2 DEF IInv, InStep

(* What a frame has of a variable, half extended or not, is in its scope. *)
LEMMA Bounds ==
    ASSUME IInv, NEW f \in Made, NEW v \in Vars
    PROVE  LET r == InFrame(v, frames[f])
               is == scope[f][v].is
           IN  /\ r.is = "none" => is = "none"
               /\ r.is = "cell" => is = "bound"
               /\ r.is = "fresh" => is = "rest"
<1> DEFINE r == InFrame(v, frames[f])
           is == scope[f][v].is
<1>1. frames[f] \in Frame
  BY Typed DEF IInv
<1>2. is \in Binding(v, frames[f].fl, frames[f].rest)
  BY DEF IInv, Named
<1>3. is = "error" => r.is = "error"
  <2> SUFFICES ASSUME is = "error" PROVE r.is = "error"
    OBVIOUS
  <2>1. Agrees(f, frames[f].fl, v)
    BY LackingIs
  <2> QED BY <2>1, SaysTheSame
<1>4. r = IF Place(v, frames[f].fl) > Len(frames[f].al) THEN [is |-> "error"]
          ELSE IF Hits(v, frames[f].fl) # {}
               THEN [is |-> "cell", cell |-> frames[f].al[Place(v, frames[f].fl)]]
          ELSE IF frames[f].rest = v
               THEN [is |-> "fresh", list |-> After(frames[f].al, Place(v, frames[f].fl))]
          ELSE [is |-> "none"]
  BY <1>1, InFrameIs
<1> HIDE DEF is, r
<1>5. r.is = "cell" => Hits(v, frames[f].fl) # {}
  BY <1>4
<1>6. r.is = "fresh" => Hits(v, frames[f].fl) = {} /\ frames[f].rest = v
  BY <1>4
<1>7. r.is = "none" => Hits(v, frames[f].fl) = {} /\ frames[f].rest # v
  BY <1>4
<1>8. /\ r.is = "none" => is = "none"
      /\ r.is = "cell" => is = "bound"
      /\ r.is = "fresh" => is = "rest"
  BY <1>2, <1>3, <1>5, <1>6, <1>7 DEF Binding
<1> QED BY <1>8 DEF is, r

LEMMA NearestIs ==
    ASSUME IInv, NEW env \in Envs, NEW var \in Vars
    PROVE  /\ Envlookup(var, env).is = "none" => Nearest(var, env) = NIL
           /\ Envlookup(var, env).is \in {"cell", "fresh"} =>
                 /\ Nearest(var, env) \in Made \cap Within(env)
                 /\ Envlookup(var, env) = InFrame(var, frames[Nearest(var, env)])
<1>0. Typing
  BY DEF IInv
<1>1. \A i \in DOMAIN Chain(env) : Chain(env)[i] \in Made
  BY <1>0, ChainIs
<1>2. \A f \in Made : f \notin Found(var) => f \notin Bound(var)
  BY Bounds DEF Found, Bound
<1>3. Nearest(var, env) = FirstIn(env, Bound(var))
  BY <1>0, LooksUp
<1>4. ASSUME Envlookup(var, env).is = "none" PROVE Nearest(var, env) = NIL
  <2>1. \A i \in DOMAIN Chain(env) : Chain(env)[i] \notin Found(var)
    BY <1>0, <1>4, NotFound DEF Found
  <2> QED BY <1>0, <1>1, <1>2, <1>3, <2>1, NoneOn
<1>5. ASSUME Envlookup(var, env).is \in {"cell", "fresh"}
      PROVE  /\ Nearest(var, env) \in Made \cap Within(env)
             /\ Envlookup(var, env) = InFrame(var, frames[Nearest(var, env)])
  <2>1. /\ FirstIn(env, Found(var)) # NIL
        /\ Envlookup(var, env) = InFrame(var, frames[FirstIn(env, Found(var))])
    BY <1>0, <1>5, LooksUp
  <2>2. PICK i \in DOMAIN Chain(env) :
           /\ FirstIn(env, Found(var)) = Chain(env)[i]
           /\ \A j \in DOMAIN Chain(env) : j < i => Chain(env)[j] \notin Found(var)
    BY <1>0, <2>1, FirstInIs
  <2>3. PICK f \in Made : f = Chain(env)[i]
    BY <1>1
  <2>4. InFrame(var, frames[f]).is \in {"cell", "fresh"}
    BY <1>5, <2>1, <2>2, <2>3
  <2>5. scope[f][var].is # "none"
    BY <2>4, Bounds
  <2>6. Chain(env)[i] \in Bound(var)
    BY <2>3, <2>5 DEF Bound
  <2>7. \A j \in DOMAIN Chain(env) : j < i => Chain(env)[j] \notin Bound(var)
    BY <1>1, <1>2, <2>2
  <2>8. FirstIn(env, Bound(var)) = f
    BY <1>0, <2>3, <2>6, <2>7, FirstInOnly
  <2>9. f \in Within(env)
    BY <2>3 DEF Within
  <2> QED BY <1>3, <2>1, <2>2, <2>3, <2>8, <2>9
<1> QED BY <1>4, <1>5

(* Where the calls and the frames stay as they are. *)
LEMMA SpoilsSafely ==
    ASSUME IInv, NEW env, Spoil(env), UNCHANGED <<calls, frames, cells, scope>>
    PROVE  IInv'
<1>1. calls' \in Seq(Call)
  BY DEF IInv, Typing
<1>2. spoilt \subseteq spoilt' /\ spoilt' \subseteq spoilt \cup Half(calls)
  BY DEF Spoil
<1>3. \A i \in DOMAIN calls' : i \in DOMAIN calls /\ Alike(calls[i], calls'[i])
  BY Alikes
<1>4. Half(calls') = Half(calls)
  BY DEF Half
<1> QED BY <1>1, <1>2, <1>3, <1>4, SameCalls

LEMMA NewCells ==
    ASSUME Typing, NEW f \in Made, NEW fl \in Seq(Vars), NEW v,
           Agrees(f, fl, v), scope'[f][v] = scope[f][v],
           frames'[f].rest = frames[f].rest, frames'[f].al = frames[f].al,
           \A k \in DOMAIN frames[f].al : cells'[frames[f].al[k]] = cells[frames[f].al[k]]
    PROVE  Agrees(f, fl, v)'
<1>1. frames[f].al \in Seq(Nat)
  BY Typed
<1>2. Matches(v, fl, frames[f].rest, frames[f].al, cells, scope[f][v])
  BY DEF Agrees
<1>3. Matches(v, fl, frames[f].rest, frames[f].al, cells', scope[f][v])
  BY <1>1, <1>2, MatchesKept
<1> QED BY <1>3 DEF Agrees

LEMMA SetsCell ==
    ASSUME IInv, NEW f \in Made, NEW var \in Vars, NEW val \in Values,
           InFrame(var, frames[f]).is = "cell",
           cells' = [cells EXCEPT ![InFrame(var, frames[f]).cell] = val],
           scope' = [scope EXCEPT ![f][var].value = val],
           spoilt \subseteq spoilt', spoilt' \subseteq spoilt \cup Half(calls),
           f \in Half(calls) => f \in spoilt',
           UNCHANGED <<calls, frames>>
    PROVE  IInv'
<1> DEFINE fl == frames[f].fl
           al == frames[f].al
           n == Place(var, fl)
           c == al[n]
<1>0. Typing /\ Made' = Made /\ Half(calls)' = Half(calls)
  BY DEF IInv, Made, Half
<1>1. /\ DOMAIN scope = Made /\ scope[f] \in [Vars -> Meaning]
      /\ fl \in Seq(Vars) /\ al \in Seq(Nat) /\ frames[f] \in Frame
  BY <1>0, Typed
<1>2. /\ n \in DOMAIN al /\ Hits(var, fl) # {} /\ n \in DOMAIN fl
      /\ InFrame(var, frames[f]).cell = c
  <2>1. InFrame(var, frames[f]) =
           IF n > Len(al) THEN [is |-> "error"]
           ELSE IF Hits(var, fl) # {} THEN [is |-> "cell", cell |-> c]
           ELSE IF frames[f].rest = var THEN [is |-> "fresh", list |-> After(al, n)]
           ELSE [is |-> "none"]
    BY <1>1, InFrameIs
  <2>2. ~(n > Len(al)) /\ Hits(var, fl) # {} /\ InFrame(var, frames[f]).cell = c
    BY <2>1
  <2>3. n \in DOMAIN fl
    BY <1>1, <2>2, PlaceIs
  <2> QED BY <1>1, <2>2, <2>3
<1>3. scope[f][var].is = "bound"
  BY Bounds
<1>4. PICK owner \in [DOMAIN cells -> Made] :
         /\ \A g \in Made : Owns(g, frames[g].al, owner)
         /\ \A i \in DOMAIN calls :
               calls[i] \in Valuing => Owns(calls[i].env, calls[i].list, owner)
  BY DEF IInv, Owned
<1>5. c \in DOMAIN cells /\ owner[c] = f /\ \A k \in DOMAIN al : k # n => al[k] # c
  BY <1>2, <1>4 DEF Owns
<1> HIDE DEF c, n, fl, al
<1>6. /\ cells' \in Seq(Values) /\ DOMAIN cells' = DOMAIN cells /\ cells'[c] = val
      /\ \A d \in DOMAIN cells : d # c => cells'[d] = cells[d]
  BY <1>0, <1>2, <1>5 DEF Typing
<1>7. /\ scope' \in Seq([Vars -> Meaning]) /\ DOMAIN scope' = Made /\ Len(scope') = Len(scope)
      /\ scope'[f][var] = [is |-> "bound", value |-> val]
      /\ \A g \in Made, v \in Vars : (g # f \/ v # var) => scope'[g][v] = scope[g][v]
  <2>1. [scope[f][var] EXCEPT !.value = val] = [is |-> "bound", value |-> val]
    <3>1. scope[f][var] \in [is : {"bound"}, value : Values]
      BY <1>1, <1>3 DEF Meaning
    <3> QED BY <3>1
  <2>2. [is |-> "bound", value |-> val] \in Meaning
    BY DEF Meaning
  <2> DEFINE s == [scope[f] EXCEPT ![var] = [is |-> "bound", value |-> val]]
  <2>3. s \in [Vars -> Meaning] /\ s[var] = [is |-> "bound", value |-> val]
        /\ \A v \in Vars : v # var => s[v] = scope[f][v]
    BY <1>1, <2>2
  <2>4. scope' = [scope EXCEPT ![f] = s]
    BY <2>1
  <2> HIDE DEF s
  <2>5. scope \in Seq([Vars -> Meaning]) /\ f \in DOMAIN scope
    BY <1>0, <1>1 DEF Typing
  <2>6. /\ scope' \in Seq([Vars -> Meaning]) /\ DOMAIN scope' = DOMAIN scope
        /\ Len(scope') = Len(scope) /\ scope'[f] = s
        /\ \A g \in DOMAIN scope : g # f => scope'[g] = scope[g]
    BY <2>3, <2>4, <2>5
  <2> QED BY <1>1, <2>3, <2>6
<1>8. \A g \in Made, v \in Vars : scope'[g][v].is = scope[g][v].is
  <2> SUFFICES ASSUME NEW g \in Made, NEW v \in Vars
               PROVE  scope'[g][v].is = scope[g][v].is
    OBVIOUS
  <2>1. CASE g = f /\ v = var
    <3>1. scope'[f][var].is = "bound"
      BY <1>7
    <3> QED BY <1>3, <2>1, <3>1
  <2>2. CASE g # f \/ v # var
    BY <1>7, <2>2
  <2> QED BY <2>1, <2>2
<1>9. ASSUME NEW g \in Made, g # f, NEW gl \in Seq(Vars), NEW v \in Vars, Agrees(g, gl, v)
      PROVE  Agrees(g, gl, v)'
  <2>1. \A k \in DOMAIN frames[g].al :
           frames[g].al[k] \in DOMAIN cells /\ frames[g].al[k] # c
    BY <1>4, <1>5, <1>9 DEF Owns
  <2>2. \A k \in DOMAIN frames[g].al : cells'[frames[g].al[k]] = cells[frames[g].al[k]]
    BY <1>6, <2>1
  <2>3. scope'[g][v] = scope[g][v]
    BY <1>7, <1>9
  <2> QED BY <1>0, <1>9, <2>2, <2>3, NewCells
<1>10. ASSUME NEW v \in Vars, Agrees(f, fl, v) PROVE Agrees(f, fl, v)'
  <2> DEFINE m == scope[f][v]
             p == Place(v, fl)
  <2>1. IF p > Len(al) THEN m.is = "error"
        ELSE IF Hits(v, fl) # {} THEN m.is = "bound" /\ m.value = cells[al[p]]
        ELSE IF frames[f].rest = v THEN m.is = "rest" /\ m.value = Behind(al, p, cells)
        ELSE m.is = "none"
    BY <1>10 DEF Agrees, Matches, al
  <2>2. Agrees(f, fl, v)' <=>
          IF p > Len(al) THEN scope'[f][v].is = "error"
          ELSE IF Hits(v, fl) # {}
               THEN scope'[f][v].is = "bound" /\ scope'[f][v].value = cells'[al[p]]
          ELSE IF frames[f].rest = v
               THEN scope'[f][v].is = "rest" /\ scope'[f][v].value = Behind(al, p, cells')
          ELSE scope'[f][v].is = "none"
    BY DEF Agrees, Matches, al, fl
  <2>3. p \in Nat /\ Len(al) \in Nat /\ DOMAIN al = 1..Len(al) /\ Len(fl) \in Nat
        /\ DOMAIN fl = 1..Len(fl)
    BY <1>1, PlaceIs
  <2>p. /\ Hits(v, fl) = {} => p = Len(fl)
        /\ Hits(v, fl) # {} => p \in DOMAIN fl /\ fl[p] = v
    BY <1>1, PlaceIs
  <2>n. fl[n] = var
    BY <1>1, <1>2, PlaceIs DEF n
  <2> HIDE DEF m, p
  <2>4. CASE v = var
    <3>1. p = n
      BY <2>4 DEF p, n
    <3> QED BY <1>2, <1>6, <1>7, <2>1, <2>2, <2>3, <2>4, <3>1 DEF c
  <2>5. CASE v # var
    <3>1. scope'[f][v] = m
      BY <1>7, <2>5 DEF m
    <3>2. CASE p > Len(al)
      BY <2>1, <2>2, <3>1, <3>2
    <3>3. CASE ~(p > Len(al)) /\ Hits(v, fl) # {}
      <4>1. p \in DOMAIN al /\ p # n
        BY <2>3, <2>p, <2>n, <2>5, <3>3
      <4>2. al[p] \in DOMAIN cells /\ al[p] # c
        BY <1>4, <1>5, <4>1 DEF Owns, al
      <4> QED BY <1>6, <2>1, <2>2, <3>1, <3>3, <4>2
    <3>4. CASE ~(p > Len(al)) /\ Hits(v, fl) = {}
      <4>1. p \in 0..Len(al)
        BY <2>3, <3>4
      <4>2. /\ DOMAIN After(al, p) = 1..(Len(al) - p)
            /\ \A k \in 1..(Len(al) - p) : p + k \in DOMAIN al /\ After(al, p)[k] = al[p + k]
        BY <1>1, <4>1, AfterIs
      <4>3. ASSUME NEW k \in DOMAIN After(al, p)
            PROVE  cells'[After(al, p)[k]] = cells[After(al, p)[k]]
        <5>1. p + k \in DOMAIN al /\ p + k # n /\ After(al, p)[k] = al[p + k]
          BY <1>2, <2>3, <2>p, <3>4, <4>2
        <5>2. al[p + k] \in DOMAIN cells /\ al[p + k] # c
          BY <1>4, <1>5, <5>1 DEF Owns, al
        <5> QED BY <1>6, <5>1, <5>2
      <4>4. Behind(al, p, cells') = Behind(al, p, cells)
        BY <4>3 DEF Behind
      <4> QED BY <2>1, <2>2, <3>1, <3>4, <4>4
    <3> QED BY <3>2, <3>3, <3>4
  <2> QED BY <2>4, <2>5
<1>11. Typing'
  <2>1. Half(calls) \subseteq Made
    BY SMTT(30), <1>0, HalfIs DEF Typing, Defining
  <2>2. spoilt' \subseteq Made
    BY <1>0, <2>1 DEF Typing
  <2> QED BY <1>0, <1>6, <1>7, <2>2 DEF Typing
<1>12. Owned'
  BY <1>0, <1>4, <1>6 DEF Owned
<1>13. Named'
  BY <1>0, <1>8 DEF IInv, Named
<1>14. Lacking'
  <2> SUFFICES ASSUME NEW g \in Made, NEW v \in Vars, scope[g][v].is = "error"
               PROVE  /\ g \notin spoilt'
                      /\ \A i \in DOMAIN calls : calls[i] \in Defining => calls[i].env # g
    BY <1>0, <1>8 DEF Lacking
  <2>1. /\ g \notin spoilt
        /\ \A i \in DOMAIN calls : calls[i] \in Defining => calls[i].env # g
    BY DEF IInv, Lacking
  <2>2. g \notin Half(calls)
    BY ZenonT(60), <1>0, <2>1, HalfIs DEF Typing, Defining
  <2> QED BY <2>1, <2>2
<1>15. NamesNew'
  BY DEF IInv, NamesNew
<1>16. Nested'
  BY DEF IInv, Nested
<1>17. InStep'
  <2> SUFFICES ASSUME NEW g \in Made, g \notin spoilt', g \notin Half(calls), NEW v \in Vars
               PROVE  Agrees(g, frames[g].fl, v)'
    BY <1>0 DEF InStep, Agrees
  <2>1. Agrees(g, frames[g].fl, v) /\ frames[g].fl \in Seq(Vars)
    BY <1>0, Typed DEF IInv, InStep
  <2>2. CASE g = f
    <3>1. Agrees(f, fl, v)'
      BY <1>10, <2>1, <2>2 DEF fl
    <3> QED BY <2>2, <3>1 DEF fl, Agrees
  <2>3. CASE g # f
    <3>1. PICK gl \in Seq(Vars) : gl = frames[g].fl
      BY <2>1
    <3>2. Agrees(g, gl, v)'
      BY <1>9, <2>1, <2>3, <3>1
    <3> QED BY <3>1, <3>2 DEF Agrees
  <2> QED BY <2>2, <2>3
<1>18. HalfStep'
  <2> SUFFICES ASSUME NEW i \in DOMAIN calls, calls[i] \in Valuing, calls[i].env \notin spoilt'
               PROVE  LET d == calls[i] IN
                      /\ scope'[d.env][d.var] = [is |-> "bound", value |-> d.val]
                      /\ \E gl \in Seq(Vars) :
                            /\ frames[d.env].fl = <<d.var>> \o gl
                            /\ \A v \in Vars \ {d.var} : Agrees(d.env, gl, v)'
    BY DEF HalfStep, Agrees
  <2>1. PICK g, w : g = calls[i].env /\ w = calls[i].var
    OBVIOUS
  <2>2. g \in Made /\ w \in Vars /\ g \in Half(calls)
    BY <1>0, <2>1, Typed, HalfIs DEF Typing, Defining
  <2>3. g # f
    BY <2>1, <2>2
  <2>4. PICK gl \in Seq(Vars) :
           /\ frames[g].fl = <<w>> \o gl
           /\ \A v \in Vars \ {w} : Agrees(g, gl, v)
           /\ scope[g][w] = [is |-> "bound", value |-> calls[i].val]
    BY <2>1 DEF IInv, HalfStep
  <2>5. \A v \in Vars \ {w} : Agrees(g, gl, v)'
    BY <1>9, <2>2, <2>3, <2>4
  <2>6. scope'[g][w] = scope[g][w]
    BY <1>7, <2>2, <2>3
  <2> QED BY <2>1, <2>4, <2>5, <2>6
<1> QED BY <1>11, <1>12, <1>13, <1>14, <1>15, <1>16, <1>17, <1>18 DEF IInv

LEMMA SetvarsSafely ==
    ASSUME IInv, NEW env \in Envs, NEW var \in Vars, NEW val \in Values, Setvar(var, val, env)
    PROVE  IInv'
<1> DEFINE al == Envlookup(var, env)
           f == Nearest(var, env)
<1>1. /\ al.is # "error"
      /\ IF al.is = "cell" THEN cells' = [cells EXCEPT ![al.cell] = val] ELSE UNCHANGED cells
      /\ scope' = Assigned(var, val, env) /\ Spoil(env)
      /\ UNCHANGED <<calls, frames>>
  BY DEF Setvar
<1>2. Assigned(var, val, env) = IF f = NIL \/ scope[f][var].is # "bound" THEN scope
                                ELSE [scope EXCEPT ![f][var].value = val]
  BY DEF Assigned
<1>3. /\ al.is = "none" => f = NIL
      /\ al.is \in {"cell", "fresh"} =>
            f \in Made \cap Within(env) /\ al = InFrame(var, frames[f])
  BY NearestIs
<1>4. al.is \in {"none", "cell", "fresh"}
  <2>1. \A g \in Made : InFrame(var, frames[g]).is \in {"none", "cell", "fresh", "error"}
    <3> SUFFICES ASSUME NEW g \in Made
                 PROVE  InFrame(var, frames[g]).is \in {"none", "cell", "fresh", "error"}
      OBVIOUS
    <3>1. frames[g] \in Frame
      BY Typed DEF IInv
    <3> QED BY <3>1, InFrameKind
  <2>2. FirstIn(env, Found(var)) # NIL => FirstIn(env, Found(var)) \in Made
    BY FirstInIs DEF IInv, Found
  <2>3. al.is \in {"none", "cell", "fresh", "error"}
    BY <2>1, <2>2, LooksUp DEF IInv
  <2> QED BY <1>1, <2>3
<1> HIDE DEF al, f
<1>5. CASE al.is = "none"
  <2>1. UNCHANGED <<calls, frames, cells, scope>>
    BY <1>1, <1>2, <1>3, <1>5
  <2> QED BY <1>1, <2>1, SpoilsSafely
<1>6. CASE al.is = "fresh"
  <2>1. scope[f][var].is = "rest"
    BY <1>3, <1>6, Bounds
  <2>2. UNCHANGED <<calls, frames, cells, scope>>
    BY <1>1, <1>2, <1>6, <2>1
  <2> QED BY <1>1, <2>2, SpoilsSafely
<1>7. CASE al.is = "cell"
  <2>1. f \in Made /\ f \in Within(env) /\ al = InFrame(var, frames[f]) /\ f # NIL
    BY <1>3, <1>7, Typed DEF IInv, NIL
  <2>2. scope[f][var].is = "bound"
    BY <1>7, <2>1, Bounds
  <2>3. /\ cells' = [cells EXCEPT ![InFrame(var, frames[f]).cell] = val]
        /\ scope' = [scope EXCEPT ![f][var].value = val]
    BY <1>1, <1>2, <1>7, <2>1, <2>2
  <2>4. /\ spoilt \subseteq spoilt' /\ spoilt' \subseteq spoilt \cup Half(calls)
        /\ f \in Half(calls) => f \in spoilt'
    BY <1>1, <2>1 DEF Spoil
  <2> QED BY <1>1, <1>7, <2>1, <2>3, <2>4, SetsCell
<1> QED BY <1>4, <1>5, <1>6, <1>7

-----------------------------------------------------------------------------
(* define, up to its first allocation. *)

LEMMA SameNames ==
    ASSUME NEW fl \in Seq(Vars), NEW rest
    PROVE  Renewed(fl, fl, rest)
<1>1. <<>> \in Seq(Vars) /\ fl = <<>> \o fl /\ DOMAIN <<>> = {}
  OBVIOUS
<1> QED BY <1>1 DEF Renewed

LEMMA DefinesSafely ==
    ASSUME IInv, NEW env \in Envs, NEW var \in Vars, NEW val \in Values, Define(var, val, env)
    PROVE  IInv'
<1> DEFINE c == [proc |-> "define", at |-> "formals", gc |-> FALSE,
                 var |-> var, val |-> val, env |-> env, list |-> frames[env].fl]
           n == Len(calls) + 1
           fl == frames[env].fl
           rest == frames[env].rest
<1>0. /\ env # NIL /\ Envlookup(var, env).is = "none" /\ Begin(c) /\ Spoil(env)
      /\ UNCHANGED <<frames, cells, scope>> /\ Typing
  BY DEF Define, IInv
<1>1. /\ env \in Made /\ env \in Within(env) /\ Made' = Made
      /\ \A f, gl, v : Agrees(f, gl, v)' <=> Agrees(f, gl, v)
  BY <1>0, ChainIs DEF Envs, Made, NIL, Agrees
<1>2. frames[env] \in Frame /\ fl \in Seq(Vars) /\ frames[env].al \in Seq(Nat)
  BY <1>0, <1>1, Typed
<1>3. c \in Naming /\ c \in Defining /\ c \in Call /\ c \notin Valuing
  <2>1. env \in Nat
    BY <1>0, <1>1, Typed
  <2>2. c \in Naming
    BY <1>2, <2>1 DEF Naming
  <2> QED BY <2>2, Kinds DEF Defining, Call
<1>4. Hits(var, fl) = {} /\ rest # var /\ Len(fl) <= Len(frames[env].al)
  <2>1. InFrame(var, frames[env]).is = "none"
    <3>1. PICK i \in DOMAIN Chain(env) : Chain(env)[i] = env
      BY <1>1 DEF Within
    <3> QED BY <1>0, <3>1, NotFound
  <2>2. Place(var, fl) \in 0..Len(fl) /\ (Hits(var, fl) = {} => Place(var, fl) = Len(fl))
    BY <1>2, PlaceIs
  <2>3. InFrame(var, frames[env]) =
           IF Place(var, fl) > Len(frames[env].al) THEN [is |-> "error"]
           ELSE IF Hits(var, fl) # {}
                THEN [is |-> "cell", cell |-> frames[env].al[Place(var, fl)]]
           ELSE IF rest = var
                THEN [is |-> "fresh", list |-> After(frames[env].al, Place(var, fl))]
           ELSE [is |-> "none"]
    BY <1>2, InFrameIs
  <2>4. Hits(var, fl) = {} /\ rest # var /\ ~(Place(var, fl) > Len(frames[env].al))
    BY <2>1, <2>3
  <2>5. Len(fl) \in Nat /\ Len(frames[env].al) \in Nat
    BY <1>2
  <2> QED BY <2>2, <2>4, <2>5
<1>5. /\ c.env = env /\ c.list = fl /\ c.var = var
  OBVIOUS
<1> HIDE DEF c
<1>6. /\ calls' \in Seq(Call) /\ DOMAIN calls' = 1..n /\ DOMAIN calls = 1..(n - 1) /\ n \in Nat
      /\ calls'[n] = c /\ \A i \in 1..(n - 1) : calls'[i] = calls[i]
  <2>1. calls \in Seq(Call) /\ calls' = Append(calls, c)
    BY <1>0 DEF Begin, Typing
  <2>2. /\ calls' \in Seq(Call) /\ Len(calls') = n /\ calls'[n] = c
        /\ \A i \in 1..Len(calls) : calls'[i] = calls[i]
    BY <1>3, <2>1, AppendProperties
  <2>3. Len(calls) \in Nat /\ n - 1 = Len(calls) /\ DOMAIN calls = 1..Len(calls)
    BY <2>1
  <2> QED BY <2>2, <2>3
<1> HIDE DEF n, fl, rest
<1>7. \A i \in 1..n : i = n \/ (i \in 1..(n - 1) /\ i # n)
  BY <1>6
<1>8. Half(calls') = Half(calls)
  <2>1. calls \in Seq(Call)
    BY <1>0 DEF Typing
  <2>2. \A f : f \in Half(calls') <=> f \in Half(calls)
    BY <1>3, <1>6, <1>7, <2>1, HalfIs
  <2> QED BY <2>2
<1>9. spoilt' = spoilt \cup (Within(env) \cap Half(calls))
  BY <1>0 DEF Spoil
<1>10. \A f \in Half(calls) : f \in Made /\ \E i \in DOMAIN calls : calls[i] \in Defining /\ calls[i].env = f
  BY <1>0, HalfIs DEF Typing, Defining
<1>11. Typing'
  BY <1>0, <1>1, <1>5, <1>6, <1>7, <1>9, <1>10 DEF Typing
<1>12. Owned'
  <2>1. PICK owner \in [DOMAIN cells -> Made] :
           /\ \A f \in Made : Owns(f, frames[f].al, owner)
           /\ \A i \in DOMAIN calls :
                  calls[i] \in Valuing => Owns(calls[i].env, calls[i].list, owner)
    BY DEF IInv, Owned
  <2>2. \A i \in DOMAIN calls' :
           calls'[i] \in Valuing => Owns(calls'[i].env, calls'[i].list, owner)
    BY <1>3, <1>6, <1>7, <2>1
  <2> QED BY <1>0, <1>1, <2>1, <2>2 DEF Owned
<1>13. Named'
  BY <1>0, <1>1 DEF IInv, Named
<1>14. Lacking'
  <2> SUFFICES ASSUME NEW f \in Made, NEW v \in Vars, scope[f][v].is = "error"
               PROVE  /\ f \notin spoilt'
                      /\ \A i \in DOMAIN calls' : calls'[i] \in Defining => calls'[i].env # f
    BY <1>0, <1>1 DEF Lacking
  <2>1. /\ f \notin spoilt
        /\ \A i \in DOMAIN calls : calls[i] \in Defining => calls[i].env # f
    BY DEF IInv, Lacking
  <2>2. f \notin spoilt'
    BY <1>9, <1>10, <2>1
  <2>3. f # env
    <3> SUFFICES ASSUME f = env PROVE FALSE
      OBVIOUS
    <3>1. Agrees(env, fl, v) /\ scope[env][v].is = "error"
      BY LackingIs DEF fl
    <3>2. Place(v, fl) > Len(frames[env].al)
      BY <3>1 DEF Agrees, Matches
    <3>3. Place(v, fl) \in 0..Len(fl) /\ Len(fl) \in Nat /\ Len(frames[env].al) \in Nat
      BY <1>2, PlaceIs DEF fl
    <3> QED BY <1>4, <3>2, <3>3
  <2> QED BY <1>5, <1>6, <1>7, <2>1, <2>2, <2>3
<1>15. NamesNew'
  <2>1. Renewed(c.list, fl, rest) /\ Hits(c.var, c.list) = {} /\ c.var # rest
    BY <1>2, <1>4, <1>5, SameNames DEF fl
  <2> QED BY <1>0, <1>5, <1>6, <1>7, <2>1 DEF IInv, NamesNew, fl, rest
<1>16. Nested'
  <2> SUFFICES ASSUME NEW i \in DOMAIN calls', NEW j \in DOMAIN calls', i < j,
                      calls'[i] \in Defining, calls'[j] \in Defining,
                      calls'[i].env = calls'[j].env
               PROVE  /\ calls'[i] \in Valuing => calls'[i].env \in spoilt'
                      /\ calls'[i] \in Naming /\ calls'[j] \in Naming =>
                            Renewed(calls'[i].list, calls'[j].list, frames[calls'[i].env].rest)
    BY <1>0 DEF Nested
  <2>1. i \in 1..(n - 1) /\ i \in DOMAIN calls /\ calls'[i] = calls[i]
    BY <1>6
  <2>2. CASE j = n
    <3>1. calls[i].env = env /\ calls'[j] = c
      BY <1>5, <1>6, <2>1, <2>2
    <3>2. calls[i] \in Valuing => env \in Half(calls)
      BY <1>0, <2>1, <3>1, HalfIs DEF Typing
    <3>3. calls[i] \in Valuing => env \in spoilt'
      BY <1>1, <1>9, <3>2
    <3>4. calls[i] \in Naming => Renewed(calls[i].list, fl, rest)
      BY <2>1, <3>1 DEF IInv, NamesNew, fl, rest
    <3> QED BY <1>5, <2>1, <3>1, <3>3, <3>4 DEF rest
  <2>3. CASE j # n
    <3>1. j \in DOMAIN calls /\ calls'[j] = calls[j]
      BY <1>6, <1>7, <2>3
    <3>2. spoilt \subseteq spoilt'
      BY <1>9
    <3> QED BY <2>1, <3>1, <3>2 DEF IInv, Nested
  <2> QED BY <2>2, <2>3
<1>17. InStep'
  BY <1>0, <1>1, <1>8, <1>9 DEF IInv, InStep
<1>18. HalfStep'
  <2> SUFFICES ASSUME NEW i \in DOMAIN calls', calls'[i] \in Valuing, calls'[i].env \notin spoilt'
               PROVE  LET d == calls'[i] IN
                      /\ scope[d.env][d.var] = [is |-> "bound", value |-> d.val]
                      /\ \E gl \in Seq(Vars) :
                            /\ frames[d.env].fl = <<d.var>> \o gl
                            /\ \A v \in Vars \ {d.var} : Agrees(d.env, gl, v)
    BY <1>0, <1>1 DEF HalfStep
  <2>1. i \in DOMAIN calls /\ calls'[i] = calls[i]
    BY <1>3, <1>6, <1>7
  <2>2. calls[i].env \notin spoilt
    BY <1>9, <2>1
  <2> QED BY <2>1, <2>2 DEF IInv, HalfStep
<1> QED BY <1>11, <1>12, <1>13, <1>14, <1>15, <1>16, <1>17, <1>18 DEF IInv

-----------------------------------------------------------------------------
(* The first store of a define, to the formals. *)

LEMMA RenewedIs ==
    ASSUME NEW old \in Seq(Vars), NEW fl \in Seq(Vars), NEW rest, Renewed(old, fl, rest)
    PROVE  /\ Len(fl) - Len(old) \in Nat
           /\ \A k \in 1..(Len(fl) - Len(old)) : fl[k] # rest /\ Hits(fl[k], old) = {}
           /\ \A v : Hits(v, fl) = {} <=>
                 /\ Hits(v, old) = {}
                 /\ ~\E k \in 1..(Len(fl) - Len(old)) : fl[k] = v
           /\ fl # old => Len(fl) # Len(old)
<1>1. PICK new \in Seq(Vars) : /\ fl = new \o old
                               /\ \A k \in DOMAIN new : new[k] # rest /\ Hits(new[k], old) = {}
  BY DEF Renewed
<1>2. /\ Len(fl) = Len(new) + Len(old)
      /\ \A i \in 1..(Len(new) + Len(old)) :
            fl[i] = IF i <= Len(new) THEN new[i] ELSE old[i - Len(new)]
  BY <1>1, ConcatProperties
<1>3. /\ Len(new) \in Nat /\ Len(old) \in Nat /\ Len(fl) - Len(old) = Len(new)
      /\ DOMAIN new = 1..Len(new) /\ DOMAIN old = 1..Len(old) /\ DOMAIN fl = 1..Len(fl)
  BY <1>2
<1>4. \A k \in 1..Len(new) : fl[k] = new[k] /\ k \in DOMAIN fl
  BY <1>2, <1>3
<1>5. \A k \in 1..Len(old) : fl[Len(new) + k] = old[k] /\ Len(new) + k \in DOMAIN fl
  <2> SUFFICES ASSUME NEW k \in 1..Len(old)
               PROVE  fl[Len(new) + k] = old[k] /\ Len(new) + k \in DOMAIN fl
    OBVIOUS
  <2>1. Len(new) + k \in 1..(Len(new) + Len(old)) /\ ~(Len(new) + k <= Len(new))
        /\ Len(new) + k - Len(new) = k
    BY <1>3
  <2> QED BY <1>2, <1>3, <2>1
<1>6. \A i \in DOMAIN fl : i \in 1..Len(new) \/ \E k \in 1..Len(old) : i = Len(new) + k
  <2> SUFFICES ASSUME NEW i \in DOMAIN fl, i \notin 1..Len(new)
               PROVE  \E k \in 1..Len(old) : i = Len(new) + k
    OBVIOUS
  <2>1. i - Len(new) \in 1..Len(old) /\ i = Len(new) + (i - Len(new))
    BY <1>2, <1>3
  <2> QED BY <2>1
<1>7. ASSUME NEW v
      PROVE  Hits(v, fl) = {} <=> /\ Hits(v, old) = {}
                                  /\ ~\E k \in 1..Len(new) : fl[k] = v
  <2>1. ASSUME NEW i \in Hits(v, fl)
        PROVE  Hits(v, old) # {} \/ \E k \in 1..Len(new) : fl[k] = v
    <3>1. i \in DOMAIN fl /\ fl[i] = v
      BY DEF Hits
    <3>2. CASE i \in 1..Len(new)
      BY <3>1, <3>2
    <3>3. CASE \E k \in 1..Len(old) : i = Len(new) + k
      <4>1. PICK k \in 1..Len(old) : i = Len(new) + k
        BY <3>3
      <4>2. k \in Hits(v, old)
        BY <1>3, <1>5, <3>1, <4>1 DEF Hits
      <4> QED BY <4>2
    <3> QED BY <1>6, <3>1, <3>2, <3>3
  <2>2. ASSUME NEW k \in Hits(v, old) PROVE Hits(v, fl) # {}
    <3>1. k \in 1..Len(old) /\ old[k] = v
      BY <1>3 DEF Hits
    <3>2. Len(new) + k \in Hits(v, fl)
      BY <1>5, <3>1 DEF Hits
    <3> QED BY <3>2
  <2>3. ASSUME NEW k \in 1..Len(new), fl[k] = v PROVE Hits(v, fl) # {}
    BY <1>4, <2>3 DEF Hits
  <2> QED BY <2>1, <2>2, <2>3
<1>8. Len(fl) = Len(old) => fl = old
  <2> SUFFICES ASSUME Len(fl) = Len(old) PROVE fl = old
    OBVIOUS
  <2>1. new = <<>>
    BY <1>2, <1>3
  <2> QED BY <1>1, <2>1
<1> QED BY <1>1, <1>3, <1>4, <1>7, <1>8

LEMMA RenewedInFront ==
    ASSUME NEW old \in Seq(Vars), NEW fl \in Seq(Vars), NEW rest, Renewed(old, fl, rest),
           NEW w \in Vars, w # rest, Hits(w, fl) = {}
    PROVE  Renewed(old, <<w>> \o fl, rest)
<1>1. PICK new \in Seq(Vars) : /\ fl = new \o old
                               /\ \A k \in DOMAIN new : new[k] # rest /\ Hits(new[k], old) = {}
  BY DEF Renewed
<1> DEFINE more == <<w>> \o new
<1>2. /\ more \in Seq(Vars) /\ more[1] = w
      /\ \A i \in DOMAIN more : i = 1 \/ (i - 1 \in DOMAIN new /\ more[i] = new[i - 1])
  BY InFront
<1>3. <<w>> \o fl = more \o old
  BY <1>1
<1> HIDE DEF more
<1>4. Hits(w, old) = {}
  BY RenewedIs
<1>5. ASSUME NEW k \in DOMAIN more PROVE more[k] # rest /\ Hits(more[k], old) = {}
  <2>1. CASE k = 1
    BY <1>2, <1>4, <2>1
  <2>2. CASE k # 1
    BY <1>1, <1>2, <2>2
  <2> QED BY <2>1, <2>2
<1> QED BY <1>2, <1>3, <1>5 DEF Renewed

(* What a frame says after the step. *)
Later(f, fl, v) ==
    Matches(v, fl, frames'[f].rest, frames'[f].al, cells', scope'[f][v])

LEMMA LaterHalf ==
    ASSUME \A i \in DOMAIN calls' : calls'[i] \in Valuing /\ calls'[i].env \notin spoilt' =>
              LET d == calls'[i] IN
              /\ scope'[d.env][d.var] = [is |-> "bound", value |-> d.val]
              /\ \E fl \in Seq(Vars) :
                    /\ frames'[d.env].fl = <<d.var>> \o fl
                    /\ \A v \in Vars \ {d.var} : Later(d.env, fl, v)
    PROVE  HalfStep'
BY DEF HalfStep, Agrees, Later

LEMMA LaterInStep ==
    ASSUME \A f \in Made', v \in Vars :
              f \notin spoilt' /\ f \notin Half(calls') => Later(f, frames'[f].fl, v)
    PROVE  InStep'
BY DEF InStep, Agrees, Later

LEMMA StoresFormalsSafely ==
    ASSUME IInv, StoreFormals
    PROVE  IInv'
<1> DEFINE n == Len(calls)
           d == calls[n]
           env == d.env
           fl == frames[env].fl
           rest == frames[env].rest
           gl == <<d.var>> \o d.list
           c == [d EXCEPT !.at = "actuals", !.gc = FALSE, !.list = frames[env].al]
<1>0. Typing /\ calls \in Seq(Call)
  BY DEF IInv, Typing
<1>1. ~Evaluating
  BY DEF StoreFormals, Allocates, Evaluating, AfterGc
<1>2. n \in DOMAIN calls /\ n \in Nat /\ DOMAIN calls = 1..n /\ Innermost = d
  BY <1>0, <1>1, InnermostIs
<1>3. d \in Naming /\ d \in Defining
  BY <1>0, <1>2, Kinds DEF StoreFormals, Allocates, Defining
<1>4. /\ frames' = [frames EXCEPT ![env].fl = gl]
      /\ spoilt' = IF fl = d.list THEN spoilt ELSE spoilt \cup {env}
      /\ scope' = [scope EXCEPT ![env] = Extended(@, fl)]
      /\ Continue(c) /\ UNCHANGED cells
  BY <1>2 DEF StoreFormals
<1>5. /\ env \in Made /\ d.var \in Vars /\ d.val \in Values /\ d.list \in Seq(Vars)
      /\ fl \in Seq(Vars) /\ frames[env].al \in Seq(Nat) /\ frames[env] \in Frame
      /\ scope[env] \in [Vars -> Meaning] /\ DOMAIN frames = Made /\ DOMAIN scope = Made
  BY <1>0, <1>2, <1>3, Typed
<1>6. Renewed(d.list, fl, rest) /\ Hits(d.var, d.list) = {} /\ d.var # rest
  BY <1>2, <1>3 DEF IInv, NamesNew
<1>7. gl \in Seq(Vars) /\ gl # <<>>
  BY <1>5, InFront
<1>8. /\ c \in Valuing /\ c \in Defining /\ c \in Call /\ c \notin Naming
      /\ c.env = env /\ c.var = d.var /\ c.val = d.val /\ c.list = frames[env].al
  <2>1. /\ c \in Valuing /\ c.env = env /\ c.var = d.var /\ c.val = d.val
        /\ c.list = frames[env].al
    BY <1>3, <1>5 DEF Naming, Valuing
  <2> QED BY <2>1, Kinds DEF Defining, Call
<1> HIDE DEF c, gl, d
<1>9. /\ calls' \in Seq(Call) /\ DOMAIN calls' = DOMAIN calls /\ calls'[n] = c
      /\ \A i \in DOMAIN calls : i # n => calls'[i] = calls[i]
  BY <1>0, <1>1, <1>4, <1>8, GoesOn
<1> HIDE DEF n, env, fl, rest
<1>10. /\ frames' \in Seq(Frame) /\ DOMAIN frames' = Made /\ Made' = Made
       /\ frames'[env].fl = gl
       /\ \A f \in Made : f # env => frames'[f] = frames[f]
       /\ \A f \in Made : /\ frames'[f].rest = frames[f].rest /\ frames'[f].al = frames[f].al
                          /\ frames'[f].up = frames[f].up
  <2> DEFINE r == [frames[env] EXCEPT !.fl = gl]
  <2>1. r \in Frame /\ r.fl = gl /\ r.rest = frames[env].rest /\ r.al = frames[env].al
        /\ r.up = frames[env].up
    BY <1>5, <1>7 DEF Frame, env
  <2>2. frames' = [frames EXCEPT ![env] = r]
    BY <1>4 DEF env
  <2> HIDE DEF r
  <2>3. frames \in Seq(Frame) /\ env \in DOMAIN frames
    BY <1>0, <1>5 DEF Typing
  <2>4. /\ frames' \in Seq(Frame) /\ DOMAIN frames' = DOMAIN frames /\ Len(frames') = Len(frames)
        /\ frames'[env] = r /\ \A f \in DOMAIN frames : f # env => frames'[f] = frames[f]
    BY <2>1, <2>2, <2>3
  <2>5. Made' = Made
    BY <2>4 DEF Made
  <2> QED BY <1>5, <2>1, <2>4, <2>5
<1>11. /\ scope' \in Seq([Vars -> Meaning]) /\ Len(scope') = Len(scope)
       /\ \A f \in Made : f # env => scope'[f] = scope[f]
       /\ scope'[env][d.var] = [is |-> "bound", value |-> d.val]
       /\ \A v \in Vars : v # d.var =>
             IF \E i \in 1..(Len(fl) - Len(d.list)) : fl[i] = v
             THEN scope'[env][v] = [is |-> "none"] ELSE scope'[env][v] = scope[env][v]
  <2> DEFINE s == Extended(scope[env], fl)
  <2>1. s = [v \in Vars |->
               IF v = d.var THEN [is |-> "bound", value |-> d.val]
               ELSE IF \E i \in 1..(Len(fl) - Len(d.list)) : fl[i] = v
               THEN [is |-> "none"] ELSE scope[env][v]]
    BY <1>2 DEF Extended
  <2> HIDE DEF s
  <2>2. [is |-> "bound", value |-> d.val] \in Meaning /\ [is |-> "none"] \in Meaning
    BY <1>5 DEF Meaning
  <2>3. s \in [Vars -> Meaning]
    BY <1>5, <2>1, <2>2
  <2>4. scope' = [scope EXCEPT ![env] = s] /\ scope \in Seq([Vars -> Meaning]) /\ env \in DOMAIN scope
    BY <1>0, <1>4, <1>5 DEF Typing, s
  <2>5. /\ scope' \in Seq([Vars -> Meaning]) /\ Len(scope') = Len(scope)
        /\ scope'[env] = s /\ \A f \in DOMAIN scope : f # env => scope'[f] = scope[f]
    BY <2>3, <2>4
  <2> QED BY <1>5, <2>1, <2>5
<1>12. \A f \in Made, v \in Vars : scope[f][v].is = "error" => f # env
  BY <1>2, <1>3 DEF IInv, Lacking, env, d
<1>13. spoilt \subseteq spoilt' /\ spoilt' \subseteq spoilt \cup {env}
  BY <1>4
<1>14. ASSUME NEW i \in DOMAIN calls'
       PROVE  /\ i \in DOMAIN calls
              /\ i # n => calls'[i] = calls[i]
              /\ calls'[i] \in Defining => calls[i] \in Defining /\ calls'[i].env = calls[i].env
              /\ calls'[i] \in Naming => i # n
  BY <1>3, <1>8, <1>9 DEF d, env
<1>15. ASSUME NEW f \in Made, f # env, NEW hl, NEW v, Agrees(f, hl, v)
       PROVE  Later(f, hl, v)
  BY <1>4, <1>10, <1>11, <1>15 DEF Agrees, Later
<1>16. Typing'
  <2>1. \A i \in DOMAIN calls' : calls'[i] \in Defining => calls'[i].env \in Made
    BY <1>0, <1>14 DEF Typing
  <2>2. Len(scope') = Len(frames')
    BY <1>0, <1>10, <1>11 DEF Typing, Made
  <2>3. spoilt' \subseteq Made
    BY <1>0, <1>5, <1>13 DEF Typing
  <2>4. cells' \in Seq(Values)
    BY <1>0, <1>4 DEF Typing
  <2>5. \A f \in Made : frames'[f].up < f
    BY <1>0, <1>10 DEF Typing
  <2> QED BY <1>9, <1>10, <1>11, <2>1, <2>2, <2>3, <2>4, <2>5 DEF Typing
<1>17. Owned'
  <2>1. PICK owner \in [DOMAIN cells -> Made] :
           /\ \A f \in Made : Owns(f, frames[f].al, owner)
           /\ \A i \in DOMAIN calls :
                  calls[i] \in Valuing => Owns(calls[i].env, calls[i].list, owner)
    BY DEF IInv, Owned
  <2>2. \A i \in DOMAIN calls' :
           calls'[i] \in Valuing => Owns(calls'[i].env, calls'[i].list, owner)
    BY <1>5, <1>8, <1>9, <1>14, <2>1 DEF env
  <2>3. \A f \in Made : Owns(f, frames'[f].al, owner)
    BY <1>10, <2>1
  <2> QED BY <1>4, <1>10, <2>2, <2>3 DEF Owned
<1>18. Named'
  <2> SUFFICES ASSUME NEW f \in Made, NEW v \in Vars
               PROVE  scope'[f][v].is \in Binding(v, frames'[f].fl, frames'[f].rest)
    BY <1>10 DEF Named
  <2>1. scope[f][v].is \in Binding(v, frames[f].fl, frames[f].rest)
    BY DEF IInv, Named
  <2>2. CASE f # env
    BY <1>10, <1>11, <2>1, <2>2
  <2>3. CASE f = env
    <3>1. frames'[f].fl = gl /\ frames'[f].rest = rest /\ frames[f].fl = fl /\ frames[f].rest = rest
      BY <1>10, <2>3 DEF fl, rest
    <3>2. /\ v = d.var => Hits(v, gl) # {}
          /\ v # d.var => (Hits(v, gl) = {} <=> Hits(v, d.list) = {})
      BY <1>5, PlaceInFront DEF gl
    <3>3. CASE v = d.var
      <4>1. scope'[f][v].is = "bound"
        BY <1>11, <2>3, <3>3
      <4> QED BY <3>1, <3>2, <3>3, <4>1 DEF Binding
    <3>4. CASE v # d.var /\ \E i \in 1..(Len(fl) - Len(d.list)) : fl[i] = v
      <4>1. scope'[f][v] = [is |-> "none"]
        BY <1>11, <2>3, <3>4
      <4>2. Hits(v, d.list) = {} /\ v # rest
        <5>1. PICK k \in 1..(Len(fl) - Len(d.list)) : fl[k] = v
          BY <3>4
        <5>2. fl[k] # rest /\ Hits(fl[k], d.list) = {}
          BY <1>5, <1>6, RenewedIs
        <5> QED BY <5>1, <5>2
      <4> QED BY <3>1, <3>2, <3>4, <4>1, <4>2 DEF Binding
    <3>5. CASE v # d.var /\ ~\E i \in 1..(Len(fl) - Len(d.list)) : fl[i] = v
      <4>1. scope'[f][v] = scope[f][v]
        BY <1>11, <2>3, <3>5
      <4>2. Hits(v, gl) = {} <=> Hits(v, fl) = {}
        BY <1>5, <1>6, <3>2, <3>5, RenewedIs
      <4> QED BY <2>1, <3>1, <4>1, <4>2 DEF Binding
    <3> QED BY <3>3, <3>4, <3>5
  <2> QED BY <2>2, <2>3
<1>19. Lacking'
  <2> SUFFICES ASSUME NEW f \in Made, NEW v \in Vars, scope'[f][v].is = "error"
               PROVE  /\ f \notin spoilt'
                      /\ \A i \in DOMAIN calls' : calls'[i] \in Defining => calls'[i].env # f
    BY <1>10 DEF Lacking
  <2>1. f # env
    <3> SUFFICES ASSUME f = env PROVE FALSE
      OBVIOUS
    <3>1. \/ scope'[f][v] = [is |-> "bound", value |-> d.val]
          \/ scope'[f][v] = [is |-> "none"]
          \/ scope'[f][v] = scope[f][v]
      BY <1>11
    <3>2. scope[f][v].is # "error"
      BY <1>12
    <3> QED BY <3>1, <3>2
  <2>2. scope[f][v].is = "error"
    BY <1>11, <2>1
  <2>3. /\ f \notin spoilt
        /\ \A i \in DOMAIN calls : calls[i] \in Defining => calls[i].env # f
    BY <2>2 DEF IInv, Lacking
  <2> QED BY <1>13, <1>14, <2>1, <2>3
<1>20. ASSUME NEW i \in DOMAIN calls, i # n, calls[i] \in Defining, calls[i].env = env
       PROVE  /\ calls[i] \in Valuing => env \in spoilt
              /\ calls[i] \in Naming => Renewed(calls[i].list, d.list, rest)
  <2>1. i < n
    BY <1>2, <1>20
  <2> QED BY <1>2, <1>3, <1>20, <2>1 DEF IInv, Nested, env, d, rest
<1>21. NamesNew'
  <2> SUFFICES ASSUME NEW i \in DOMAIN calls', calls'[i] \in Naming
               PROVE  LET e == calls'[i] IN
                      /\ Renewed(e.list, frames'[e.env].fl, frames'[e.env].rest)
                      /\ Hits(e.var, e.list) = {} /\ e.var # frames'[e.env].rest
    BY DEF NamesNew
  <2>1. i \in DOMAIN calls /\ i # n /\ calls'[i] = calls[i] /\ calls[i] \in Naming
    BY <1>14
  <2>2. PICK e \in Naming : e = calls[i]
    BY <2>1
  <2>3. /\ Renewed(e.list, frames[e.env].fl, frames[e.env].rest)
        /\ Hits(e.var, e.list) = {} /\ e.var # frames[e.env].rest
        /\ e \in Defining /\ e.env \in Made /\ e.list \in Seq(Vars)
    BY <1>0, <2>1, <2>2, Typed DEF IInv, NamesNew, Defining
  <2>4. CASE e.env # env
    BY <1>10, <2>1, <2>2, <2>3, <2>4
  <2>5. CASE e.env = env
    <3>1. Renewed(e.list, d.list, rest)
      BY <1>20, <2>1, <2>2, <2>3, <2>5
    <3>2. Renewed(e.list, gl, rest)
      BY <1>5, <1>6, <2>3, <3>1, RenewedInFront DEF gl
    <3> QED BY <1>10, <2>1, <2>2, <2>3, <2>5, <3>2 DEF rest
  <2> QED BY <2>4, <2>5
<1>22. Nested'
  <2> SUFFICES ASSUME NEW i \in DOMAIN calls', NEW j \in DOMAIN calls', i < j,
                      calls'[i] \in Defining, calls'[j] \in Defining,
                      calls'[i].env = calls'[j].env
               PROVE  /\ calls'[i] \in Valuing => calls'[i].env \in spoilt'
                      /\ calls'[i] \in Naming /\ calls'[j] \in Naming =>
                            Renewed(calls'[i].list, calls'[j].list, frames'[calls'[i].env].rest)
    BY DEF Nested
  <2>1. i \in DOMAIN calls /\ i # n /\ calls'[i] = calls[i]
    BY <1>2, <1>9, <1>14
  <2>2. CASE j = n
    <3>1. calls[i].env = env
      BY <1>8, <1>9, <2>1, <2>2
    <3> QED BY <1>8, <1>9, <1>13, <1>20, <2>1, <2>2, <3>1
  <2>3. CASE j # n
    <3>1. j \in DOMAIN calls /\ calls'[j] = calls[j]
      BY <1>14, <2>3
    <3>2. calls[i].env \in Made
      BY <1>0, <2>1 DEF Typing
    <3> QED BY <1>10, <1>13, <2>1, <3>1, <3>2 DEF IInv, Nested
  <2> QED BY <2>2, <2>3
<1>23. env \in Half(calls')
  BY <1>2, <1>8, <1>9, HalfIs
<1>24. InStep'
  <2> SUFFICES ASSUME NEW f \in Made, f \notin spoilt', f \notin Half(calls'), NEW v \in Vars
               PROVE  Later(f, frames'[f].fl, v)
    BY <1>10, LaterInStep
  <2>1. f # env
    BY <1>23
  <2>2. f \notin Half(calls)
    <3> SUFFICES ASSUME f \in Half(calls) PROVE FALSE
      OBVIOUS
    <3>1. PICK i \in DOMAIN calls : calls[i] \in Valuing /\ calls[i].env = f
      BY <1>0, HalfIs
    <3>2. i # n
      BY <1>3, <3>1, Kinds DEF d
    <3> QED BY <1>9, <3>1, <3>2, HalfIs
  <2>3. Agrees(f, frames[f].fl, v)
    BY <1>13, <2>2 DEF IInv, InStep
  <2>4. Later(f, frames[f].fl, v)
    BY <1>15, <2>1, <2>3
  <2> QED BY <1>10, <2>1, <2>4
<1>25. HalfStep'
  <2> SUFFICES ASSUME NEW i \in DOMAIN calls', calls'[i] \in Valuing, calls'[i].env \notin spoilt'
               PROVE  LET e == calls'[i] IN
                      /\ scope'[e.env][e.var] = [is |-> "bound", value |-> e.val]
                      /\ \E hl \in Seq(Vars) :
                            /\ frames'[e.env].fl = <<e.var>> \o hl
                            /\ \A v \in Vars \ {e.var} : Later(e.env, hl, v)
    BY LaterHalf
  <2>1. CASE i = n
    <3>1. fl = d.list /\ env \notin spoilt
      BY <1>4, <1>8, <1>9, <2>1
    <3>2. env \notin Half(calls)
      <4> SUFFICES ASSUME env \in Half(calls) PROVE FALSE
        OBVIOUS
      <4>1. PICK k \in DOMAIN calls : calls[k] \in Valuing /\ calls[k].env = env
        BY <1>0, HalfIs
      <4>2. k # n
        BY <1>3, <4>1, Kinds DEF d
      <4> QED BY <1>20, <3>1, <4>1, <4>2 DEF Defining
    <3>3. \A v \in Vars : Agrees(env, fl, v)
      BY <1>5, <3>1, <3>2 DEF IInv, InStep, fl, env
    <3>4. ~\E k \in 1..(Len(fl) - Len(d.list)) : TRUE
      BY <1>5, <3>1
    <3>5. \A v \in Vars \ {d.var} : scope'[env][v] = scope[env][v]
      BY <1>11, <3>4
    <3>6. \A v \in Vars \ {d.var} : Later(env, fl, v)
      <4>1. frames'[env].rest = frames[env].rest /\ frames'[env].al = frames[env].al
            /\ cells' = cells
        BY <1>4, <1>5, <1>10
      <4> QED BY <3>3, <3>5, <4>1 DEF Agrees, Later
    <3>7. PICK hl \in Seq(Vars) : hl = fl
      BY <1>5
    <3>8. \A v \in Vars \ {d.var} : Later(env, hl, v)
      BY <3>6, <3>7
    <3>9. frames'[env].fl = <<d.var>> \o hl
      BY <1>10, <3>1, <3>7 DEF gl
    <3>10. calls'[i].env = env /\ calls'[i].var = d.var /\ calls'[i].val = d.val
      BY <1>8, <1>9, <2>1
    <3> QED BY <1>11, <3>8, <3>9, <3>10
  <2>2. CASE i # n
    <3>1. i \in DOMAIN calls /\ calls'[i] = calls[i] /\ calls[i] \in Valuing
      BY <1>14, <2>2
    <3>2. PICK e, w : e = calls[i].env /\ w = calls[i].var
      OBVIOUS
    <3>3. e \in Made /\ w \in Vars /\ e \notin spoilt
      BY <1>0, <1>13, <3>1, <3>2, Typed DEF Defining
    <3>4. e # env
      BY <1>20, <2>2, <3>1, <3>2, <3>3 DEF Defining
    <3>5. PICK hl \in Seq(Vars) :
             /\ frames[e].fl = <<w>> \o hl
             /\ \A v \in Vars \ {w} : Agrees(e, hl, v)
             /\ scope[e][w] = [is |-> "bound", value |-> calls[i].val]
      BY <3>1, <3>2, <3>3 DEF IInv, HalfStep
    <3>6. \A v \in Vars \ {w} : Later(e, hl, v)
      BY <1>15, <3>3, <3>4, <3>5
    <3>7. frames'[e].fl = <<w>> \o hl /\ scope'[e][w] = [is |-> "bound", value |-> calls[i].val]
      BY <1>10, <1>11, <3>3, <3>4, <3>5
    <3> QED BY <3>1, <3>2, <3>6, <3>7
  <2> QED BY <2>1, <2>2
<1> QED BY <1>16, <1>17, <1>18, <1>19, <1>21, <1>22, <1>24, <1>25 DEF IInv

-----------------------------------------------------------------------------
(* The second store of a define, to the actuals. *)

LEMMA StoresActualsSafely ==
    ASSUME IInv, StoreActuals
    PROVE  IInv'
<1> DEFINE n == Len(calls)
           d == calls[n]
           env == d.env
           new == Len(cells) + 1
           bl == <<new>> \o d.list
           al == frames[env].al
<1>0. Typing /\ calls \in Seq(Call) /\ cells \in Seq(Values)
  BY DEF IInv, Typing
<1>1. ~Evaluating
  BY DEF StoreActuals, Allocates, Evaluating, AfterGc
<1>2. n \in DOMAIN calls /\ n \in Nat /\ DOMAIN calls = 1..n /\ Innermost = d /\ calls # <<>>
  BY <1>0, <1>1, InnermostIs
<1>3. d \in Valuing /\ d \in Defining
  BY <1>0, <1>2, Kinds DEF StoreActuals, Allocates, Defining
<1>4. /\ env \in Made /\ d.var \in Vars /\ d.val \in Values /\ d.list \in Seq(Nat)
      /\ frames[env].fl \in Seq(Vars) /\ al \in Seq(Nat) /\ frames[env] \in Frame
      /\ DOMAIN frames = Made
  BY <1>0, <1>2, <1>3, Typed
<1>5. /\ cells' = Append(cells, d.val)
      /\ frames' = [frames EXCEPT ![env].al = <<Len(cells')>> \o d.list]
      /\ spoilt' = IF al = d.list THEN spoilt ELSE spoilt \cup {env}
      /\ calls' = Outer /\ UNCHANGED scope
  BY <1>2 DEF StoreActuals, Finish
<1>6. /\ cells' \in Seq(Values) /\ Len(cells') = new /\ new \in Nat
      /\ DOMAIN cells = 1..Len(cells) /\ DOMAIN cells' = 1..new
      /\ cells'[new] = d.val /\ new \notin DOMAIN cells /\ new \in DOMAIN cells'
      /\ \A c \in DOMAIN cells' : c = new \/ c \in DOMAIN cells
      /\ \A k \in DOMAIN cells : k \in DOMAIN cells' /\ cells'[k] = cells[k]
  BY <1>0, <1>4, <1>5, AppendProperties
<1>7. bl \in Seq(Nat)
  BY <1>4, <1>6, InFront
<1>8. frames' = [frames EXCEPT ![env].al = bl]
  BY <1>5, <1>6
<1>9. /\ Outer \in Seq(Call) /\ Len(Outer) = n - 1
      /\ \A i \in 1..(n - 1) : Outer[i] = calls[i]
  BY <1>0, <1>2, OuterIs
<1> HIDE DEF n, d, env, new, bl, al
<1>10. /\ calls' \in Seq(Call)
       /\ \A i \in DOMAIN calls' : i \in DOMAIN calls /\ i # n /\ calls'[i] = calls[i]
       /\ \A i \in DOMAIN calls : i # n => i \in DOMAIN calls' /\ calls'[i] = calls[i]
  BY <1>2, <1>5, <1>9
<1>11. /\ frames' \in Seq(Frame) /\ Made' = Made
       /\ frames'[env].al = bl
       /\ \A f \in Made : f # env => frames'[f] = frames[f]
       /\ \A f \in Made : /\ frames'[f].rest = frames[f].rest /\ frames'[f].fl = frames[f].fl
                          /\ frames'[f].up = frames[f].up
       /\ Len(frames') = Len(frames)
  <2> DEFINE r == [frames[env] EXCEPT !.al = bl]
  <2>1. r \in Frame /\ r.al = bl /\ r.rest = frames[env].rest /\ r.fl = frames[env].fl
        /\ r.up = frames[env].up
    BY <1>4, <1>7 DEF Frame, env
  <2>2. frames' = [frames EXCEPT ![env] = r]
    BY <1>8
  <2> HIDE DEF r
  <2>3. frames \in Seq(Frame) /\ env \in DOMAIN frames
    BY <1>0, <1>4 DEF Typing
  <2>4. /\ frames' \in Seq(Frame) /\ DOMAIN frames' = DOMAIN frames /\ Len(frames') = Len(frames)
        /\ frames'[env] = r /\ \A f \in DOMAIN frames : f # env => frames'[f] = frames[f]
    BY <2>1, <2>2, <2>3
  <2>5. Made' = Made
    BY <2>4 DEF Made
  <2> QED BY <1>4, <2>1, <2>4, <2>5
<1>12. spoilt \subseteq spoilt' /\ spoilt' \subseteq spoilt \cup {env}
  BY <1>5
<1>13. PICK owner \in [DOMAIN cells -> Made] :
          /\ \A f \in Made : Owns(f, frames[f].al, owner)
          /\ \A i \in DOMAIN calls :
                 calls[i] \in Valuing => Owns(calls[i].env, calls[i].list, owner)
  BY DEF IInv, Owned
<1>14. \A f \in Made : \A k \in DOMAIN frames[f].al :
          frames[f].al[k] \in DOMAIN cells /\ cells'[frames[f].al[k]] = cells[frames[f].al[k]]
  BY <1>6, <1>13 DEF Owns
<1>15. ASSUME NEW f \in Made, f # env, NEW hl \in Seq(Vars), NEW v, Agrees(f, hl, v)
       PROVE  Later(f, hl, v)
  <2>1. frames[f].al \in Seq(Nat) /\ frames'[f] = frames[f] /\ scope' = scope
    BY <1>0, <1>5, <1>11, <1>15, Typed
  <2>2. Matches(v, hl, frames[f].rest, frames[f].al, cells, scope[f][v])
    BY <1>15 DEF Agrees
  <2>3. Matches(v, hl, frames[f].rest, frames[f].al, cells', scope[f][v])
    BY SMTT(30), <1>14, <2>1, <2>2, MatchesKept
  <2> QED BY <2>1, <2>3 DEF Later
<1>16. ASSUME NEW i \in DOMAIN calls, i # n, calls[i] \in Valuing, calls[i].env = env
       PROVE  env \in spoilt
  <2>1. i < n
    BY <1>2, <1>16
  <2> QED BY <1>2, <1>3, <1>16, <2>1 DEF IInv, Nested, Defining, env, d
<1>17. Typing'
  <2>1. \A f \in Made : frames'[f].up < f
    BY <1>0, <1>11 DEF Typing
  <2>2. spoilt' \subseteq Made
    BY <1>0, <1>4, <1>12 DEF Typing
  <2>3. \A i \in DOMAIN calls' : calls'[i] \in Defining => calls'[i].env \in Made
    BY <1>0, <1>10 DEF Typing
  <2>4. scope' \in Seq([Vars -> Meaning]) /\ Len(scope') = Len(frames')
    BY <1>0, <1>5, <1>11 DEF Typing
  <2> QED BY <1>6, <1>10, <1>11, <2>1, <2>2, <2>3, <2>4 DEF Typing
<1>18. Owned'
  <2> DEFINE more == [c \in DOMAIN cells' |-> IF c = new THEN env ELSE owner[c]]
  <2>1. /\ more \in [DOMAIN cells' -> Made] /\ more[new] = env
        /\ \A c \in DOMAIN cells : c # new /\ c \in DOMAIN more /\ more[c] = owner[c]
        /\ new \in DOMAIN more /\ DOMAIN owner = DOMAIN cells
    <3>1. \A c \in DOMAIN cells : c # new /\ c \in DOMAIN cells'
      BY <1>6
    <3> QED BY <1>4, <1>6, <3>1
  <2> HIDE DEF more
  <2>2. \A f, l : Owns(f, l, owner) => Owns(f, l, more)
    BY <2>1 DEF Owns
  <2>3. Owns(env, d.list, owner)
    BY <1>2, <1>3, <1>13 DEF env, d
  <2>4. Owns(env, bl, more)
    <3>1. /\ bl[1] = new /\ Len(d.list) \in Nat
          /\ \A i \in DOMAIN bl : i = 1 \/ (i - 1 \in DOMAIN d.list /\ bl[i] = d.list[i - 1])
      BY <1>4, <1>6, InFront DEF bl
    <3>2. \A i \in DOMAIN d.list : d.list[i] \in DOMAIN cells /\ owner[d.list[i]] = env
                                   /\ \A j \in DOMAIN d.list : d.list[i] = d.list[j] => i = j
      BY <2>1, <2>3 DEF Owns
    <3>3. \A i \in DOMAIN bl : bl[i] \in DOMAIN more /\ more[bl[i]] = env
      BY <2>1, <3>1, <3>2
    <3>4. ASSUME NEW i \in DOMAIN bl, NEW j \in DOMAIN bl, bl[i] = bl[j] PROVE i = j
      <4>0. i \in Nat /\ j \in Nat
        BY <1>7
      <4>1. CASE i = 1 /\ j = 1
        BY <4>1
      <4>2. CASE i = 1 /\ j # 1
        BY <2>1, <3>1, <3>2, <3>4, <4>2
      <4>3. CASE i # 1 /\ j = 1
        BY <2>1, <3>1, <3>2, <3>4, <4>3
      <4>4. CASE i # 1 /\ j # 1
        <5>1. i - 1 \in DOMAIN d.list /\ j - 1 \in DOMAIN d.list /\ d.list[i - 1] = d.list[j - 1]
          BY <3>1, <3>4, <4>4
        <5>2. i - 1 = j - 1
          BY <3>2, <5>1
        <5> QED BY <4>0, <5>2
      <4> QED BY <4>1, <4>2, <4>3, <4>4
    <3> QED BY <3>3, <3>4 DEF Owns
  <2>5. \A f \in Made : Owns(f, frames'[f].al, more)
    BY <1>11, <1>13, <2>2, <2>4
  <2>6. \A i \in DOMAIN calls' : calls'[i] \in Valuing => Owns(calls'[i].env, calls'[i].list, more)
    BY <1>10, <1>13, <2>2
  <2> QED BY <1>11, <2>1, <2>5, <2>6 DEF Owned
<1>19. Named'
  BY <1>5, <1>11 DEF IInv, Named
<1>20. Lacking'
  <2> SUFFICES ASSUME NEW f \in Made, NEW v \in Vars, scope[f][v].is = "error"
               PROVE  /\ f \notin spoilt'
                      /\ \A i \in DOMAIN calls' : calls'[i] \in Defining => calls'[i].env # f
    BY <1>5, <1>11 DEF Lacking
  <2>1. /\ f \notin spoilt
        /\ \A i \in DOMAIN calls : calls[i] \in Defining => calls[i].env # f
    BY DEF IInv, Lacking
  <2>2. f # env
    BY <1>2, <1>3, <2>1 DEF env, d
  <2> QED BY <1>10, <1>12, <2>1, <2>2
<1>21. NamesNew'
  <2> SUFFICES ASSUME NEW i \in DOMAIN calls', calls'[i] \in Naming
               PROVE  LET e == calls'[i] IN
                      /\ Renewed(e.list, frames'[e.env].fl, frames'[e.env].rest)
                      /\ Hits(e.var, e.list) = {} /\ e.var # frames'[e.env].rest
    BY DEF NamesNew
  <2>1. i \in DOMAIN calls /\ calls'[i] = calls[i] /\ calls[i].env \in Made
    BY <1>0, <1>10 DEF Typing, Defining
  <2>2. PICK e : e = calls[i]
    OBVIOUS
  <2>3. /\ Renewed(e.list, frames[e.env].fl, frames[e.env].rest)
        /\ Hits(e.var, e.list) = {} /\ e.var # frames[e.env].rest
    BY <2>1, <2>2 DEF IInv, NamesNew
  <2>4. frames'[e.env].fl = frames[e.env].fl /\ frames'[e.env].rest = frames[e.env].rest
    BY <1>11, <2>1, <2>2
  <2> QED BY <2>1, <2>2, <2>3, <2>4
<1>22. Nested'
  <2> SUFFICES ASSUME NEW i \in DOMAIN calls', NEW j \in DOMAIN calls', i < j,
                      calls'[i] \in Defining, calls'[j] \in Defining,
                      calls'[i].env = calls'[j].env
               PROVE  /\ calls'[i] \in Valuing => calls'[i].env \in spoilt'
                      /\ calls'[i] \in Naming /\ calls'[j] \in Naming =>
                            Renewed(calls'[i].list, calls'[j].list, frames'[calls'[i].env].rest)
    BY DEF Nested
  <2>1. /\ i \in DOMAIN calls /\ calls'[i] = calls[i] /\ calls[i].env \in Made
        /\ j \in DOMAIN calls /\ calls'[j] = calls[j]
    BY <1>0, <1>10 DEF Typing
  <2> QED BY <1>11, <1>12, <2>1 DEF IInv, Nested
<1>23. InStep'
  <2> SUFFICES ASSUME NEW f \in Made, f \notin spoilt', f \notin Half(calls'), NEW v \in Vars
               PROVE  Later(f, frames'[f].fl, v)
    BY <1>11, LaterInStep
  <2>1. CASE f = env
    <3>1. al = d.list /\ env \notin spoilt
      BY <1>5, <2>1
    <3>2. PICK hl \in Seq(Vars) :
             /\ frames[env].fl = <<d.var>> \o hl
             /\ \A w \in Vars \ {d.var} : Agrees(env, hl, w)
             /\ scope[env][d.var] = [is |-> "bound", value |-> d.val]
      BY <1>2, <1>3, <3>1 DEF IInv, HalfStep, env, d
    <3> DEFINE gl == <<d.var>> \o hl
    <3>3. gl \in Seq(Vars) /\ Len(gl) = Len(hl) + 1
      BY <1>4, InFront
    <3>4. /\ v = d.var => Hits(v, gl) # {} /\ Place(v, gl) = 1
      BY <1>4, PlaceInFront
    <3>5. bl[1] = new /\ Len(bl) = Len(d.list) + 1 /\ Len(d.list) \in Nat
      BY <1>4, <1>6, InFront DEF bl
    <3>6. Matches(v, gl, frames[env].rest, bl, cells', scope[env][v])
      <4>1. CASE v = d.var
        <5>1. ~(1 > Len(bl))
          BY <3>5
        <5>2. scope[env][v].is = "bound" /\ scope[env][v].value = cells'[bl[1]]
          BY <1>6, <3>2, <3>5, <4>1
        <5> HIDE DEF gl
        <5> QED BY <3>4, <4>1, <5>1, <5>2 DEF Matches
      <4>2. CASE v # d.var
        <5>1. Matches(v, hl, frames[env].rest, al, cells, scope[env][v])
          BY <3>2, <4>2 DEF Agrees, al
        <5>2. \A k \in DOMAIN al : cells'[al[k]] = cells[al[k]]
          BY <1>4, <1>14 DEF al
        <5>3. Matches(v, hl, frames[env].rest, al, cells', scope[env][v])
          BY <1>4, <5>1, <5>2, MatchesKept
        <5>4. Matches(v, gl, frames[env].rest, <<new>> \o al, cells', scope[env][v])
          BY <1>4, <1>6, <4>2, <5>3, MatchesInFront
        <5> QED BY <3>1, <5>4 DEF bl
      <4> QED BY <4>1, <4>2
    <3>7. frames'[env].fl = gl
      BY <1>4, <1>11, <3>2
    <3> QED BY <1>4, <1>5, <1>11, <2>1, <3>6, <3>7 DEF Later
  <2>2. CASE f # env
    <3>1. f \notin Half(calls)
      <4> SUFFICES ASSUME f \in Half(calls) PROVE FALSE
        OBVIOUS
      <4>1. PICK i \in DOMAIN calls : calls[i] \in Valuing /\ calls[i].env = f
        BY <1>0, HalfIs
      <4>2. i # n
        BY <2>2, <4>1 DEF env, d
      <4> QED BY <1>10, <4>1, <4>2, HalfIs
    <3>2. Agrees(f, frames[f].fl, v) /\ frames[f].fl \in Seq(Vars)
      BY <1>0, <1>12, <3>1, Typed DEF IInv, InStep
    <3>3. Later(f, frames[f].fl, v)
      BY <1>15, <2>2, <3>2
    <3> QED BY <1>11, <3>3
  <2> QED BY <2>1, <2>2
<1>24. HalfStep'
  <2> SUFFICES ASSUME NEW i \in DOMAIN calls', calls'[i] \in Valuing, calls'[i].env \notin spoilt'
               PROVE  LET e == calls'[i] IN
                      /\ scope'[e.env][e.var] = [is |-> "bound", value |-> e.val]
                      /\ \E hl \in Seq(Vars) :
                            /\ frames'[e.env].fl = <<e.var>> \o hl
                            /\ \A v \in Vars \ {e.var} : Later(e.env, hl, v)
    BY LaterHalf
  <2>1. i \in DOMAIN calls /\ i # n /\ calls'[i] = calls[i] /\ calls[i] \in Valuing
    BY <1>10
  <2>2. PICK e, w : e = calls[i].env /\ w = calls[i].var
    OBVIOUS
  <2>3. e \in Made /\ w \in Vars /\ e \notin spoilt
    BY <1>0, <1>12, <2>1, <2>2, Typed DEF Defining
  <2>4. e # env
    BY <1>16, <2>1, <2>2, <2>3
  <2>5. PICK hl \in Seq(Vars) :
           /\ frames[e].fl = <<w>> \o hl
           /\ \A v \in Vars \ {w} : Agrees(e, hl, v)
           /\ scope[e][w] = [is |-> "bound", value |-> calls[i].val]
    BY <2>1, <2>2, <2>3 DEF IInv, HalfStep
  <2>6. \A v \in Vars \ {w} : Later(e, hl, v)
    BY <1>15, <2>3, <2>4, <2>5
  <2>7. frames'[e].fl = <<w>> \o hl /\ scope'[e][w] = [is |-> "bound", value |-> calls[i].val]
    BY <1>5, <1>11, <2>3, <2>5
  <2> QED BY <2>1, <2>2, <2>6, <2>7
<1> QED BY <1>17, <1>18, <1>19, <1>20, <1>21, <1>22, <1>23, <1>24 DEF IInv

-----------------------------------------------------------------------------
(* A new frame. *)

LEMMA MeantIs ==
    ASSUME NEW formals \in Formals, NEW actuals \in Seq(Values), NEW v \in Vars
    PROVE  /\ formals.fl \in Seq(Vars) /\ formals.rest \in Vars \cup {None}
           /\ Meant(formals, actuals) \in [Vars -> Meaning]
           /\ Meant(formals, actuals)[v] =
                 IF Place(v, formals.fl) > Len(actuals) THEN [is |-> "error"]
                 ELSE IF Hits(v, formals.fl) # {}
                      THEN [is |-> "bound", value |-> actuals[Place(v, formals.fl)]]
                 ELSE IF formals.rest = v
                      THEN [is |-> "rest", value |-> After(actuals, Place(v, formals.fl))]
                 ELSE [is |-> "none"]
<1>1. formals.fl \in Seq(Vars) /\ formals.rest \in Vars \cup {None}
  BY FormalsAssumption
<1> DEFINE M(w) == IF Place(w, formals.fl) > Len(actuals) THEN [is |-> "error"]
                   ELSE IF Hits(w, formals.fl) # {}
                        THEN [is |-> "bound", value |-> actuals[Place(w, formals.fl)]]
                   ELSE IF formals.rest = w
                        THEN [is |-> "rest", value |-> After(actuals, Place(w, formals.fl))]
                   ELSE [is |-> "none"]
<1>2. Meant(formals, actuals) = [w \in Vars |-> M(w)]
  BY DEF Meant, Place, Hits
<1>3. ASSUME NEW w \in Vars PROVE M(w) \in Meaning
  <2> DEFINE p == Place(w, formals.fl)
  <2>1. p \in Nat /\ Len(actuals) \in Nat /\ DOMAIN actuals = 1..Len(actuals)
        /\ (Hits(w, formals.fl) # {} => p \in DOMAIN formals.fl /\ p # 0)
    <3>1. p \in 0..Len(formals.fl) /\ Len(formals.fl) \in Nat
          /\ DOMAIN formals.fl = 1..Len(formals.fl)
          /\ (Hits(w, formals.fl) # {} => p \in DOMAIN formals.fl)
      BY <1>1, PlaceIs
    <3> HIDE DEF p
    <3> QED BY <3>1
  <2> HIDE DEF p
  <2>2. CASE p > Len(actuals)
    BY <2>2 DEF p, Meaning
  <2>3. CASE ~(p > Len(actuals)) /\ Hits(w, formals.fl) # {}
    <3>1. actuals[p] \in Values
      BY <2>1, <2>3
    <3> QED BY <2>3, <3>1 DEF p, Meaning
  <2>4. CASE ~(p > Len(actuals)) /\ Hits(w, formals.fl) = {}
    <3>1. p \in 0..Len(actuals)
      BY <2>1, <2>4
    <3>2. After(actuals, p) \in Seq(Values)
      BY <3>1, AfterIs
    <3> QED BY <2>4, <3>2 DEF p, Meaning
  <2> QED BY <2>2, <2>3, <2>4
<1> HIDE DEF M
<1>4. Meant(formals, actuals) \in [Vars -> Meaning] /\ Meant(formals, actuals)[v] = M(v)
  BY <1>2, <1>3
<1> QED BY <1>1, <1>4 DEF M

(* What the program means by the variables of a call is what the frame     *)
(* made for it says.                                                       *)
LEMMA MeantMatches ==
    ASSUME NEW formals \in Formals, NEW actuals \in Seq(Values), NEW v \in Vars,
           NEW n \in Nat, NEW vals,
           \A k \in DOMAIN actuals : vals[n + k] = actuals[k]
    PROVE  /\ Matches(v, formals.fl, formals.rest, [k \in DOMAIN actuals |-> n + k],
                      vals, Meant(formals, actuals)[v])
           /\ Meant(formals, actuals)[v].is \in Binding(v, formals.fl, formals.rest)
<1> DEFINE p == Place(v, formals.fl)
           al == [k \in DOMAIN actuals |-> n + k]
           m == Meant(formals, actuals)[v]
<1>1. /\ formals.fl \in Seq(Vars) /\ formals.rest \in Vars \cup {None}
      /\ m = IF p > Len(actuals) THEN [is |-> "error"]
             ELSE IF Hits(v, formals.fl) # {} THEN [is |-> "bound", value |-> actuals[p]]
             ELSE IF formals.rest = v THEN [is |-> "rest", value |-> After(actuals, p)]
             ELSE [is |-> "none"]
  BY ZenonT(60), MeantIs
<1>2. /\ p \in Nat /\ Len(actuals) \in Nat /\ DOMAIN actuals = 1..Len(actuals)
      /\ (Hits(v, formals.fl) # {} => p \in 1..Len(formals.fl))
  <2>1. p \in 0..Len(formals.fl) /\ Len(formals.fl) \in Nat
        /\ DOMAIN formals.fl = 1..Len(formals.fl)
        /\ (Hits(v, formals.fl) # {} => p \in DOMAIN formals.fl)
    BY <1>1, PlaceIs
  <2> HIDE DEF p
  <2> QED BY <2>1
<1>3. al \in Seq(Nat) /\ Len(al) = Len(actuals) /\ DOMAIN al = 1..Len(actuals)
      /\ \A k \in 1..Len(actuals) : al[k] = n + k
  BY <1>2
<1>4. Matches(v, formals.fl, formals.rest, al, vals, m) <=>
         IF p > Len(al) THEN m.is = "error"
         ELSE IF Hits(v, formals.fl) # {} THEN m.is = "bound" /\ m.value = vals[al[p]]
         ELSE IF formals.rest = v THEN m.is = "rest" /\ m.value = Behind(al, p, vals)
         ELSE m.is = "none"
  BY DEF Matches
<1> HIDE DEF al, p, m
<1>5. ASSUME ~(p > Len(actuals)) PROVE Behind(al, p, vals) = After(actuals, p)
  <2>1. p \in 0..Len(actuals)
    BY <1>2, <1>5
  <2>2. /\ After(actuals, p) \in Seq(Values)
        /\ DOMAIN After(actuals, p) = 1..(Len(actuals) - p)
        /\ \A k \in 1..(Len(actuals) - p) :
              p + k \in DOMAIN actuals /\ After(actuals, p)[k] = actuals[p + k]
    BY <2>1, AfterIs
  <2>3. /\ DOMAIN After(al, p) = 1..(Len(actuals) - p)
        /\ \A k \in 1..(Len(actuals) - p) :
              p + k \in DOMAIN al /\ After(al, p)[k] = al[p + k]
    BY <1>3, <2>1, AfterIs
  <2>4. ASSUME NEW k \in 1..(Len(actuals) - p)
        PROVE  vals[After(al, p)[k]] = After(actuals, p)[k]
    <3>1. p + k \in DOMAIN actuals /\ al[p + k] = n + (p + k)
      BY <1>2, <1>3, <2>2
    <3> QED BY <2>2, <2>3, <3>1
  <2>5. Behind(al, p, vals) = [k \in 1..(Len(actuals) - p) |-> After(actuals, p)[k]]
    BY <2>3, <2>4 DEF Behind
  <2>6. After(actuals, p) = [k \in 1..(Len(actuals) - p) |-> After(actuals, p)[k]]
    BY <2>2
  <2> QED BY <2>5, <2>6
<1>6. ASSUME ~(p > Len(actuals)), Hits(v, formals.fl) # {} PROVE vals[al[p]] = actuals[p]
  <2>1. p \in DOMAIN actuals
    BY <1>2, <1>6
  <2> QED BY <1>2, <1>3, <2>1
<1>7. Matches(v, formals.fl, formals.rest, al, vals, m)
  BY <1>1, <1>3, <1>4, <1>5, <1>6
<1>8. m.is \in Binding(v, formals.fl, formals.rest)
  BY <1>1 DEF Binding
<1> QED BY <1>7, <1>8 DEF al, m

LEMMA ExtendsSafely ==
    ASSUME IInv, NEW env \in Envs, NEW formals \in Formals, NEW actuals \in ActualLists,
           ExtendEnv(formals, actuals, env)
    PROVE  IInv'
<1> DEFINE n == Len(cells)
           new == Len(frames) + 1
           al == [k \in DOMAIN actuals |-> n + k]
           r == [fl |-> formals.fl, rest |-> formals.rest, up |-> env, al |-> al]
           m == Meant(formals, actuals)
<1>0. Typing /\ cells \in Seq(Values) /\ frames \in Seq(Frame) /\ calls \in Seq(Call)
  BY DEF IInv, Typing
<1>1. actuals \in Seq(Values) /\ Len(actuals) \in Nat /\ DOMAIN actuals = 1..Len(actuals)
  <2>1. PICK k \in 0..MaxActuals : actuals \in [1..k -> Values]
    BY DEF ActualLists
  <2>2. k \in Nat
    BY <2>1, ActualsAssumption
  <2> QED BY <2>1, <2>2
<1>2. /\ formals.fl \in Seq(Vars) /\ formals.rest \in Vars \cup {None}
      /\ m \in [Vars -> Meaning]
  <2>1. formals.fl \in Seq(Vars) /\ formals.rest \in Vars \cup {None}
    BY FormalsAssumption
  <2>2. m \in [Vars -> Meaning]
    <3>1. CASE Vars = {}
      BY <3>1 DEF Meant
    <3>2. CASE Vars # {}
      <4>1. PICK v : v \in Vars
        BY <3>2
      <4> QED BY <1>1, <4>1, MeantIs
    <3> QED BY <3>1, <3>2
  <2> QED BY <2>1, <2>2
<1>3. n \in Nat /\ DOMAIN cells = 1..n /\ Len(frames) \in Nat /\ Made = 1..Len(frames)
  BY <1>0 DEF Made
<1>4. al \in Seq(Nat) /\ DOMAIN al = DOMAIN actuals /\ \A k \in DOMAIN actuals : al[k] = n + k
  BY <1>1, <1>3
<1>5. /\ cells' = cells \o actuals /\ frames' = Append(frames, r)
      /\ scope' = Append(scope, m)
      /\ UNCHANGED <<calls, spoilt>>
  BY DEF ExtendEnv
<1>6. /\ r \in Frame /\ r.fl = formals.fl /\ r.rest = formals.rest /\ r.al = al
      /\ r.up = env /\ env < new /\ env \in Nat
  <2>1. env \in Nat /\ env < new
    BY <1>3 DEF Envs
  <2> HIDE DEF al, new
  <2> QED BY <1>2, <1>4, <2>1 DEF Frame
<1> HIDE DEF n, al, r, m, new
<1>7. /\ cells' \in Seq(Values) /\ DOMAIN cells' = 1..(n + Len(actuals))
      /\ \A c \in DOMAIN cells : c \in DOMAIN cells' /\ cells'[c] = cells[c]
      /\ \A k \in DOMAIN actuals : /\ n + k \in DOMAIN cells' /\ n + k \notin DOMAIN cells
                                   /\ cells'[n + k] = actuals[k]
  <2>1. /\ cells' \in Seq(Values) /\ Len(cells') = n + Len(actuals)
        /\ \A i \in 1..(n + Len(actuals)) :
              cells'[i] = IF i <= n THEN cells[i] ELSE actuals[i - n]
    BY <1>0, <1>1, <1>5, ConcatProperties DEF n
  <2>2. \A c \in DOMAIN cells : c \in 1..(n + Len(actuals)) /\ c <= n
    BY <1>1, <1>3
  <2>3. \A k \in DOMAIN actuals : /\ n + k \in 1..(n + Len(actuals)) /\ ~(n + k <= n)
                                  /\ n + k - n = k
    BY <1>1, <1>3
  <2>4. DOMAIN cells' = 1..(n + Len(actuals))
    BY <2>1
  <2> QED BY <1>3, <2>1, <2>2, <2>3, <2>4
<1>8. /\ frames' \in Seq(Frame) /\ Len(frames') = new /\ new \in Nat /\ new \notin Made
      /\ Made' = Made \cup {new} /\ frames'[new] = r
      /\ \A f \in Made : frames'[f] = frames[f]
  <2>1. /\ frames' \in Seq(Frame) /\ Len(frames') = new /\ frames'[new] = r
        /\ \A f \in 1..Len(frames) : frames'[f] = frames[f]
    BY <1>0, <1>5, <1>6, AppendProperties DEF new
  <2>2. new \in Nat /\ new \notin Made /\ 1..new = Made \cup {new}
    BY <1>3 DEF new
  <2>3. Made' = 1..new
    BY <2>1 DEF Made
  <2> QED BY <1>3, <2>1, <2>2, <2>3
<1>9. /\ scope' \in Seq([Vars -> Meaning]) /\ Len(scope') = new /\ scope'[new] = m
      /\ \A f \in Made : scope'[f] = scope[f]
  <2>1. scope \in Seq([Vars -> Meaning]) /\ Len(scope) = Len(frames)
    BY <1>0 DEF Typing
  <2>2. /\ scope' \in Seq([Vars -> Meaning]) /\ Len(scope') = Len(scope) + 1
        /\ scope'[Len(scope) + 1] = m
        /\ \A f \in 1..Len(scope) : scope'[f] = scope[f]
    BY <1>2, <1>5, <2>1, AppendProperties
  <2> QED BY <1>3, <2>1, <2>2 DEF new
<1>10. \A i \in DOMAIN calls : calls[i] \in Defining => calls[i].env \in Made
  BY <1>0 DEF Typing
<1>11. Half(calls') = Half(calls) /\ new \notin Half(calls) /\ new \notin spoilt
       /\ spoilt' = spoilt
  <2>1. new \notin Half(calls)
    <3> SUFFICES ASSUME new \in Half(calls) PROVE FALSE
      OBVIOUS
    <3>1. PICK i \in DOMAIN calls : calls[i] \in Valuing /\ calls[i].env = new
      BY <1>0, HalfIs
    <3> QED BY <1>8, <1>10, <3>1 DEF Defining
  <2>2. spoilt \subseteq Made
    BY <1>0 DEF Typing
  <2> QED BY <1>5, <1>8, <2>1, <2>2
<1>12. PICK owner \in [DOMAIN cells -> Made] :
          /\ \A f \in Made : Owns(f, frames[f].al, owner)
          /\ \A i \in DOMAIN calls :
                 calls[i] \in Valuing => Owns(calls[i].env, calls[i].list, owner)
  BY DEF IInv, Owned
<1>13. ASSUME NEW f \in Made, NEW hl \in Seq(Vars), NEW v, Agrees(f, hl, v)
       PROVE  Later(f, hl, v)
  <2>1. frames[f].al \in Seq(Nat) /\ frames'[f] = frames[f] /\ scope'[f] = scope[f]
    BY <1>0, <1>8, <1>9, Typed
  <2>2. Matches(v, hl, frames[f].rest, frames[f].al, cells, scope[f][v])
    BY <1>13 DEF Agrees
  <2>3. \A k \in DOMAIN frames[f].al : cells'[frames[f].al[k]] = cells[frames[f].al[k]]
    BY <1>7, <1>12 DEF Owns
  <2>4. Matches(v, hl, frames[f].rest, frames[f].al, cells', scope[f][v])
    BY <2>1, <2>2, <2>3, MatchesKept
  <2> QED BY <2>1, <2>4 DEF Later
<1>14. Typing'
  <2>1. \A f \in Made' : frames'[f].up < f
    BY <1>0, <1>6, <1>8 DEF Typing
  <2>2. spoilt' \subseteq Made' /\ calls' \in Seq(Call)
        /\ \A i \in DOMAIN calls' : calls'[i] \in Defining => calls'[i].env \in Made'
    BY <1>0, <1>5, <1>8, <1>10 DEF Typing
  <2> QED BY <1>7, <1>8, <1>9, <2>1, <2>2 DEF Typing
<1>15. Owned'
  <2> DEFINE more == [c \in DOMAIN cells' |-> IF c \in DOMAIN cells THEN owner[c] ELSE new]
  <2>1. /\ more \in [DOMAIN cells' -> Made']
        /\ \A c \in DOMAIN cells : c \in DOMAIN more /\ more[c] = owner[c]
        /\ \A k \in DOMAIN actuals : n + k \in DOMAIN more /\ more[n + k] = new
        /\ DOMAIN owner = DOMAIN cells
    BY <1>7, <1>8
  <2> HIDE DEF more
  <2>2. \A f, l : Owns(f, l, owner) => Owns(f, l, more)
    BY <2>1 DEF Owns
  <2>3. Owns(new, al, more)
    <3>1. \A k \in DOMAIN al : al[k] \in DOMAIN more /\ more[al[k]] = new
      BY <1>4, <2>1
    <3>2. \A k, l \in DOMAIN al : al[k] = al[l] => k = l
      BY <1>1, <1>3, <1>4
    <3> QED BY <3>1, <3>2 DEF Owns
  <2>4. \A f \in Made' : Owns(f, frames'[f].al, more)
    BY <1>6, <1>8, <1>12, <2>2, <2>3
  <2>5. \A i \in DOMAIN calls' : calls'[i] \in Valuing => Owns(calls'[i].env, calls'[i].list, more)
    BY <1>5, <1>12, <2>2
  <2> QED BY <2>1, <2>4, <2>5 DEF Owned
<1>16. ASSUME NEW v \in Vars
       PROVE  /\ Matches(v, formals.fl, formals.rest, al, cells', m[v])
              /\ m[v].is \in Binding(v, formals.fl, formals.rest)
  <2>1. \A k \in DOMAIN actuals : cells'[n + k] = actuals[k]
    BY <1>7
  <2> QED BY <1>1, <1>3, <2>1, MeantMatches DEF al, m
<1>17. Named'
  <2> SUFFICES ASSUME NEW f \in Made', NEW v \in Vars
               PROVE  scope'[f][v].is \in Binding(v, frames'[f].fl, frames'[f].rest)
    BY DEF Named
  <2>1. CASE f = new
    BY <1>6, <1>8, <1>9, <1>16, <2>1
  <2>2. CASE f \in Made
    BY <1>8, <1>9, <2>2 DEF IInv, Named
  <2> QED BY <1>8, <2>1, <2>2
<1>18. Lacking'
  <2> SUFFICES ASSUME NEW f \in Made', NEW v \in Vars, scope'[f][v].is = "error"
               PROVE  /\ f \notin spoilt
                      /\ \A i \in DOMAIN calls : calls[i] \in Defining => calls[i].env # f
    BY <1>5 DEF Lacking
  <2>1. CASE f = new
    BY <1>8, <1>10, <1>11, <2>1
  <2>2. CASE f \in Made
    BY <1>9, <2>2 DEF IInv, Lacking
  <2> QED BY <1>8, <2>1, <2>2
<1>19. NamesNew'
  <2> SUFFICES ASSUME NEW i \in DOMAIN calls, calls[i] \in Naming
               PROVE  LET e == calls[i] IN
                      /\ Renewed(e.list, frames'[e.env].fl, frames'[e.env].rest)
                      /\ Hits(e.var, e.list) = {} /\ e.var # frames'[e.env].rest
    BY <1>5 DEF NamesNew
  <2>1. frames'[calls[i].env] = frames[calls[i].env]
    BY <1>8, <1>10 DEF Defining
  <2> QED BY <2>1 DEF IInv, NamesNew
<1>20. Nested'
  <2> SUFFICES ASSUME NEW i \in DOMAIN calls, NEW j \in DOMAIN calls, i < j,
                      calls[i] \in Defining, calls[j] \in Defining,
                      calls[i].env = calls[j].env
               PROVE  /\ calls[i] \in Valuing => calls[i].env \in spoilt
                      /\ calls[i] \in Naming /\ calls[j] \in Naming =>
                            Renewed(calls[i].list, calls[j].list, frames'[calls[i].env].rest)
    BY <1>5 DEF Nested
  <2>1. frames'[calls[i].env] = frames[calls[i].env]
    BY <1>8, <1>10
  <2> QED BY <2>1 DEF IInv, Nested
<1>21. InStep'
  <2> SUFFICES ASSUME NEW f \in Made', f \notin spoilt', f \notin Half(calls'), NEW v \in Vars
               PROVE  Later(f, frames'[f].fl, v)
    BY LaterInStep
  <2>1. CASE f = new
    BY <1>6, <1>8, <1>9, <1>16, <2>1 DEF Later
  <2>2. CASE f \in Made
    <3>1. Agrees(f, frames[f].fl, v) /\ frames[f].fl \in Seq(Vars)
      BY <1>0, <1>11, <2>2, Typed DEF IInv, InStep
    <3> QED BY <1>8, <1>13, <2>2, <3>1
  <2> QED BY <1>8, <2>1, <2>2
<1>22. HalfStep'
  <2> SUFFICES ASSUME NEW i \in DOMAIN calls', calls'[i] \in Valuing, calls'[i].env \notin spoilt'
               PROVE  LET e == calls'[i] IN
                      /\ scope'[e.env][e.var] = [is |-> "bound", value |-> e.val]
                      /\ \E hl \in Seq(Vars) :
                            /\ frames'[e.env].fl = <<e.var>> \o hl
                            /\ \A v \in Vars \ {e.var} : Later(e.env, hl, v)
    BY LaterHalf
  <2>1. i \in DOMAIN calls /\ calls'[i] = calls[i] /\ calls[i] \in Valuing
    BY <1>5
  <2>2. PICK e, w : e = calls[i].env /\ w = calls[i].var
    OBVIOUS
  <2>3. e \in Made /\ w \in Vars /\ e \notin spoilt
    BY <1>0, <1>11, <2>1, <2>2, Typed DEF Defining
  <2>4. PICK hl \in Seq(Vars) :
           /\ frames[e].fl = <<w>> \o hl
           /\ \A v \in Vars \ {w} : Agrees(e, hl, v)
           /\ scope[e][w] = [is |-> "bound", value |-> calls[i].val]
    BY <2>1, <2>2, <2>3 DEF IInv, HalfStep
  <2>5. \A v \in Vars \ {w} : Later(e, hl, v)
    BY <1>13, <2>3, <2>4
  <2>6. frames'[e].fl = <<w>> \o hl /\ scope'[e][w] = [is |-> "bound", value |-> calls[i].val]
    BY <1>8, <1>9, <2>3, <2>4
  <2> QED BY <2>1, <2>2, <2>5, <2>6
<1> QED BY <1>14, <1>15, <1>17, <1>18, <1>19, <1>20, <1>21, <1>22 DEF IInv

-----------------------------------------------------------------------------
(* The inductive invariant, for any parameter lists, actuals, number of    *)
(* frames and depth of re-entries, and lexical scope from it.              *)

LEMMA Starts == Init => IInv
<1> SUFFICES ASSUME Init PROVE IInv
  OBVIOUS
<1>1. /\ calls = <<>> /\ frames = <<>> /\ cells = <<>> /\ scope = <<>> /\ spoilt = {}
      /\ Made = {} /\ DOMAIN calls = {} /\ DOMAIN cells = {}
  BY DEF Init, Made
<1>2. Typing
  BY <1>1 DEF Typing
<1>3. Owned
  <2>1. [c \in {} |-> 0] \in [DOMAIN cells -> Made]
    BY <1>1
  <2> QED BY <1>1, <2>1 DEF Owned
<1>4. Named /\ Lacking /\ NamesNew /\ Nested /\ InStep /\ HalfStep
  BY <1>1 DEF Named, Lacking, NamesNew, Nested, InStep, HalfStep
<1> QED BY <1>2, <1>3, <1>4 DEF IInv

LEMMA StuttersSafely ==
    ASSUME IInv, UNCHANGED vars
    PROVE  IInv'
<1>1. calls' \in Seq(Call) /\ UNCHANGED <<calls, frames, cells, scope, spoilt>>
  BY DEF IInv, Typing, vars, envVars
<1>2. \A i \in DOMAIN calls' : i \in DOMAIN calls /\ Alike(calls[i], calls'[i])
  BY <1>1, Alikes
<1>3. Half(calls') = Half(calls)
  BY <1>1
<1> QED BY <1>1, <1>2, <1>3, SameCalls

LEMMA Steps == IInv /\ [Next]_vars => IInv'
<1> SUFFICES ASSUME IInv, [Next]_vars PROVE IInv'
  OBVIOUS
<1>1. ASSUME NEW env \in Envs, NEW formals \in Formals, NEW actuals \in ActualLists,
             ExtendEnv(formals, actuals, env)
      PROVE  IInv'
  BY <1>1, ExtendsSafely
<1>2. ASSUME NEW env \in Envs, NEW var \in Vars, NEW val \in Values, Setvar(var, val, env)
      PROVE  IInv'
  BY <1>2, SetvarsSafely
<1>3. ASSUME NEW env \in Envs, NEW var \in Vars, NEW val \in Values, Define(var, val, env)
      PROVE  IInv'
  BY <1>3, DefinesSafely
<1>4. CASE StoreFormals
  BY <1>4, StoresFormalsSafely
<1>5. CASE StoreActuals
  BY <1>5, StoresActualsSafely
<1>6. CASE Reenter
  BY <1>6, ReentersSafely
<1>7. CASE Leave
  BY <1>7, LeavesSafely
<1>8. CASE UNCHANGED vars
  BY <1>8, StuttersSafely
<1> QED BY <1>1, <1>2, <1>3, <1>4, <1>5, <1>6, <1>7, <1>8 DEF Next

(* The two lists of each frame stay in step, and what scope says of the    *)
(* frame's variables follows them, but for the frames half extended.       *)
THEOREM InStepAlways == Spec => []IInv
<1>1. Init => IInv
  BY Starts
<1>2. IInv /\ [Next]_vars => IInv'
  BY Steps
<1> QED BY <1>1, <1>2, PTL DEF Spec

(* Each variable denotes what lexical scope says, in every environment     *)
(* whose frames no error, *throw or after-gc form met in the middle of a   *)
(* define.                                                                 *)
THEOREM ScopeIsLexical == Spec => []Lexical
<1>1. Spec => []IInv
  BY InStepAlways
<1>2. IInv => Lexical
  BY InScope
<1> QED BY <1>1, <1>2, PTL
===============================================================================
