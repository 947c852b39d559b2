---------------------------- MODULE ResourcesProof -----------------------------
(***************************************************************************)
(* Open FILEs and malloc'ed data and who has them, for any number of       *)
(* cells, buffers and FILEs and any depth of re-entries.                   *)
(*                                                                         *)
(* That each FILE has one cell is kept by every step but for the loads: a  *)
(* file a load reads must not be closed under it, so no other load may     *)
(* have its cell, and the program must not get hold of it (IInv).  Data    *)
(* is passed from the calls of lfread to cells and lost ones: Owning says  *)
(* that no buffer is at two places.  AllSourced follows the FILEs that     *)
(* calls read from while they wait for a cell.                             *)
(***************************************************************************)
EXTENDS Resources, Functions, SequenceTheorems, TLAPS

-----------------------------------------------------------------------------
(* The stack of calls: which calls there are after one is entered or left, *)
(* or the after-gc form entered in the middle of one.                      *)

Stack == \E S : calls \in Seq(S)

LEMMA Entered ==
    ASSUME NEW S, NEW s \in Seq(S), NEW c
    PROVE  /\ \E T : Append(s, c) \in Seq(T)
           /\ Range(Append(s, c)) = Range(s) \cup {c}
<1>1. s \in Seq(S \cup {c})
  <2>1. \A i \in 1..Len(s) : s[i] \in S \cup {c}
    OBVIOUS
  <2> QED BY <2>1
<1>2. /\ Append(s, c) \in Seq(S \cup {c})
      /\ Len(Append(s, c)) = Len(s) + 1
      /\ \A i \in 1..Len(s) : Append(s, c)[i] = s[i]
      /\ Append(s, c)[Len(s) + 1] = c
  BY <1>1, AppendProperties
<1>3. DOMAIN Append(s, c) = 1..(Len(s) + 1) /\ DOMAIN s = 1..Len(s) /\ Len(s) \in Nat
  BY <1>1, <1>2
<1>4. Range(Append(s, c)) = Range(s) \cup {c}
  <2>1. \A i \in DOMAIN Append(s, c) : i = Len(s) + 1 \/ i \in DOMAIN s
    BY <1>3
  <2>2. Len(s) + 1 \in DOMAIN Append(s, c) /\ \A i \in DOMAIN s : i \in DOMAIN Append(s, c)
    BY <1>3
  <2> QED BY <1>2, <1>3, <2>1, <2>2 DEF Range
<1> QED BY <1>2, <1>4

LEMMA TwoMore ==
    ASSUME NEW S, NEW s \in Seq(S), NEW c, NEW d
    PROVE  s \o <<c, d>> = Append(Append(s, c), d)
<1>1. s \in Seq(S \cup {c, d})
  <2>1. \A i \in 1..Len(s) : s[i] \in S \cup {c, d}
    OBVIOUS
  <2> QED BY <2>1
<1> QED BY <1>1

LEMMA EnteredTwo ==
    ASSUME NEW S, NEW s \in Seq(S), NEW c, NEW d
    PROVE  /\ \E T : s \o <<c, d>> \in Seq(T)
           /\ Range(s \o <<c, d>>) = Range(s) \cup {c, d}
<1>1. PICK T : Append(s, c) \in Seq(T)
  BY Entered
<1>2. s \o <<c, d>> = Append(Append(s, c), d)
  BY TwoMore
<1>3. Range(Append(s, c)) = Range(s) \cup {c}
  BY Entered
<1>4. /\ \E U : Append(Append(s, c), d) \in Seq(U)
      /\ Range(Append(Append(s, c), d)) = Range(Append(s, c)) \cup {d}
  BY <1>1, Entered
<1> QED BY <1>2, <1>3, <1>4

LEMMA Left ==
    ASSUME NEW S, NEW s \in Seq(S), NEW n \in 0..Len(s)
    PROVE  SubSeq(s, 1, n) \in Seq(S) /\ Range(SubSeq(s, 1, n)) \subseteq Range(s)
<1>1. \A i \in 1..n : s[i] \in S
  OBVIOUS
<1>2. /\ SubSeq(s, 1, n) \in Seq(S) /\ Len(SubSeq(s, 1, n)) = n
      /\ \A i \in 1..n : SubSeq(s, 1, n)[i] = s[i]
  BY <1>1, SubSeqProperties
<1>3. DOMAIN SubSeq(s, 1, n) = 1..n /\ 1..n \subseteq DOMAIN s
  BY <1>2
<1> QED BY <1>2, <1>3 DEF Range

LEMMA Inside ==
    ASSUME Stack, ~Evaluating
    PROVE  /\ calls # <<>> /\ Innermost = calls[Len(calls)]
           /\ Innermost \in Range(calls)
           /\ \E S : Outer \in Seq(S)
           /\ Range(Outer) \subseteq Range(calls)
<1>1. PICK S : calls \in Seq(S)
  BY DEF Stack
<1>2. calls # <<>> /\ Innermost = calls[Len(calls)]
  BY DEF Evaluating, Innermost
<1>3. Len(calls) \in DOMAIN calls /\ Len(calls) - 1 \in 0..Len(calls)
  BY <1>1, <1>2
<1>4. Innermost \in Range(calls)
  BY <1>2, <1>3 DEF Range
<1>5. Outer \in Seq(S) /\ Range(Outer) \subseteq Range(calls)
  BY <1>1, <1>3, Left DEF Outer
<1> QED BY <1>2, <1>4, <1>5

LEMMA Begins ==
    ASSUME Stack, NEW c, Begin(c)
    PROVE  Stack' /\ Range(calls)' = Range(calls) \cup {c}
<1>1. PICK S : calls \in Seq(S)
  BY DEF Stack
<1> QED BY <1>1, Entered DEF Begin, Stack

LEMMA Finishes ==
    ASSUME Stack, ~Evaluating, Finish
    PROVE  Stack' /\ Range(calls)' \subseteq Range(calls)
<1>1. Range(calls)' = Range(Outer)
  BY DEF Finish, Range
<1> QED BY <1>1, Inside DEF Finish, Stack

LEMMA Reenters ==
    ASSUME Stack, Collect \/ FormEnds \/ Unwind
    PROVE  /\ Stack'
           /\ \/ Range(calls)' \subseteq Range(calls)
              \/ /\ ~Evaluating
                 /\ Range(calls)' \subseteq
                       Range(calls) \cup {[Innermost EXCEPT !.gc = TRUE], AfterGc}
<1>1. PICK S : calls \in Seq(S)
  BY DEF Stack
<1>2. CASE Collect
  <2>1. ~Evaluating /\ calls' = Outer \o <<[Innermost EXCEPT !.gc = TRUE], AfterGc>>
    BY <1>2 DEF Collect
  <2>2. PICK T : Outer \in Seq(T)
    BY <2>1, Inside
  <2>3. Range(calls)' = Range(Outer \o <<[Innermost EXCEPT !.gc = TRUE], AfterGc>>)
    BY <2>1 DEF Range
  <2>4. /\ \E U : Outer \o <<[Innermost EXCEPT !.gc = TRUE], AfterGc>> \in Seq(U)
        /\ Range(calls)' = Range(Outer) \cup {[Innermost EXCEPT !.gc = TRUE], AfterGc}
    <3>1. \A c, d : /\ \E U : Outer \o <<c, d>> \in Seq(U)
                    /\ Range(Outer \o <<c, d>>) = Range(Outer) \cup {c, d}
      BY <2>2, EnteredTwo
    <3> QED BY <2>3, <3>1
  <2>5. Stack'
    BY <2>1, <2>4 DEF Stack
  <2>6. Range(Outer) \subseteq Range(calls)
    BY <2>1, Inside
  <2> QED BY <2>1, <2>4, <2>5, <2>6
<1>3. CASE FormEnds
  <2>1. Len(calls) - 1 \in 0..Len(calls)
    BY <1>1, <1>3 DEF FormEnds
  <2>2. Range(calls)' = Range(Outer)
    BY <1>3 DEF FormEnds, Finish, Range
  <2> QED BY <1>1, <1>3, <2>1, <2>2, Left DEF FormEnds, Finish, Outer, Stack
<1>4. CASE Unwind
  <2>1. PICK n \in 0..Len(calls) : calls' = SubSeq(calls, 1, n)
    <3>1. CASE Fail
      <4>1. SubSeq(calls, 1, 0) = <<>>
        BY <1>1
      <4> QED BY <1>1, <3>1, <4>1 DEF Fail
    <3>2. CASE ThrowOut
      BY <1>1, <3>2 DEF ThrowOut
    <3> QED BY <1>4, <3>1, <3>2 DEF Unwind
  <2>2. Range(calls)' = Range(SubSeq(calls, 1, n))
    BY <2>1 DEF Range
  <2> QED BY <1>1, <2>1, <2>2, Left DEF Stack
<1> QED BY <1>2, <1>3, <1>4

-----------------------------------------------------------------------------

ArrayCall == [proc : {"array"}, at : {"cell"}, gc : BOOLEAN, kind : Kinds,
              cell : Cells \cup {NULL}, f : Files \cup {NULL}]
FreadCall == [proc : {"lfread"}, at : {"cell"}, gc : BOOLEAN, kind : {"string"},
              whole : BOOLEAN, buffer : Buffers]
FopenCall == [proc : {"fopen"}, at : {"cell"}, gc : BOOLEAN, loading : BOOLEAN]
LoadCall == [proc : {"vload"}, at : {"forms"}, gc : {TRUE}, cell : Cells]

Plain == ArrayCall \cup FreadCall \cup FopenCall \cup {AfterGc}
Loading(d) == d.proc = "vload"

(* No two calls of vload have one cell. *)
Apart(s) == \A i, j \in DOMAIN s :
               Loading(s[i]) /\ Loading(s[j]) /\ s[i].cell = s[j].cell => i = j

(* A load has its cell for itself, and the cell a FILE. *)
Reads(d) == type[d.cell] = "c_file" /\ file[d.cell] # NULL /\ d.cell \notin held

IInv ==
    /\ DOMAIN type = Cells
    /\ file \in [Cells -> Files \cup {NULL}]
    /\ held \subseteq Cells \ Free
    /\ \A c \in Cells : file[c] # NULL => type[c] = "c_file"
    /\ \A c, d \in Cells : file[c] = file[d] /\ file[c] # NULL => c = d
    /\ opened = {file[c] : c \in Cells} \ {NULL}
    /\ Stack /\ Apart(calls)
    /\ \A d \in Range(calls) : d \in Plain \/ (d \in LoadCall /\ Reads(d))

(* What most steps do to the calls: no load begins. *)
NoneLoads ==
    /\ Stack' /\ Apart(calls)'
    /\ \A d \in Range(calls)' : d \in Plain \/ (d \in LoadCall /\ d \in Range(calls))

-----------------------------------------------------------------------------
(* The calls of vload, when others begin and end. *)

LEMMA WhichLoad ==
    ASSUME NEW d
    PROVE  /\ d \in Plain => ~Loading(d)
           /\ d \in LoadCall => Loading(d) /\ d \notin Plain
           /\ d \in Plain /\ d.proc = "array" => d \in ArrayCall
<1>1. d \in ArrayCall => d.proc = "array"
  BY DEF ArrayCall
<1>2. d \in FreadCall => d.proc = "lfread"
  BY DEF FreadCall
<1>3. d \in FopenCall => d.proc = "fopen"
  BY DEF FopenCall
<1>4. d = AfterGc => d.proc = "after-gc"
  BY DEF AfterGc
<1>5. d \in LoadCall => d.proc = "vload"
  BY DEF LoadCall
<1> QED BY <1>1, <1>2, <1>3, <1>4, <1>5 DEF Plain, Loading

LEMMA ApartPrefix ==
    ASSUME NEW S, NEW s \in Seq(S), Apart(s), NEW n \in 0..Len(s)
    PROVE  Apart(SubSeq(s, 1, n))
<1>1. \A i \in 1..n : s[i] \in S
  OBVIOUS
<1>2. /\ SubSeq(s, 1, n) \in Seq(S) /\ Len(SubSeq(s, 1, n)) = n
      /\ \A i \in 1..n : SubSeq(s, 1, n)[i] = s[i]
  BY <1>1, SubSeqProperties
<1>3. DOMAIN SubSeq(s, 1, n) = 1..n /\ 1..n \subseteq DOMAIN s
  BY <1>2
<1> QED BY <1>2, <1>3 DEF Apart

LEMMA ApartAppend ==
    ASSUME NEW S, NEW s \in Seq(S), Apart(s), NEW c,
           Loading(c) => \A d \in Range(s) : Loading(d) => d.cell # c.cell
    PROVE  Apart(Append(s, c))
<1>1. s \in Seq(S \cup {c})
  <2>1. \A i \in 1..Len(s) : s[i] \in S \cup {c}
    OBVIOUS
  <2> QED BY <2>1
<1>2. /\ Append(s, c) \in Seq(S \cup {c})
      /\ Len(Append(s, c)) = Len(s) + 1
      /\ \A i \in 1..Len(s) : Append(s, c)[i] = s[i]
      /\ Append(s, c)[Len(s) + 1] = c
  BY <1>1, AppendProperties
<1>3. DOMAIN Append(s, c) = 1..(Len(s) + 1) /\ DOMAIN s = 1..Len(s) /\ Len(s) \in Nat
  BY <1>1, <1>2
<1>4. \A i \in DOMAIN s : s[i] \in Range(s)
  BY DEF Range
<1>5. \A i \in DOMAIN Append(s, c) : i = Len(s) + 1 \/ i \in DOMAIN s
  BY <1>3
<1>6. \A i \in DOMAIN s : Append(s, c)[i] = s[i]
  BY <1>2, <1>3
<1> QED BY <1>2, <1>4, <1>5, <1>6 DEF Apart

LEMMA Remain ==
    ASSUME IInv
    PROVE  /\ UNCHANGED calls => NoneLoads
           /\ calls' = <<>> => NoneLoads
           /\ ~Evaluating /\ Finish => NoneLoads
           /\ \A c \in Plain : Begin(c) => NoneLoads
           /\ Collect \/ FormEnds \/ Unwind => NoneLoads
<1>1. PICK S : calls \in Seq(S)
  BY DEF IInv, Stack
<1>2. \A d \in Range(calls) : d \in Plain \/ (d \in LoadCall /\ d \in Range(calls))
  BY DEF IInv
<1>3. ASSUME NEW n \in 0..Len(calls), calls' = SubSeq(calls, 1, n) PROVE NoneLoads
  <2>1. SubSeq(calls, 1, n) \in Seq(S) /\ Range(SubSeq(calls, 1, n)) \subseteq Range(calls)
    BY <1>1, Left
  <2>2. Apart(SubSeq(calls, 1, n))
    BY <1>1, ApartPrefix DEF IInv
  <2>3. Apart(calls)' /\ Range(calls)' \subseteq Range(calls) /\ Stack'
    BY <1>3, <2>1, <2>2 DEF Apart, Range, Stack
  <2> QED BY <1>2, <2>3 DEF NoneLoads
<1>4. UNCHANGED calls => NoneLoads
  BY <1>2 DEF NoneLoads, IInv, Stack, Apart, Range
<1>5. calls' = <<>> => NoneLoads
  <2>1. SubSeq(calls, 1, 0) = <<>>
    BY <1>1
  <2> QED BY <1>1, <1>3, <2>1
<1>6. calls # <<>> /\ Finish => NoneLoads
  <2> SUFFICES ASSUME calls # <<>>, Finish PROVE NoneLoads
    OBVIOUS
  <2>1. Len(calls) - 1 \in 0..Len(calls)
    BY <1>1
  <2> QED BY <1>3, <2>1 DEF Finish, Outer
<1>7. ASSUME NEW c \in Plain, Begin(c) PROVE NoneLoads
  <2>1. calls' = Append(calls, c)
    BY <1>7 DEF Begin
  <2>2. Apart(Append(calls, c))
    BY <1>1, WhichLoad, ApartAppend DEF IInv
  <2>3. Stack' /\ Range(calls)' = Range(calls) \cup {c}
    BY <1>7, Begins DEF IInv
  <2>4. Apart(calls)'
    BY <2>1, <2>2 DEF Apart
  <2> QED BY <1>2, <2>3, <2>4 DEF NoneLoads
<1>8. ASSUME Collect PROVE NoneLoads
  <2>1. ~Evaluating /\ ~Innermost.gc
    BY <1>8 DEF Collect
  <2>2. Innermost \in Range(calls) /\ Range(Outer) \subseteq Range(calls)
    BY <2>1, Inside DEF IInv
  <2>3. PICK e : e = [Innermost EXCEPT !.gc = TRUE]
    OBVIOUS
  <2>4. Innermost \in Plain /\ Innermost # AfterGc
    <3>1. Innermost \notin LoadCall
      BY <2>1 DEF LoadCall
    <3> QED BY <2>1, <2>2, <3>1 DEF IInv, Evaluating
  <2>5. e \in Plain
    BY <2>3, <2>4 DEF Plain, ArrayCall, FreadCall, FopenCall
  <2>6. calls' = Outer \o <<e, AfterGc>>
    BY <1>8, <2>3 DEF Collect
  <2>7. Outer = SubSeq(calls, 1, Len(calls) - 1) /\ Len(calls) - 1 \in 0..Len(calls)
    BY <1>1, <2>1, Inside DEF Outer, IInv
  <2>8. Outer \in Seq(S) /\ Apart(Outer)
    BY <1>1, <2>7, Left, ApartPrefix DEF IInv
  <2>9. PICK T : Append(Outer, e) \in Seq(T)
    BY <2>8, Entered
  <2>10. Apart(Append(Outer, e))
    BY <2>5, <2>8, WhichLoad, ApartAppend
  <2>11. Apart(Append(Append(Outer, e), AfterGc))
    BY <2>9, <2>10, WhichLoad, ApartAppend DEF Plain
  <2>12. calls' = Append(Append(Outer, e), AfterGc)
    BY <2>6, <2>8, TwoMore
  <2>13. Apart(calls)'
    BY <2>11, <2>12 DEF Apart
  <2>14. /\ \E U : Outer \o <<e, AfterGc>> \in Seq(U)
         /\ Range(Outer \o <<e, AfterGc>>) = Range(Outer) \cup {e, AfterGc}
    BY <2>8, EnteredTwo
  <2>15. Stack' /\ Range(calls)' = Range(Outer) \cup {e, AfterGc}
    BY <2>6, <2>14 DEF Stack, Range
  <2>16. AfterGc \in Plain
    BY DEF Plain
  <2> QED BY <1>2, <2>2, <2>5, <2>13, <2>15, <2>16 DEF NoneLoads
<1>9. FormEnds => NoneLoads
  BY <1>6 DEF FormEnds
<1>10. Unwind => NoneLoads
  <2>1. Fail => NoneLoads
    BY <1>5 DEF Fail
  <2>2. ASSUME ThrowOut PROVE NoneLoads
    <3>1. PICK n \in 0..(Len(calls) - 1) : calls' = SubSeq(calls, 1, n)
      BY <2>2 DEF ThrowOut
    <3>2. n \in 0..Len(calls)
      BY <1>1
    <3> QED BY <1>3, <3>1, <3>2
  <2> QED BY <2>1, <2>2 DEF Unwind
<1>11. ~Evaluating => calls # <<>>
  BY DEF Evaluating, Innermost
<1> QED BY <1>4, <1>5, <1>6, <1>7, <1>8, <1>9, <1>10, <1>11

-----------------------------------------------------------------------------
(* What becomes of the cells. *)

LEMMA Settles ==
    ASSUME IInv, NoneLoads,
           DOMAIN type' = Cells, file' \in [Cells -> Files \cup {NULL}],
           held' \subseteq Cells, \A c \in held' : type'[c] # "free",
           \A c \in Cells : file'[c] # NULL => type'[c] = "c_file",
           \A c, d \in Cells : file'[c] = file'[d] /\ file'[c] # NULL => c = d,
           opened' = {file'[c] : c \in Cells} \ {NULL},
           \A d \in LoadCall : d \in Range(calls)' /\ d \in Range(calls) /\ Reads(d) => Reads(d)'
    PROVE  IInv'
<1>1. held' \subseteq Cells \ Free'
  BY DEF Free
<1>2. ASSUME NEW d \in Range(calls)' PROVE d \in Plain \/ (d \in LoadCall /\ Reads(d)')
  <2>1. CASE d \notin Plain
    <3>1. d \in LoadCall /\ d \in Range(calls)
      BY <2>1 DEF NoneLoads
    <3>2. Reads(d)
      BY <2>1, <3>1 DEF IInv
    <3> QED BY <3>1, <3>2
  <2> QED BY <2>1
<1> QED BY <1>1, <1>2 DEF IInv, NoneLoads

(* Nothing but the calls and what the program drops changes. *)
LEMMA Stays ==
    ASSUME IInv, NoneLoads, UNCHANGED <<type, file, opened>>, held' \subseteq held
    PROVE  IInv'
<1>1. \A c \in held' : c \in Cells /\ type'[c] # "free"
  BY DEF IInv, Free
<1>2. \A d : Reads(d) => Reads(d)'
  BY DEF Reads
<1> QED BY <1>1, <1>2, Settles DEF IInv

(* A free cell becomes anything but a file. *)
LEMMA Takes ==
    ASSUME IInv, NoneLoads, NEW c \in Free, NEW t,
           type' = [type EXCEPT ![c] = t], UNCHANGED <<file, opened>>,
           held' = held \/ (t # "free" /\ held' = held \cup {c})
    PROVE  IInv'
<1>1. c \in Cells /\ type[c] = "free" /\ c \notin held /\ file[c] = NULL
  BY DEF IInv, Free
<1>2. DOMAIN type' = Cells /\ type'[c] = t /\ \A d \in Cells : d # c => type'[d] = type[d]
  BY <1>1 DEF IInv
<1>3. \A d \in held' : d \in Cells /\ type'[d] # "free"
  BY <1>1, <1>2 DEF IInv, Free
<1>4. ASSUME NEW d \in LoadCall, Reads(d) PROVE Reads(d)'
  <2>1. d.cell \in Cells /\ d.cell # c
    BY <1>1, <1>4 DEF LoadCall, Reads
  <2> QED BY <1>2, <1>4, <2>1 DEF Reads
<1>5. \A d \in Cells : file'[d] # NULL => type'[d] = "c_file"
  BY <1>1, <1>2 DEF IInv
<1> QED BY <1>2, <1>3, <1>4, <1>5, Settles DEF IInv

(* A free cell becomes a file, with a FILE that was not open or with none. *)
LEMMA Opens ==
    ASSUME IInv, NEW c \in Free, NEW f \in {NULL} \cup (Files \ opened),
           type' = [type EXCEPT ![c] = "c_file"], file' = [file EXCEPT ![c] = f],
           opened' = opened \cup ({f} \ {NULL})
    PROVE  /\ c \in Cells /\ c \notin held /\ file'[c] = f /\ type'[c] = "c_file"
           /\ DOMAIN type' = Cells /\ file' \in [Cells -> Files \cup {NULL}]
           /\ \A d \in held : d \in Cells /\ type'[d] # "free"
           /\ \A d \in Cells : file'[d] # NULL => type'[d] = "c_file"
           /\ \A d, e \in Cells : file'[d] = file'[e] /\ file'[d] # NULL => d = e
           /\ opened' = {file'[d] : d \in Cells} \ {NULL}
           /\ \A d \in LoadCall : Reads(d) => /\ d.cell # c
                                              /\ type'[d.cell] = "c_file" /\ file'[d.cell] # NULL
<1>1. c \in Cells /\ type[c] = "free" /\ c \notin held /\ file[c] = NULL
  BY DEF IInv, Free
<1>2. DOMAIN type' = Cells /\ type'[c] = "c_file" /\ \A d \in Cells : d # c => type'[d] = type[d]
  BY <1>1 DEF IInv
<1>3. /\ file' \in [Cells -> Files \cup {NULL}] /\ file'[c] = f
      /\ \A d \in Cells : d # c => file'[d] = file[d]
  BY <1>1 DEF IInv
<1>4. \A d \in Cells : file[d] # NULL => file[d] \in opened
  BY DEF IInv
<1>5. \A d, e \in Cells : file'[d] = file'[e] /\ file'[d] # NULL => d = e
  BY <1>3, <1>4 DEF IInv
<1>6. opened' = {file'[d] : d \in Cells} \ {NULL}
  <2>1. \A g : g \in opened => g # NULL /\ \E d \in Cells : d # c /\ file[d] = g
    BY <1>1 DEF IInv
  <2>2. \A g \in opened' : g # NULL /\ \E d \in Cells : file'[d] = g
    BY <1>1, <1>3, <2>1
  <2>3. \A d \in Cells : file'[d] # NULL => file'[d] \in opened'
    BY <1>3, <1>4
  <2> QED BY <2>2, <2>3
<1>7. \A d \in held : d \in Cells /\ type'[d] # "free"
  BY <1>1, <1>2 DEF IInv, Free
<1>8. \A d \in Cells : file'[d] # NULL => type'[d] = "c_file"
  BY <1>2, <1>3 DEF IInv
<1>9. ASSUME NEW d \in LoadCall, Reads(d)
      PROVE  d.cell # c /\ type'[d.cell] = "c_file" /\ file'[d.cell] # NULL
  <2>1. d.cell \in Cells /\ d.cell # c
    BY <1>1, <1>9 DEF LoadCall, Reads
  <2> QED BY <1>2, <1>3, <1>9, <2>1 DEF Reads
<1> QED BY <1>1, <1>2, <1>3, <1>5, <1>6, <1>7, <1>8, <1>9

(* The hook frees cells: their FILEs, and no others, are closed. *)
LEMMA Frees ==
    ASSUME IInv, NEW Z \in SUBSET Cells, GcFree(Z)
    PROVE  /\ file' \in [Cells -> Files \cup {NULL}]
           /\ \A c \in Cells : file'[c] = IF c \in Z THEN NULL ELSE file[c]
           /\ \A c, d \in Cells : file'[c] = file'[d] /\ file'[c] # NULL => c = d
           /\ opened' = {file'[c] : c \in Cells} \ {NULL}
<1>1. \A c \in Cells : file'[c] = IF c \in Z THEN NULL ELSE file[c]
  BY DEF GcFree, Cleared, IInv
<1>2. file' \in [Cells -> Files \cup {NULL}]
  BY DEF GcFree, Cleared, IInv
<1>3. \A c, d \in Cells : file'[c] = file'[d] /\ file'[c] # NULL => c = d
  BY <1>1 DEF IInv
<1>4. opened' = opened \ {file[c] : c \in Z}
  <2>1. \A c \in Z : file[c] # NULL => type[c] = "c_file"
    BY DEF IInv
  <2>2. NULL \notin opened
    BY DEF IInv
  <2> QED BY <2>1, <2>2 DEF GcFree, FILEs
<1>5. opened' = {file'[c] : c \in Cells} \ {NULL}
  <2>1. ASSUME NEW g \in opened' PROVE g # NULL /\ \E c \in Cells : file'[c] = g
    <3>1. PICK c \in Cells : file[c] = g /\ g # NULL
      BY <1>4, <2>1 DEF IInv
    <3>2. c \notin Z
      BY <1>4, <2>1, <3>1
    <3> QED BY <1>1, <3>1, <3>2
  <2>2. ASSUME NEW c \in Cells, file'[c] # NULL PROVE file'[c] \in opened'
    <3>1. c \notin Z /\ file'[c] = file[c]
      BY <1>1, <2>2
    <3>2. file[c] \notin {file[d] : d \in Z}
      BY <2>2, <3>1 DEF IInv
    <3> QED BY <1>4, <2>2, <3>1, <3>2 DEF IInv
  <2> QED BY <2>1, <2>2
<1> QED BY <1>1, <1>2, <1>3, <1>5

(* A collection: what is kept has all that the loads have. *)
LEMMA Collects ==
    ASSUME IInv, NoneLoads, MarkAndSweep
    PROVE  IInv'
<1>1. PICK stale \in SUBSET (Cells \ (Free \cup Roots)) :
         /\ type' = [c \in Cells |-> IF c \in Roots \cup stale THEN type[c] ELSE "free"]
         /\ GcFree((Cells \ Free) \ (Roots \cup stale))
         /\ UNCHANGED held
  BY DEF MarkAndSweep
<1>2. PICK kept : kept = Roots \cup stale
  OBVIOUS
<1>3. PICK swept : swept = (Cells \ Free) \ kept
  OBVIOUS
<1>4. swept \in SUBSET Cells /\ GcFree(swept)
  BY <1>1, <1>2, <1>3
<1>5. /\ file' \in [Cells -> Files \cup {NULL}]
      /\ \A c \in Cells : file'[c] = IF c \in swept THEN NULL ELSE file[c]
      /\ \A c, d \in Cells : file'[c] = file'[d] /\ file'[c] # NULL => c = d
      /\ opened' = {file'[c] : c \in Cells} \ {NULL}
  BY <1>4, Frees
<1>6. \A c \in Cells : type'[c] = IF c \in kept THEN type[c] ELSE "free"
  BY <1>1, <1>2
<1>7. held \subseteq kept
  BY <1>2 DEF Roots
<1>8. ASSUME NEW c \in Cells, file'[c] # NULL PROVE type'[c] = "c_file"
  <2>1. c \notin swept /\ type[c] = "c_file"
    BY <1>5, <1>8 DEF IInv
  <2>2. c \notin Free
    BY <2>1 DEF Free
  <2> QED BY <1>3, <1>6, <2>1, <2>2
<1>9. ASSUME NEW d \in LoadCall, d \in Range(calls), Reads(d) PROVE Reads(d)'
  <2>1. d.cell \in Cells /\ d.cell # NULL
    BY NullAssumption DEF LoadCall
  <2>2. d.cell \in InCalls("cell")
    <3>1. PICK i \in DOMAIN calls : d = calls[i]
      BY <1>9 DEF Range
    <3>2. "cell" \in DOMAIN calls[i]
      BY <3>1 DEF LoadCall
    <3> QED BY <3>1, <3>2 DEF InCalls
  <2>3. d.cell \in kept
    BY <1>2, <2>1, <2>2 DEF Roots
  <2> QED BY <1>1, <1>3, <1>5, <1>6, <1>9, <2>1, <2>3 DEF Reads
<1>10. DOMAIN type' = Cells
  BY <1>1
<1>11. held' \subseteq Cells /\ \A c \in held' : type'[c] # "free"
  BY <1>1, <1>6, <1>7 DEF IInv, Free
<1> QED BY <1>5, <1>8, <1>9, <1>10, <1>11, Settles

-----------------------------------------------------------------------------
(* Each step keeps the invariant. *)

LEMMA Starts == Init => IInv
<1> SUFFICES ASSUME Init PROVE IInv
  OBVIOUS
<1>1. /\ calls = <<>> /\ type = [c \in Cells |-> "free"] /\ file = [c \in Cells |-> NULL]
      /\ held = {} /\ opened = {}
  BY DEF Init
<1>2. Stack /\ Apart(calls) /\ Range(calls) = {}
  <2>1. calls \in Seq({})
    BY <1>1
  <2> QED BY <1>1, <2>1 DEF Stack, Range, Apart
<1> QED BY <1>1, <1>2 DEF IInv

LEMMA GetsOne ==
    ASSUME IInv, NEW call, NEW c, Gets(call, c)
    PROVE  NoneLoads /\ c \in Free
BY Remain DEF Gets

(* The kinds of arrays that are being made. *)
LEMMA KindOf ==
    ASSUME IInv, NEW call \in ArrayCalls
    PROVE  call.kind \in Kinds /\ call.kind # "free"
<1>1. call.kind \in Kinds
  <2>1. CASE Evaluating
    <3>1. PICK k \in Kinds, s \in Sources : call = Array(k, s)
      BY <2>1 DEF ArrayCalls
    <3> QED BY <3>1 DEF Array
  <2>2. CASE ~Evaluating
    <3>1. Innermost.proc = "array" /\ call = [Innermost EXCEPT !.gc = FALSE]
      BY <2>2 DEF ArrayCalls
    <3>2. PICK d \in Range(calls) : d = Innermost
      BY <2>2, Inside DEF IInv
    <3>3. d \in ArrayCall
      <4>1. d \notin LoadCall
        BY <3>1, <3>2 DEF LoadCall
      <4> QED BY <3>1, <3>2, <4>1, WhichLoad DEF IInv
    <3>4. call = [d EXCEPT !.gc = FALSE] /\ d.kind \in Kinds /\ call.kind = d.kind
      BY <3>1, <3>2, <3>3 DEF ArrayCall
    <3> QED BY <3>4
  <2> QED BY <2>1, <2>2
<1> QED BY <1>1, KindsAssumption

LEMMA AsksSafely ==
    ASSUME IInv,
           \/ \E k \in Kinds, s \in Sources : Asks(Array(k, s))
           \/ \E l \in BOOLEAN : Asks(Open(l))
           \/ \E whole \in BOOLEAN, b \in Buffers : BeginFread(whole, b)
    PROVE  IInv'
<1>1. ASSUME NEW k \in Kinds, NEW s \in Sources, Asks(Array(k, s)) PROVE IInv'
  <2>1. s \in Cells \cup {NULL} /\ (s \in Cells => file[s] \in Files \cup {NULL})
    BY DEF Sources, IInv
  <2>2. Array(k, s) \in Plain
    BY <2>1 DEF Array, Plain, ArrayCall
  <2> QED BY <1>1, <2>2, Remain, Stays DEF Asks, resourceVars, cellVars, poolVars
<1>2. ASSUME NEW l \in BOOLEAN, Asks(Open(l)) PROVE IInv'
  <2>1. Open(l) \in Plain
    BY DEF Open, Plain, FopenCall
  <2> QED BY <1>2, <2>1, Remain, Stays DEF Asks, resourceVars, cellVars, poolVars
<1>3. ASSUME NEW whole \in BOOLEAN, NEW b \in Buffers, BeginFread(whole, b) PROVE IInv'
  <2>1. Fread(whole, b) \in Plain
    BY DEF Fread, Plain, FreadCall
  <2> QED BY <1>3, <2>1, Remain, Stays DEF BeginFread, cellVars
<1> QED BY <1>1, <1>2, <1>3

LEMMA MakesSafely ==
    ASSUME IInv, NEW c \in Cells,
           \/ \E call \in ArrayCalls : MakeArray(call, c)
           \/ \E call \in ArrayCalls \cup PartCalls : MakeArrayFails(call, c)
           \/ \E call \in FreadCalls : EndFread(call.whole, call.buffer, c)
           \/ MakePlain(c)
    PROVE  IInv'
<1>1. ASSUME NEW call \in ArrayCalls, MakeArray(call, c) PROVE IInv'
  <2>1. NoneLoads /\ c \in Free /\ call.kind # "free"
    BY <1>1, GetsOne, KindOf DEF MakeArray
  <2> QED BY <1>1, <2>1, Takes DEF MakeArray
<1>2. ASSUME NEW call, MakeArrayFails(call, c) PROVE IInv'
  <2>1. NoneLoads /\ c \in Free
    BY <1>2, Remain DEF MakeArrayFails, Errs
  <2> QED BY <1>2, <2>1, Takes DEF MakeArrayFails, poolVars
<1>3. ASSUME NEW whole, NEW b, EndFread(whole, b, c) PROVE IInv'
  <2>1. NoneLoads /\ c \in Free
    BY <1>3, GetsOne DEF EndFread
  <2>2. type' = [type EXCEPT ![c] = "string"] /\ UNCHANGED <<file, opened>> /\ held' = held \cup {c}
    BY <1>3 DEF EndFread
  <2> QED BY <2>1, <2>2, Takes
<1>4. ASSUME MakePlain(c) PROVE IInv'
  <2>1. NoneLoads /\ c \in Free
    BY <1>4, Remain DEF MakePlain
  <2> QED BY <1>4, <2>1, Takes DEF MakePlain, poolVars
<1> QED BY <1>1, <1>2, <1>3, <1>4

LEMMA OpensSafely ==
    ASSUME IInv, NEW loading \in BOOLEAN, NEW c \in Cells, NEW f \in Files, NEW b \in Buffers,
           Fopen(loading, c, f, b)
    PROVE  IInv'
<1>1. /\ c \in Free /\ f \in {NULL} \cup (Files \ opened) /\ f # NULL
      /\ type' = [type EXCEPT ![c] = "c_file"] /\ file' = [file EXCEPT ![c] = f]
      /\ opened' = opened \cup ({f} \ {NULL})
  BY NullAssumption DEF Fopen
<1>2. /\ c \notin held /\ file'[c] = f /\ type'[c] = "c_file"
      /\ DOMAIN type' = Cells /\ file' \in [Cells -> Files \cup {NULL}]
      /\ \A d \in held : d \in Cells /\ type'[d] # "free"
      /\ \A d \in Cells : file'[d] # NULL => type'[d] = "c_file"
      /\ \A d, e \in Cells : file'[d] = file'[e] /\ file'[d] # NULL => d = e
      /\ opened' = {file'[d] : d \in Cells} \ {NULL}
      /\ \A d \in LoadCall : Reads(d) => /\ d.cell # c
                                         /\ type'[d.cell] = "c_file" /\ file'[d.cell] # NULL
  BY <1>1, Opens
<1>3. CASE ~loading
  <2>1. NoneLoads
    BY <1>3, Remain DEF Fopen, Outside, Finish
  <2>2. held' = held \cup {c}
    BY <1>3 DEF Fopen
  <2>3. \A d \in LoadCall : Reads(d) => Reads(d)'
    BY <1>2, <2>2 DEF Reads
  <2>4. held' \subseteq Cells /\ \A d \in held' : type'[d] # "free"
    BY <1>2, <2>2
  <2> QED BY <1>2, <2>1, <2>3, <2>4, Settles
<1>4. CASE loading
  <2>1. calls' = Outside \o <<Load(c), AfterGc>> /\ UNCHANGED held
    BY <1>4 DEF Fopen
  <2>2. PICK S : calls \in Seq(S)
    BY DEF IInv, Stack
  <2>3. PICK s : s = Outside
    OBVIOUS
  <2>4. s \in Seq(S) /\ Apart(s) /\ Range(s) \subseteq Range(calls)
    <3>1. CASE Evaluating
      BY <2>2, <2>3, <3>1 DEF Outside, IInv
    <3>2. CASE ~Evaluating
      <4>1. Len(calls) - 1 \in 0..Len(calls)
        BY <2>2, <3>2, Inside DEF IInv
      <4> QED BY <2>2, <2>3, <3>2, <4>1, Left, ApartPrefix DEF Outside, Outer, IInv
    <3> QED BY <3>1, <3>2
  <2>5. PICK load : load = Load(c)
    OBVIOUS
  <2>6. load \in LoadCall /\ load.cell = c
    BY <2>5 DEF Load, LoadCall
  <2>7. \A d \in Range(s) : d \in Plain \/ (d \in LoadCall /\ Reads(d))
    BY <2>4 DEF IInv
  <2>8. \A d \in Range(s) : Loading(d) => d.cell # c
    BY <1>2, <2>7, WhichLoad
  <2>9. Apart(Append(s, load))
    BY <2>4, <2>6, <2>8, ApartAppend
  <2>10. PICK T : Append(s, load) \in Seq(T)
    BY <2>4, Entered
  <2>11. Apart(Append(Append(s, load), AfterGc))
    <3>1. ~Loading(AfterGc)
      BY DEF Loading, AfterGc
    <3> QED BY <2>9, <2>10, <3>1, ApartAppend
  <2>12. calls' = Append(Append(s, load), AfterGc) /\ calls' = s \o <<load, AfterGc>>
    BY <2>1, <2>3, <2>4, <2>5, TwoMore
  <2>13. /\ \E U : s \o <<load, AfterGc>> \in Seq(U)
         /\ Range(s \o <<load, AfterGc>>) = Range(s) \cup {load, AfterGc}
    BY <2>4, EnteredTwo
  <2>14. Stack' /\ Apart(calls)' /\ Range(calls)' = Range(s) \cup {load, AfterGc}
    BY <2>11, <2>12, <2>13 DEF Stack, Apart, Range
  <2>15. \A d \in LoadCall : Reads(d) \/ d = load => Reads(d)'
    BY <1>1, <1>2, <2>1, <2>6 DEF Reads
  <2>16. \A d \in Range(calls)' : d \in Plain \/ (d \in LoadCall /\ Reads(d)')
    <3>1. AfterGc \in Plain
      BY DEF Plain
    <3> QED BY <2>6, <2>7, <2>14, <2>15, <3>1
  <2>17. held' \subseteq Cells \ Free'
    BY <1>2, <2>1 DEF Free
  <2> QED BY <1>2, <2>14, <2>16, <2>17 DEF IInv
<1> QED BY <1>3, <1>4

LEMMA FailsSafely ==
    ASSUME IInv, NEW loading \in BOOLEAN, NEW c \in Cells, FopenFails(loading, c)
    PROVE  IInv'
<1>1. PICK f \in {NULL} \cup (Files \ opened) :
         file' = [file EXCEPT ![c] = f] /\ opened' = opened \cup ({f} \ {NULL})
  BY DEF FopenFails
<1>2. c \in Free /\ type' = [type EXCEPT ![c] = "c_file"] /\ UNCHANGED held /\ NoneLoads
  BY Remain DEF FopenFails, Errs
<1>3. /\ DOMAIN type' = Cells /\ file' \in [Cells -> Files \cup {NULL}]
      /\ \A d \in held : d \in Cells /\ type'[d] # "free"
      /\ \A d \in Cells : file'[d] # NULL => type'[d] = "c_file"
      /\ \A d, e \in Cells : file'[d] = file'[e] /\ file'[d] # NULL => d = e
      /\ opened' = {file'[d] : d \in Cells} \ {NULL}
      /\ \A d \in LoadCall : Reads(d) => /\ d.cell # c
                                         /\ type'[d.cell] = "c_file" /\ file'[d.cell] # NULL
  BY <1>1, <1>2, Opens
<1>4. \A d \in LoadCall : Reads(d) => Reads(d)'
  BY <1>2, <1>3 DEF Reads
<1>5. held' \subseteq Cells /\ \A d \in held' : type'[d] # "free"
  BY <1>2, <1>3
<1> QED BY <1>2, <1>3, <1>4, <1>5, Settles

LEMMA ClosesSafely ==
    ASSUME IInv, NEW c \in Cells, Fclose(c)
    PROVE  IInv'
<1>1. c \in held /\ GcFree({c}) /\ UNCHANGED <<calls, type, held>>
  BY DEF Fclose
<1>2. /\ file' \in [Cells -> Files \cup {NULL}]
      /\ \A d \in Cells : file'[d] = IF d \in {c} THEN NULL ELSE file[d]
      /\ \A d, e \in Cells : file'[d] = file'[e] /\ file'[d] # NULL => d = e
      /\ opened' = {file'[d] : d \in Cells} \ {NULL}
  BY <1>1, Frees
<1>3. ASSUME NEW d \in LoadCall, Reads(d) PROVE Reads(d)'
  <2>1. d.cell \in Cells /\ d.cell # c
    BY <1>1, <1>3 DEF LoadCall, Reads
  <2> QED BY <1>1, <1>2, <1>3, <2>1 DEF Reads
<1>4. /\ DOMAIN type' = Cells /\ held' \subseteq Cells
      /\ \A d \in held' : type'[d] # "free"
      /\ \A d \in Cells : file'[d] # NULL => type'[d] = "c_file"
  BY <1>1, <1>2 DEF IInv, Free
<1>5. NoneLoads
  BY <1>1, Remain
<1> QED BY <1>2, <1>3, <1>4, <1>5, Settles

LEMMA EndsSafely ==
    ASSUME IInv, EndLoad
    PROVE  IInv'
<1>1. ~Evaluating /\ Innermost.proc = "vload"
  BY DEF EndLoad, Evaluating, AfterGc
<1>2. PICK S : calls \in Seq(S)
  BY DEF IInv, Stack
<1>3. PICK load \in LoadCall : load = Innermost /\ load = calls[Len(calls)] /\ Reads(load)
  <2>1. Innermost \in Range(calls) /\ Innermost = calls[Len(calls)]
    BY <1>1, Inside DEF IInv
  <2>2. Innermost \notin Plain
    BY <1>1, WhichLoad DEF Loading
  <2> QED BY <2>1, <2>2 DEF IInv
<1>4. PICK c \in Cells : c = load.cell
  BY <1>3 DEF LoadCall
<1>5. GcFree({c}) /\ Finish /\ UNCHANGED <<type, held>>
  BY <1>3, <1>4 DEF EndLoad
<1>6. /\ file' \in [Cells -> Files \cup {NULL}]
      /\ \A d \in Cells : file'[d] = IF d \in {c} THEN NULL ELSE file[d]
      /\ \A d, e \in Cells : file'[d] = file'[e] /\ file'[d] # NULL => d = e
      /\ opened' = {file'[d] : d \in Cells} \ {NULL}
  BY <1>5, Frees
<1>7. NoneLoads
  BY <1>1, <1>5, Remain
<1>8. ASSUME NEW d \in LoadCall, d \in Range(calls)', Reads(d) PROVE Reads(d)'
  <2>1. calls # <<>> /\ calls' = SubSeq(calls, 1, Len(calls) - 1)
    BY <1>1, <1>5, Inside DEF IInv, Finish, Outer
  <2>2. PICK i \in DOMAIN calls : i # Len(calls) /\ calls[i] = d
    <3>1. PICK i \in DOMAIN calls' : d = calls'[i]
      BY <1>8 DEF Range
    <3>2. i \in 1..(Len(calls) - 1) /\ calls'[i] = calls[i]
      BY <1>2, <2>1, <3>1
    <3>3. i \in DOMAIN calls /\ i # Len(calls)
      BY <1>2, <2>1, <3>2
    <3> QED BY <3>1, <3>2, <3>3
  <2>3. Len(calls) \in DOMAIN calls
    BY <1>2, <2>1
  <2>4. d.cell # c
    BY <1>3, <1>4, <2>2, <2>3, WhichLoad DEF IInv, Apart
  <2>5. d.cell \in Cells
    BY DEF LoadCall
  <2> QED BY <1>5, <1>6, <1>8, <2>4, <2>5 DEF Reads
<1>9. /\ DOMAIN type' = Cells /\ held' \subseteq Cells
      /\ \A d \in held' : type'[d] # "free"
      /\ \A d \in Cells : file'[d] # NULL => type'[d] = "c_file"
  BY <1>5, <1>6 DEF IInv, Free
<1> QED BY <1>6, <1>7, <1>8, <1>9, Settles

LEMMA Steps == IInv /\ [Next]_vars => IInv'
<1> SUFFICES ASSUME IInv, [Next]_vars PROVE IInv'
  OBVIOUS
<1>1. CASE \/ \E k \in Kinds, s \in Sources : Asks(Array(k, s))
           \/ \E l \in BOOLEAN : Asks(Open(l))
           \/ \E whole \in BOOLEAN, b \in Buffers : BeginFread(whole, b)
  BY <1>1, AsksSafely
<1>2. ASSUME NEW c \in Cells,
             \/ \E call \in ArrayCalls : MakeArray(call, c)
             \/ \E call \in ArrayCalls \cup PartCalls : MakeArrayFails(call, c)
             \/ \E call \in FreadCalls : EndFread(call.whole, call.buffer, c)
             \/ MakePlain(c)
      PROVE  IInv'
  BY <1>2, MakesSafely
<1>3. ASSUME NEW c \in Cells, NEW l \in BOOLEAN, NEW f \in Files, NEW b \in Buffers,
             Fopen(l, c, f, b)
      PROVE  IInv'
  BY <1>3, OpensSafely
<1>4. ASSUME NEW c \in Cells, NEW l \in BOOLEAN, FopenFails(l, c) PROVE IInv'
  BY <1>4, FailsSafely
<1>5. ASSUME NEW c \in Cells, Fclose(c) PROVE IInv'
  BY <1>5, ClosesSafely
<1>6. ASSUME NEW c \in Cells, Drop(c) PROVE IInv'
  <2>1. NoneLoads
    BY <1>6, Remain DEF Drop
  <2> QED BY <1>6, <2>1, Stays DEF Drop, cellVars, poolVars
<1>7. CASE EndLoad
  BY <1>7, EndsSafely
<1>8. CASE GcForNewcell
  <2>1. NoneLoads /\ MarkAndSweep
    BY <1>8, Remain DEF GcForNewcell
  <2> QED BY <2>1, Collects
<1>9. CASE UserGc
  <2>1. NoneLoads /\ MarkAndSweep
    BY <1>9, Remain DEF UserGc
  <2> QED BY <2>1, Collects
<1>10. CASE FormEndsHere
  <2>1. NoneLoads
    BY <1>10, Remain DEF FormEndsHere
  <2> QED BY <1>10, <2>1, Stays DEF FormEndsHere, resourceVars, cellVars, poolVars
<1>11. CASE Leave
  <2>1. NoneLoads
    BY <1>11, Remain DEF Leave
  <2> QED BY <1>11, <2>1, Stays DEF Leave, cellVars, poolVars
<1>12. CASE UNCHANGED vars
  <2>1. NoneLoads
    BY <1>12, Remain DEF vars
  <2> QED BY <1>12, <2>1, Stays DEF vars, resourceVars, cellVars, poolVars
<1> QED BY <1>1, <1>2, <1>3, <1>4, <1>5, <1>6, <1>7, <1>8, <1>9, <1>10, <1>11, <1>12 DEF Next

LEMMA Owned ==
    ASSUME IInv
    PROVE  FilesOwned
<1>1. opened = FILEs(Cells)
  BY DEF IInv, FILEs
<1>2. ASSUME NEW i \in DOMAIN calls, calls[i].proc = "vload" PROVE file[calls[i].cell] \in opened
  <2>1. PICK d \in LoadCall : d = calls[i] /\ Reads(d)
    <3>1. calls[i] \in Range(calls)
      BY DEF Range
    <3>2. calls[i] \notin Plain
      BY <1>2, WhichLoad DEF Loading
    <3> QED BY <3>1, <3>2 DEF IInv
  <2>2. d.cell \in Cells
    BY DEF LoadCall
  <2> QED BY <2>1, <2>2 DEF IInv, Reads
<1> QED BY <1>1, <1>2 DEF IInv, FilesOwned

-----------------------------------------------------------------------------
(* Every open FILE is that of one cell, which will close it, whatever      *)
(* fails, collects or is left in the middle; and no load has its file      *)
(* closed under it, by a sweep or by the forms it evaluates.               *)
THEOREM FilesAreOwned == Spec => []FilesOwned
<1>1. Init => IInv
  BY Starts
<1>2. IInv /\ [Next]_vars => IInv'
  BY Steps
<1>3. IInv => FilesOwned
  BY Owned
<1> QED BY <1>1, <1>2, <1>3, PTL DEF Spec

-----------------------------------------------------------------------------
(* Data: who has each buffer that is not free.                             *)
(*                                                                         *)
(* The buffers of the calls of lfread are all different, and neither those *)
(* nor the lost ones are the data of a cell that is not torn.              *)

Reading(d) == d.proc = "lfread"
Fills(s) == {s[i].buffer : i \in {j \in DOMAIN s : Reading(s[j])}}
Unshared(s) == \A i, j \in DOMAIN s :
                  Reading(s[i]) /\ Reading(s[j]) /\ s[i].buffer = s[j].buffer => i = j

(* The buffers that belong to no call and are not lost. *)
Settled == malloced \ (lost \cup Fills(calls))

Owning ==
    /\ DOMAIN word = Cells
    /\ Unshared(calls)
    /\ lost \cap Fills(calls) = {}
    /\ lost \cup Fills(calls) \subseteq malloced
    /\ \A c \in Sound : word[c] \in Settled
    /\ \A c, d \in Sound : word[c] = word[d] => c = d
    /\ malloced \subseteq Data(Cells) \cup Fills(calls) \cup lost

LEMMA FillsAppend ==
    ASSUME NEW S, NEW s \in Seq(S), NEW c
    PROVE  /\ Reading(c) => Fills(Append(s, c)) = Fills(s) \cup {c.buffer}
           /\ ~Reading(c) => Fills(Append(s, c)) = Fills(s)
           /\ Unshared(s) /\ (Reading(c) => c.buffer \notin Fills(s)) => Unshared(Append(s, c))
<1>1. s \in Seq(S \cup {c})
  <2>1. \A i \in 1..Len(s) : s[i] \in S \cup {c}
    OBVIOUS
  <2> QED BY <2>1
<1> PICK t : t = Append(s, c)
  OBVIOUS
<1>2. /\ t \in Seq(S \cup {c}) /\ Len(t) = Len(s) + 1
      /\ \A i \in 1..Len(s) : t[i] = s[i]
      /\ t[Len(s) + 1] = c
  BY <1>1, AppendProperties
<1> PICK n \in Nat : n = Len(s)
  BY <1>1
<1>3. DOMAIN t = 1..(n + 1) /\ DOMAIN s = 1..n
  BY <1>1, <1>2
<1>4. n + 1 \in DOMAIN t /\ n + 1 \notin DOMAIN s
  BY <1>3
<1>5. \A i : i \in DOMAIN t <=> (i = n + 1 \/ i \in DOMAIN s)
  BY <1>3
<1>6. t[n + 1] = c /\ \A i \in DOMAIN s : t[i] = s[i]
  BY <1>2, <1>3
<1>7. \A b : b \in Fills(t) <=> (b \in Fills(s) \/ (Reading(c) /\ b = c.buffer))
  BY <1>4, <1>5, <1>6 DEF Fills
<1>8. Unshared(s) /\ (Reading(c) => c.buffer \notin Fills(s)) => Unshared(t)
  BY <1>4, <1>5, <1>6 DEF Unshared, Fills
<1>9. Reading(c) => Fills(t) = Fills(s) \cup {c.buffer}
  BY <1>7
<1>10. ~Reading(c) => Fills(t) = Fills(s)
  BY <1>7
<1> QED BY <1>8, <1>9, <1>10

LEMMA FillsPrefix ==
    ASSUME NEW S, NEW s \in Seq(S), NEW n \in 0..Len(s), Unshared(s)
    PROVE  LET left == {s[i].buffer : i \in {j \in DOMAIN s : j > n /\ Reading(s[j])}}
           IN  /\ Unshared(SubSeq(s, 1, n))
               /\ Fills(s) = Fills(SubSeq(s, 1, n)) \cup left
               /\ Fills(SubSeq(s, 1, n)) \cap left = {}
<1> DEFINE left == {s[i].buffer : i \in {j \in DOMAIN s : j > n /\ Reading(s[j])}}
<1> PICK t : t = SubSeq(s, 1, n)
  OBVIOUS
<1>1. \A i \in 1..n : s[i] \in S
  OBVIOUS
<1>2. /\ t \in Seq(S) /\ Len(t) = n
      /\ \A i \in 1..n : t[i] = s[i]
  BY <1>1, SubSeqProperties
<1>3. DOMAIN t = 1..n /\ DOMAIN s = 1..Len(s) /\ Len(s) \in Nat /\ n <= Len(s)
  BY <1>2
<1>4. \A i \in DOMAIN s : i \in DOMAIN t <=> ~(i > n)
  BY <1>3
<1>5. \A i \in DOMAIN t : i \in DOMAIN s /\ t[i] = s[i] /\ ~(i > n)
  BY <1>2, <1>3
<1>6. Unshared(t)
  BY <1>5 DEF Unshared
<1>7. \A b : b \in Fills(s) <=> (b \in Fills(t) \/ b \in left)
  BY <1>4, <1>5 DEF Fills
<1>8. \A b : ~(b \in Fills(t) /\ b \in left)
  BY <1>5 DEF Fills, Unshared
<1> QED BY <1>6, <1>7, <1>8

(* In a call, the buffer is that of a call of lfread. *)
LEMMA InFills ==
    ASSUME IInv
    PROVE  /\ InCalls("buffer") = Fills(calls)
           /\ \A d \in Range(calls) : "buffer" \in DOMAIN d <=> Reading(d)
<1>1. ASSUME NEW d \in Range(calls) PROVE "buffer" \in DOMAIN d <=> Reading(d)
  <2>1. d \in ArrayCall => "buffer" \notin DOMAIN d /\ ~Reading(d)
    BY DEF ArrayCall, Reading
  <2>2. d \in FreadCall => "buffer" \in DOMAIN d /\ Reading(d)
    BY DEF FreadCall, Reading
  <2>3. d \in FopenCall => "buffer" \notin DOMAIN d /\ ~Reading(d)
    BY DEF FopenCall, Reading
  <2>4. d = AfterGc => "buffer" \notin DOMAIN d /\ ~Reading(d)
    BY DEF AfterGc, Reading
  <2>5. d \in LoadCall => "buffer" \notin DOMAIN d /\ ~Reading(d)
    BY DEF LoadCall, Reading
  <2> QED BY <2>1, <2>2, <2>3, <2>4, <2>5 DEF IInv, Plain
<1>2. \A i \in DOMAIN calls : "buffer" \in DOMAIN calls[i] <=> Reading(calls[i])
  BY <1>1 DEF Range
<1>3. InCalls("buffer") = {calls[i].buffer : i \in {j \in DOMAIN calls : Reading(calls[j])}}
  BY <1>2 DEF InCalls
<1> QED BY <1>1, <1>3 DEF Fills

(* What Owning says, in the words of the property. *)
LEMMA OwningOwns == ASSUME IInv, crash = No => Owning PROVE BuffersOwned
BY InFills DEF Owning, BuffersOwned, Settled

(* How the steps of a call change who fills which buffer. *)
SameFills == Unshared(calls') /\ Fills(calls') = Fills(calls)

(* A sequence that is not empty, as what is below its last element. *)
LEMMA LastOf ==
    ASSUME NEW S, NEW s \in Seq(S), s # <<>>
    PROVE  /\ SubSeq(s, 1, Len(s) - 1) \in Seq(S)
           /\ Len(s) - 1 \in 0..Len(s)
           /\ Len(s) \in DOMAIN s
           /\ s = Append(SubSeq(s, 1, Len(s) - 1), s[Len(s)])
<1>1. Len(s) \in Nat /\ Len(s) >= 1
  OBVIOUS
<1> QED BY <1>1

LEMMA CallsFill ==
    ASSUME IInv, Unshared(calls)
    PROVE  /\ UNCHANGED calls => SameFills
           /\ calls' = <<>> => Unshared(calls') /\ Fills(calls') = {}
           /\ \A c : Begin(c) /\ ~Reading(c) => SameFills
           /\ \A c : Begin(c) /\ Reading(c) /\ c.buffer \notin Fills(calls) =>
                 Unshared(calls') /\ Fills(calls') = Fills(calls) \cup {c.buffer}
<1>1. PICK S : calls \in Seq(S)
  BY DEF IInv, Stack
<1>2. UNCHANGED calls => SameFills
  BY DEF SameFills
<1>3. calls' = <<>> => Unshared(calls') /\ Fills(calls') = {}
  BY DEF Unshared, Fills
<1>4. ASSUME NEW c, Begin(c), ~Reading(c) PROVE SameFills
  <2>1. calls' = Append(calls, c)
    BY <1>4 DEF Begin
  <2> QED BY <1>1, <1>4, <2>1, FillsAppend DEF SameFills
<1>5. ASSUME NEW c, Begin(c), Reading(c), c.buffer \notin Fills(calls)
      PROVE  Unshared(calls') /\ Fills(calls') = Fills(calls) \cup {c.buffer}
  <2>1. calls' = Append(calls, c)
    BY <1>5 DEF Begin
  <2> QED BY <1>1, <1>5, <2>1, FillsAppend
<1> QED BY <1>2, <1>3, <1>4, <1>5

LEMMA InnerFills ==
    ASSUME IInv, Unshared(calls), calls # <<>>
    PROVE  LET d == calls[Len(calls)]
           IN  /\ Unshared(Outer)
               /\ ~Reading(d) => Fills(Outer) = Fills(calls)
               /\ Reading(d) => /\ d.buffer \in Fills(calls)
                                /\ Fills(Outer) = Fills(calls) \ {d.buffer}
<1>1. PICK S : calls \in Seq(S)
  BY DEF IInv, Stack
<1> PICK n : n = Len(calls)
  OBVIOUS
<1> PICK d : d = calls[n]
  OBVIOUS
<1> DEFINE left == {calls[i].buffer : i \in {j \in DOMAIN calls : j > n - 1 /\ Reading(calls[j])}}
<1>2. n - 1 \in 0..Len(calls) /\ Outer = SubSeq(calls, 1, n - 1)
      /\ n \in DOMAIN calls /\ n \in Nat /\ DOMAIN calls = 1..n
  BY <1>1, LastOf DEF Outer
<1>3. /\ Unshared(Outer) /\ Fills(calls) = Fills(Outer) \cup left /\ Fills(Outer) \cap left = {}
  BY <1>1, <1>2, FillsPrefix
<1>4. \A j \in DOMAIN calls : j > n - 1 <=> j = n
  BY <1>2
<1>5. left = IF Reading(d) THEN {d.buffer} ELSE {}
  BY <1>2, <1>4
<1> HIDE DEF left
<1> QED BY <1>3, <1>5

LEMMA CallsEndFill ==
    ASSUME IInv, Unshared(calls)
    PROVE  /\ ~Evaluating /\ Finish /\ ~Reading(Innermost) => SameFills
           /\ ~Evaluating /\ Finish /\ Reading(Innermost) =>
                 /\ Innermost.buffer \in Fills(calls) /\ Unshared(calls')
                 /\ Fills(calls') = Fills(calls) \ {Innermost.buffer}
           /\ FormEnds => SameFills
           /\ Collect => SameFills
<1>1. PICK S : calls \in Seq(S)
  BY DEF IInv, Stack
<1>2. ~Reading(AfterGc)
  BY DEF Reading, AfterGc
<1>3. ~Evaluating => calls # <<>>
  BY DEF Evaluating, Innermost
<1>4. calls # <<>> => Innermost = calls[Len(calls)]
  BY DEF Innermost
<1>5. ~Evaluating /\ Finish /\ ~Reading(Innermost) => SameFills
  BY <1>3, <1>4, InnerFills DEF Finish, SameFills
<1>6. ~Evaluating /\ Finish /\ Reading(Innermost) =>
                 /\ Innermost.buffer \in Fills(calls) /\ Unshared(calls')
                 /\ Fills(calls') = Fills(calls) \ {Innermost.buffer}
  BY <1>3, <1>4, InnerFills DEF Finish
<1>7. FormEnds => SameFills
  BY <1>2, <1>4, InnerFills DEF FormEnds, Finish, SameFills
<1>8. ASSUME Collect PROVE SameFills
  <2>1. calls # <<>> /\ ~Evaluating
    BY <1>3, <1>8 DEF Collect
  <2>2. PICK d : d = Innermost
    OBVIOUS
  <2>3. PICK e : e = [d EXCEPT !.gc = TRUE]
    OBVIOUS
  <2>4. d \in Range(calls)
    BY <2>1, <2>2, Inside DEF IInv
  <2>5. (Reading(e) <=> Reading(d)) /\ (Reading(d) => e.buffer = d.buffer)
    <3>1. d \in FreadCall => Reading(d) /\ Reading(e) /\ e.buffer = d.buffer
      BY <2>3 DEF FreadCall, Reading
    <3>2. d \in ArrayCall => ~Reading(d) /\ ~Reading(e)
      BY <2>3 DEF ArrayCall, Reading
    <3>3. d \in FopenCall => ~Reading(d) /\ ~Reading(e)
      BY <2>3 DEF FopenCall, Reading
    <3>4. d = AfterGc => ~Reading(d) /\ ~Reading(e)
      BY <2>3 DEF AfterGc, Reading
    <3>5. d \in LoadCall => ~Reading(d) /\ ~Reading(e)
      BY <2>3 DEF LoadCall, Reading
    <3> QED BY <2>4, <3>1, <3>2, <3>3, <3>4, <3>5 DEF IInv, Plain
  <2>6. PICK s \in Seq(S) : s = Outer
    BY <1>1, <2>1, LastOf DEF Outer
  <2>7. calls' = Append(Append(s, e), AfterGc)
    <3>1. calls' = s \o <<e, AfterGc>>
      BY <1>8, <2>2, <2>3, <2>6 DEF Collect
    <3>2. s \o <<e, AfterGc>> = Append(Append(s, e), AfterGc)
      BY TwoMore
    <3> QED BY <3>1, <3>2
  <2>8. Unshared(Append(s, e)) /\ Fills(Append(s, e)) = Fills(calls)
    <3>1. /\ Unshared(s)
          /\ ~Reading(d) => Fills(s) = Fills(calls)
          /\ Reading(d) => d.buffer \in Fills(calls) /\ Fills(s) = Fills(calls) \ {d.buffer}
      BY <1>4, <2>1, <2>2, <2>6, InnerFills
    <3>2. CASE Reading(e)
      <4>1. e.buffer \notin Fills(s) /\ Fills(calls) = Fills(s) \cup {e.buffer}
        BY <2>5, <3>1, <3>2
      <4> QED BY <3>1, <3>2, <4>1, FillsAppend
    <3>3. CASE ~Reading(e)
      BY <2>5, <3>1, <3>3, FillsAppend
    <3> QED BY <3>2, <3>3
  <2>9. PICK T : Append(s, e) \in Seq(T)
    BY Entered
  <2> PICK u \in Seq(T) : u = Append(s, e)
    BY <2>9
  <2>10. Unshared(Append(u, AfterGc)) /\ Fills(Append(u, AfterGc)) = Fills(calls)
    BY <1>2, <2>8, FillsAppend
  <2> QED BY <2>7, <2>10 DEF SameFills
<1> QED BY <1>5, <1>6, <1>7, <1>8

LEMMA LeavesFill ==
    ASSUME IInv, Unshared(calls), Leave
    PROVE  /\ Unshared(calls')
           /\ lost' \cup Fills(calls') = lost \cup Fills(calls)
           /\ lost \cap Fills(calls) = {} => lost' \cap Fills(calls') = {}
<1>1. PICK S : calls \in Seq(S)
  BY DEF IInv, Stack
<1>2. PICK n \in 0..Len(calls) : calls' = SubSeq(calls, 1, n)
  <2>1. CASE Fail
    <3>1. SubSeq(calls, 1, 0) = <<>> /\ 0 \in 0..Len(calls)
      BY <1>1
    <3> QED BY <2>1, <3>1 DEF Fail
  <2>2. CASE ThrowOut
    <3>1. PICK n \in 0..(Len(calls) - 1) : calls' = SubSeq(calls, 1, n)
      BY <2>2 DEF ThrowOut
    <3>2. n \in 0..Len(calls)
      BY <1>1
    <3> QED BY <3>1, <3>2
  <2> QED BY <2>1, <2>2 DEF Leave, Unwind
<1> DEFINE left == {calls[i].buffer : i \in {j \in DOMAIN calls : j > n /\ Reading(calls[j])}}
<1>3. /\ Unshared(calls') /\ Fills(calls) = Fills(calls') \cup left
      /\ Fills(calls') \cap left = {}
  BY <1>1, <1>2, FillsPrefix
<1>4. Len(calls') = n
  BY <1>1, <1>2
<1>5. \A j \in DOMAIN calls : "buffer" \in DOMAIN calls[j] <=> Reading(calls[j])
  BY InFills DEF Range
<1>6. lost' = lost \cup left
  BY <1>4, <1>5 DEF Leave
<1> HIDE DEF left
<1> QED BY <1>3, <1>6

-----------------------------------------------------------------------------
(* What becomes of the data. *)

(* Data and the torn cells stay: buffers pass only from a call to the lost *)
(* ones, or belong to a new call.                                          *)
LEMMA DataStays ==
    ASSUME Owning, UNCHANGED <<type, word, torn>>, NEW b,
           \/ malloced' = malloced /\ lost' \cup Fills(calls') = lost \cup Fills(calls)
           \/ /\ b \notin malloced /\ malloced' = malloced \cup {b}
              /\ lost' \cup Fills(calls') = lost \cup Fills(calls) \cup {b},
           Unshared(calls'), lost' \cap Fills(calls') = {}
    PROVE  Owning'
<1>1. Sound' = Sound /\ Data(Cells)' = Data(Cells)
  BY DEF Sound, Data
<1>2. Fills(calls)' = Fills(calls')
  BY DEF Fills
<1>3. Settled' = Settled
  BY <1>2 DEF Settled, Owning
<1>4. \A c \in Sound' : word'[c] \in Settled'
  BY <1>1, <1>3 DEF Owning
<1>5. lost' \cup Fills(calls)' \subseteq malloced'
  BY <1>2 DEF Owning
<1>6. malloced' \subseteq Data(Cells)' \cup Fills(calls)' \cup lost'
  BY <1>1, <1>2 DEF Owning
<1>7. Unshared(calls)'
  BY DEF Unshared
<1> QED BY <1>1, <1>2, <1>4, <1>5, <1>6, <1>7 DEF Owning

(* A free cell is taken and has the word w. *)
LEMMA DataGiven ==
    ASSUME Owning, IInv, NEW c \in Free, NEW t, NEW w,
           type' = [type EXCEPT ![c] = t], DOMAIN word' = Cells, word'[c] = w,
           \A d \in Cells : d # c => word'[d] = word[d],
           torn \subseteq torn', torn' \subseteq torn \cup {c},
           Unshared(calls'), lost' \cap Fills(calls') = {},
           lost' \cup Fills(calls') \subseteq malloced',
           Settled \subseteq malloced' \ (lost' \cup Fills(calls')),
           \A b \in malloced' : \/ b \in Data(Cells) \cup Fills(calls') \cup lost'
                                \/ t \in Owners /\ b = w /\ w # NULL,
           (t \in Owners /\ w # NULL /\ c \notin torn') =>
              /\ w \in malloced' \ (lost' \cup Fills(calls'))
              /\ w \notin Settled
    PROVE  Owning'
<1>1. c \in Cells /\ type[c] = "free" /\ "free" \notin Owners
  BY DEF Free, Owners
<1>2. /\ type'[c] = t /\ word'[c] = w /\ DOMAIN word' = Cells
      /\ \A d \in Cells : d # c => type'[d] = type[d] /\ word'[d] = word[d]
  BY <1>1 DEF IInv, Owning
<1>3. Fills(calls)' = Fills(calls') /\ (Unshared(calls') => Unshared(calls)')
  BY DEF Fills, Unshared
<1>4. Settled' = malloced' \ (lost' \cup Fills(calls'))
  BY <1>3 DEF Settled
<1>5. \A d \in Sound' : d \in Cells /\ (d # c => d \in Sound /\ word'[d] = word[d])
  BY <1>2 DEF Sound
<1>6. c \in Sound' => t \in Owners /\ w # NULL /\ c \notin torn'
  BY <1>1, <1>2 DEF Sound
<1>7. \A d \in Sound : word[d] \in Settled
  BY DEF Owning
<1>8. \A d \in Sound' : word'[d] \in Settled'
  BY <1>2, <1>4, <1>5, <1>6, <1>7
<1>9. \A d, e \in Sound' : word'[d] = word'[e] => d = e
  <2>1. \A d, e \in Sound : word[d] = word[e] => d = e
    BY DEF Owning
  <2>2. \A d \in Sound' : d # c /\ c \in Sound' => word'[d] # word'[c]
    BY <1>2, <1>5, <1>6, <1>7
  <2> QED BY <1>5, <2>1, <2>2
<1>10. \A b \in Data(Cells) : b \in Data(Cells)'
  <2> SUFFICES ASSUME NEW b \in Data(Cells) PROVE b \in Data(Cells)'
    OBVIOUS
  <2>1. PICK d \in Cells : type[d] \in Owners /\ word[d] = b /\ b # NULL
    BY DEF Data
  <2>2. type'[d] \in Owners /\ word'[d] = b
    BY <1>1, <1>2, <2>1
  <2> QED BY <2>1, <2>2 DEF Data, Owners
<1>11. t \in Owners /\ w # NULL => w \in Data(Cells)'
  BY <1>1, <1>2 DEF Data, Owners
<1>12. malloced' \subseteq Data(Cells)' \cup Fills(calls)' \cup lost'
  BY <1>3, <1>10, <1>11
<1> QED BY <1>2, <1>3, <1>8, <1>9, <1>12 DEF Owning

(* Cells lose their data, each its own. *)
LEMMA DataFreed ==
    ASSUME Owning, IInv, NEW Z \in SUBSET Cells, BadFrees(Z) = {}, crash' = No,
           GcFree(Z), Torn(Z), lost' = lost, SameFills,
           \A c \in Cells \ Z : type'[c] = type[c],
           \A c \in Z : type'[c] \in Owners => word'[c] = NULL
    PROVE  Owning'
<1>1. /\ DOMAIN word' = Cells /\ malloced' = malloced \ Data(Z)
      /\ \A c \in Cells \ Z : word'[c] = word[c]
  BY DEF GcFree, Cleared
<1>2. Fills(calls') = Fills(calls)
  BY DEF SameFills
<1>3. Fills(calls)' = Fills(calls') /\ (Unshared(calls') => Unshared(calls)')
  BY DEF Fills, Unshared
<1>4. Data(Z) \subseteq Settled
  <2> SUFFICES ASSUME NEW b \in Data(Z) PROVE b \in Settled
    OBVIOUS
  <2>1. PICK c \in Z : type[c] \in Owners /\ word[c] = b /\ b # NULL
    BY DEF Data
  <2>2. c \notin BadFrees(Z)
    OBVIOUS
  <2> QED BY <2>1, <2>2, InFills DEF BadFrees, Settled
<1>5. Settled' = Settled \ Data(Z)
  BY <1>1, <1>2, <1>3 DEF Settled
<1>6. ASSUME NEW c \in Sound' PROVE c \in Sound /\ word'[c] = word[c] /\ word[c] \notin Data(Z)
  <2>1. c \in Cells /\ type'[c] \in Owners /\ word'[c] # NULL /\ c \notin torn'
    BY DEF Sound
  <2>2. c \notin Z
    BY <2>1
  <2>3. type[c] \in Owners /\ word[c] # NULL /\ word'[c] = word[c]
    BY <1>1, <2>1, <2>2
  <2>4. c \notin torn /\ word[c] \notin Data(Z)
    BY <2>1, <2>2, <2>3 DEF Torn
  <2> QED BY <2>1, <2>3, <2>4 DEF Sound
<1>7. \A c \in Sound' : word'[c] \in Settled'
  BY <1>5, <1>6 DEF Owning
<1>8. \A c, d \in Sound' : word'[c] = word'[d] => c = d
  BY <1>6 DEF Owning
<1>9. lost' \cup Fills(calls)' \subseteq malloced'
  BY <1>1, <1>2, <1>3, <1>4 DEF Owning, Settled
<1>10. malloced' \subseteq Data(Cells)' \cup Fills(calls)' \cup lost'
  <2> SUFFICES ASSUME NEW b \in malloced', b \notin Fills(calls), b \notin lost
               PROVE  b \in Data(Cells)'
    BY <1>2, <1>3
  <2>1. b \in Data(Cells) /\ b \notin Data(Z)
    BY <1>1 DEF Owning
  <2>2. PICK c \in Cells : type[c] \in Owners /\ word[c] = b /\ b # NULL
    BY <2>1 DEF Data
  <2>3. c \notin Z
    BY <2>1, <2>2 DEF Data
  <2>4. type'[c] \in Owners /\ word'[c] = b
    BY <1>1, <2>2, <2>3
  <2> QED BY <2>2, <2>4 DEF Data, Owners
<1> QED BY <1>1, <1>2, <1>3, <1>7, <1>8, <1>9, <1>10 DEF Owning, SameFills

-----------------------------------------------------------------------------
(* Each step that does not end in undefined behaviour keeps the data owned. *)

LEMMA NoCrash ==
    ASSUME crash = No, crash' = No, NEW at \in {"free", "mark"}, NEW Z, Crashes(at, Z)
    PROVE  Z = {}
<1>1. Z # {} => crash' = [at |-> at, cells |-> Z]
  BY DEF Crashes
<1>2. [at |-> at, cells |-> Z].at = at /\ No.at = "nowhere"
  BY DEF No
<1> QED BY <1>1, <1>2

LEMMA WhichRead ==
    ASSUME IInv, NEW d \in Range(calls), Reading(d)
    PROVE  d \in FreadCall
<1>1. d \in ArrayCall => d.proc = "array"
  BY DEF ArrayCall
<1>2. d \in FopenCall => d.proc = "fopen"
  BY DEF FopenCall
<1>3. d = AfterGc => d.proc = "after-gc"
  BY DEF AfterGc
<1>4. d \in LoadCall => d.proc = "vload"
  BY DEF LoadCall
<1> QED BY <1>1, <1>2, <1>3, <1>4 DEF IInv, Plain, Reading

(* What an innermost call that goes on is. *)
LEMMA GoesOn ==
    ASSUME IInv, ~Evaluating
    PROVE  /\ Innermost.proc # "lfread" => ~Reading(Innermost)
           /\ \A l : [Innermost EXCEPT !.gc = FALSE] = Open(l) => Innermost.proc = "fopen"
           /\ \A whole, b : Reading(Innermost) /\ [Innermost EXCEPT !.gc = FALSE] = Fread(whole, b)
                 => Innermost.buffer = b
<1> PICK d : d = Innermost
  OBVIOUS
<1> PICK e : e = [d EXCEPT !.gc = FALSE]
  OBVIOUS
<1>1. d \in Range(calls)
  BY Inside DEF IInv
<1>2. e.proc = d.proc
  <2>1. d \in FreadCall => e.proc = d.proc
    BY DEF FreadCall
  <2>2. d \in ArrayCall => e.proc = d.proc
    BY DEF ArrayCall
  <2>3. d \in FopenCall => e.proc = d.proc
    BY DEF FopenCall
  <2>4. d = AfterGc => e.proc = d.proc
    BY DEF AfterGc
  <2>5. d \in LoadCall => e.proc = d.proc
    BY DEF LoadCall
  <2> QED BY <1>1, <2>1, <2>2, <2>3, <2>4, <2>5 DEF IInv, Plain
<1>3. \A l : Open(l).proc = "fopen"
  BY DEF Open
<1>4. ASSUME NEW whole, NEW b, Reading(d), e = Fread(whole, b) PROVE d.buffer = b
  <2>1. d \in FreadCall
    BY <1>1, <1>4, WhichRead
  <2>2. e.buffer = d.buffer
    BY <2>1 DEF FreadCall
  <2>3. Fread(whole, b).buffer = b
    BY DEF Fread
  <2> QED BY <1>4, <2>2, <2>3
<1> QED BY <1>2, <1>3, <1>4 DEF Reading

LEMMA AsksOwned ==
    ASSUME IInv, Owning,
           \/ \E k \in Kinds, s \in Sources : Asks(Array(k, s))
           \/ \E l \in BOOLEAN : Asks(Open(l))
           \/ \E whole \in BOOLEAN, b \in Buffers : BeginFread(whole, b)
    PROVE  Owning'
<1>1. ASSUME NEW d, ~Reading(d), Asks(d) PROVE Owning'
  <2>1. SameFills
    BY <1>1, CallsFill DEF Asks, Owning
  <2>2. malloced' = malloced /\ lost' = lost /\ UNCHANGED <<type, word, torn>>
    BY <1>1 DEF Asks, resourceVars, cellVars, poolVars, historyVars
  <2> QED BY <2>1, <2>2, DataStays DEF SameFills, Owning
<1>2. \A k, s : ~Reading(Array(k, s))
  BY DEF Reading, Array
<1>3. \A l : ~Reading(Open(l))
  BY DEF Reading, Open
<1>4. ASSUME NEW whole \in BOOLEAN, NEW b \in Buffers, BeginFread(whole, b) PROVE Owning'
  <2>1. Reading(Fread(whole, b)) /\ Fread(whole, b).buffer = b
    BY DEF Fread, Reading
  <2>2. /\ b \notin malloced /\ malloced' = malloced \cup {b} /\ lost' = lost
        /\ UNCHANGED <<type, word, torn>> /\ Begin(Fread(whole, b))
    BY <1>4 DEF BeginFread, cellVars, historyVars
  <2>3. b \notin Fills(calls) /\ b \notin lost
    BY <2>2 DEF Owning
  <2>4. Unshared(calls') /\ Fills(calls') = Fills(calls) \cup {b}
    <3>1. PICK d : d = Fread(whole, b)
      OBVIOUS
    <3>2. Begin(d) /\ Reading(d) /\ d.buffer = b
      BY <2>1, <2>2, <3>1
    <3> QED BY <2>3, <3>2, CallsFill DEF Owning
  <2> QED BY <2>2, <2>3, <2>4, DataStays DEF Owning
<1> QED BY <1>1, <1>2, <1>3, <1>4

LEMMA GetsFill ==
    ASSUME IInv, Owning, NEW call, NEW c, Gets(call, c)
    PROVE  /\ (~Evaluating /\ Reading(Innermost)) \/ SameFills
           /\ ~Evaluating => Finish
<1>1. CASE Evaluating
  BY <1>1, CallsFill DEF Gets, Owning
<1>2. CASE ~Evaluating
  BY <1>2, CallsEndFill DEF Gets, Owning
<1> QED BY <1>1, <1>2

LEMMA MakesOwned ==
    ASSUME IInv, Owning, NEW c \in Cells,
           \/ \E call \in ArrayCalls : MakeArray(call, c)
           \/ \E call \in ArrayCalls \cup PartCalls : MakeArrayFails(call, c)
           \/ \E call \in FreadCalls : EndFread(call.whole, call.buffer, c)
           \/ MakePlain(c)
    PROVE  Owning'
<1>1. ASSUME NEW call \in ArrayCalls, MakeArray(call, c) PROVE Owning'
  <2>1. PICK b \in Buffers \ malloced :
           malloced' = malloced \cup {b} /\ word' = [word EXCEPT ![c] = b]
    BY <1>1 DEF MakeArray
  <2>2. /\ type' = [type EXCEPT ![c] = call.kind] /\ torn' = torn /\ lost' = lost
        /\ c \in Free /\ Gets(call, c) /\ call.kind \in Owners
    BY <1>1, KindOf, KindsAssumption DEF MakeArray, historyVars, Gets, Owners
  <2>3. SameFills
    <3>1. ~Evaluating => ~Reading(Innermost)
      BY DEF ArrayCalls, Reading
    <3> QED BY <2>2, <3>1, GetsFill
  <2>4. b # NULL /\ b \notin lost /\ b \notin Fills(calls) /\ b \notin Settled
    BY NullAssumption DEF Owning, Settled
  <2>5. DOMAIN word' = Cells /\ word'[c] = b /\ \A d \in Cells : d # c => word'[d] = word[d]
    BY <2>1 DEF Owning
  <2>6. Unshared(calls') /\ Fills(calls') = Fills(calls) /\ lost' \cap Fills(calls') = {}
        /\ lost' \cup Fills(calls') \subseteq malloced'
    BY <2>1, <2>2, <2>3 DEF SameFills, Owning
  <2>7. \A x \in malloced' : \/ x \in Data(Cells) \cup Fills(calls') \cup lost'
                             \/ call.kind \in Owners /\ x = b /\ b # NULL
    BY <2>1, <2>2, <2>4, <2>6 DEF Owning
  <2>8. Settled \subseteq malloced' \ (lost' \cup Fills(calls'))
    BY <2>1, <2>2, <2>6 DEF Settled
  <2>9. b \in malloced' \ (lost' \cup Fills(calls'))
    BY <2>1, <2>2, <2>4, <2>6
  <2> QED BY <2>2, <2>4, <2>5, <2>6, <2>7, <2>8, <2>9, DataGiven
<1>2. ASSUME NEW call, MakeArrayFails(call, c) PROVE Owning'
  <2>1. /\ c \in Free /\ calls' = <<>> /\ lost' = lost \cup Fills(calls)
        /\ type' = [type EXCEPT ![c] = call.kind]
        /\ torn' = (IF word[c] = NULL THEN torn ELSE torn \cup {c})
        /\ word' = word /\ malloced' = malloced
    BY <1>2, InFills DEF MakeArrayFails, Errs, poolVars
  <2>2. Unshared(calls') /\ Fills(calls') = {}
    BY <2>1, CallsFill DEF Owning
  <2>3. DOMAIN word' = Cells /\ word'[c] = word[c] /\ \A d \in Cells : d # c => word'[d] = word[d]
    BY <2>1 DEF Owning
  <2>4. lost' \cup Fills(calls') = lost \cup Fills(calls) /\ lost' \cap Fills(calls') = {}
    BY <2>1, <2>2
  <2>5. /\ lost' \cup Fills(calls') \subseteq malloced'
        /\ Settled \subseteq malloced' \ (lost' \cup Fills(calls'))
        /\ \A x \in malloced' : x \in Data(Cells) \cup Fills(calls') \cup lost'
    BY <2>1, <2>4 DEF Settled, Owning
  <2>6. torn \subseteq torn' /\ torn' \subseteq torn \cup {c} /\ (word[c] # NULL => c \in torn')
    BY <2>1
  <2> QED BY <2>1, <2>2, <2>3, <2>4, <2>5, <2>6, DataGiven
<1>3. ASSUME NEW call \in FreadCalls, EndFread(call.whole, call.buffer, c) PROVE Owning'
  <2> PICK b : b = call.buffer
    OBVIOUS
  <2>1. /\ ~Evaluating /\ Gets(Fread(call.whole, b), c) /\ c \in Free
        /\ type' = [type EXCEPT ![c] = "string"] /\ torn' = torn /\ lost' = lost
    BY <1>3 DEF EndFread, Gets, historyVars
  <2>2. Reading(Innermost) /\ Finish /\ Innermost.buffer = b
    <3>1. Innermost.proc = "lfread"
      BY DEF FreadCalls
    <3>2. [Innermost EXCEPT !.gc = FALSE] = Fread(call.whole, b) /\ Finish
      BY <2>1 DEF Gets
    <3> QED BY <2>1, <3>1, <3>2, GoesOn DEF Reading
  <2>3. b \in Fills(calls) /\ Unshared(calls') /\ Fills(calls') = Fills(calls) \ {b}
    BY <2>1, <2>2, CallsEndFill DEF Owning
  <2>4. PICK w : /\ word' = [word EXCEPT ![c] = w]
                 /\ \/ w = b /\ malloced' = malloced
                    \/ /\ w \in Buffers \ malloced
                       /\ malloced' = (malloced \ {b}) \cup {w}
    BY <1>3 DEF EndFread
  <2>5. DOMAIN word' = Cells /\ word'[c] = w /\ \A d \in Cells : d # c => word'[d] = word[d]
    BY <2>1, <2>4 DEF Owning, Free
  <2>6. b \in malloced /\ b \notin lost /\ b \notin Settled
    BY <2>3 DEF Owning, Settled
  <2>7. w \in malloced' /\ w \notin lost /\ w \notin Fills(calls') /\ w \notin Settled
    BY <2>3, <2>4, <2>6 DEF Owning, Settled
  <2>8. \A x \in malloced' : \/ x \in Data(Cells) \cup Fills(calls') \cup lost'
                             \/ x = w /\ w # NULL
    <3>1. w # NULL \/ w = b
      BY <2>4, NullAssumption
    <3>2. b # NULL
      <4>1. PICK i \in DOMAIN calls : Reading(calls[i]) /\ calls[i].buffer = b
        BY <2>3 DEF Fills
      <4>2. calls[i] \in FreadCall
        <5>1. calls[i] \in Range(calls)
          BY DEF Range
        <5> QED BY <4>1, <5>1, WhichRead
      <4> QED BY <4>1, <4>2, NullAssumption DEF FreadCall
    <3>3. w # NULL
      BY <3>1, <3>2
    <3> QED BY <2>1, <2>3, <2>4, <3>3 DEF Owning
  <2>9. lost' \cap Fills(calls') = {} /\ lost' \cup Fills(calls') \subseteq malloced'
    BY <2>1, <2>3, <2>4, <2>6 DEF Owning
  <2>10. Settled \subseteq malloced' \ (lost' \cup Fills(calls'))
    BY <2>1, <2>3, <2>4, <2>6 DEF Settled
  <2> QED BY <2>1, <2>3, <2>5, <2>7, <2>8, <2>9, <2>10, DataGiven DEF Owners
<1>4. ASSUME MakePlain(c) PROVE Owning'
  <2>1. PICK w : word' = [word EXCEPT ![c] = w]
    BY <1>4 DEF MakePlain
  <2>2. /\ c \in Free /\ type' = [type EXCEPT ![c] = "cons"] /\ torn' = torn /\ lost' = lost
        /\ malloced' = malloced /\ UNCHANGED calls
    BY <1>4 DEF MakePlain, historyVars, poolVars
  <2>3. Unshared(calls') /\ Fills(calls') = Fills(calls)
    BY <2>2, CallsFill DEF Owning, SameFills
  <2>4. DOMAIN word' = Cells /\ word'[c] = w /\ \A d \in Cells : d # c => word'[d] = word[d]
    BY <2>1 DEF Owning
  <2>5. lost' \cap Fills(calls') = {} /\ lost' \cup Fills(calls') \subseteq malloced'
        /\ Settled \subseteq malloced' \ (lost' \cup Fills(calls'))
        /\ \A x \in malloced' : x \in Data(Cells) \cup Fills(calls') \cup lost'
    BY <2>2, <2>3 DEF Owning, Settled
  <2>6. "cons" \notin Owners
    BY DEF Owners
  <2> QED BY <2>2, <2>3, <2>4, <2>5, <2>6, DataGiven
<1> QED BY <1>1, <1>2, <1>3, <1>4

LEMMA OpensOwned ==
    ASSUME IInv, Owning, NEW c \in Cells, NEW l \in BOOLEAN,
           \/ \E f \in Files, b \in Buffers : Fopen(l, c, f, b)
           \/ FopenFails(l, c)
    PROVE  Owning'
<1>1. ASSUME NEW f \in Files, NEW b \in Buffers, Fopen(l, c, f, b) PROVE Owning'
  <2>1. /\ c \in Free /\ b \notin malloced /\ malloced' = malloced \cup {b}
        /\ type' = [type EXCEPT ![c] = "c_file"] /\ word' = [word EXCEPT ![c] = b]
        /\ torn' = torn /\ lost' = lost
    BY <1>1 DEF Fopen, historyVars
  <2>2. PICK S : calls \in Seq(S)
    BY DEF IInv, Stack
  <2>3. PICK s : s = Outside
    OBVIOUS
  <2>4. s \in Seq(S) /\ Unshared(s) /\ Fills(s) = Fills(calls)
    <3>1. CASE Evaluating
      BY <2>2, <2>3, <3>1 DEF Outside, Owning
    <3>2. CASE ~Evaluating
      <4>1. Innermost.proc = "fopen" /\ calls # <<>> /\ Innermost = calls[Len(calls)]
        BY <1>1, <3>2, GoesOn DEF Fopen, Evaluating, Innermost
      <4>2. ~Reading(calls[Len(calls)])
        BY <4>1 DEF Reading
      <4>3. s = Outer /\ Outer \in Seq(S)
        BY <2>2, <2>3, <3>2, <4>1, LastOf DEF Outside, Outer
      <4> QED BY <4>1, <4>2, <4>3, InnerFills DEF Owning
    <3> QED BY <3>1, <3>2
  <2>5. Unshared(calls') /\ Fills(calls') = Fills(calls)
    <3>1. CASE ~l
      BY <1>1, <2>3, <2>4, <3>1 DEF Fopen
    <3>2. CASE l
      <4>1. PICK load : load = Load(c)
        OBVIOUS
      <4>2. ~Reading(load) /\ ~Reading(AfterGc)
        BY <4>1 DEF Load, AfterGc, Reading
      <4>3. calls' = s \o <<load, AfterGc>>
        BY <1>1, <2>3, <3>2, <4>1 DEF Fopen
      <4>4. s \o <<load, AfterGc>> = Append(Append(s, load), AfterGc)
        BY <2>4, TwoMore
      <4>5. PICK T : Append(s, load) \in Seq(T)
        BY <2>4, Entered
      <4>6. Unshared(Append(s, load)) /\ Fills(Append(s, load)) = Fills(calls)
        BY <2>4, <4>2, FillsAppend
      <4> PICK u \in Seq(T) : u = Append(s, load)
        BY <4>5
      <4>7. Unshared(Append(u, AfterGc)) /\ Fills(Append(u, AfterGc)) = Fills(calls)
        BY <4>2, <4>6, FillsAppend
      <4> QED BY <4>3, <4>4, <4>7
    <3> QED BY <3>1, <3>2
  <2>6. b # NULL /\ b \notin lost /\ b \notin Fills(calls) /\ b \notin Settled
    BY <2>1, NullAssumption DEF Owning, Settled
  <2>7. DOMAIN word' = Cells /\ word'[c] = b /\ \A d \in Cells : d # c => word'[d] = word[d]
    BY <2>1 DEF Owning
  <2>8. lost' \cap Fills(calls') = {} /\ lost' \cup Fills(calls') \subseteq malloced'
    BY <2>1, <2>5 DEF Owning
  <2>9. \A x \in malloced' : \/ x \in Data(Cells) \cup Fills(calls') \cup lost'
                             \/ x = b /\ b # NULL
    BY <2>1, <2>5, <2>6 DEF Owning
  <2>10. Settled \subseteq malloced' \ (lost' \cup Fills(calls'))
    BY <2>1, <2>5 DEF Settled
  <2>11. b \in malloced' \ (lost' \cup Fills(calls'))
    BY <2>1, <2>5, <2>6
  <2>12. \A x \in malloced' : \/ x \in Data(Cells) \cup Fills(calls') \cup lost'
                              \/ "c_file" \in Owners /\ x = b /\ b # NULL
    BY <2>9 DEF Owners
  <2>13. /\ c \in Free /\ type' = [type EXCEPT ![c] = "c_file"]
         /\ torn \subseteq torn' /\ torn' \subseteq torn \cup {c}
    BY <2>1
  <2>14. Unshared(calls')
    BY <2>5
  <2> QED BY <2>6, <2>7, <2>8, <2>10, <2>11, <2>12, <2>13, <2>14, DataGiven
<1>2. ASSUME FopenFails(l, c) PROVE Owning'
  <2>1. /\ c \in Free /\ calls' = <<>> /\ lost' = lost \cup Fills(calls)
        /\ type' = [type EXCEPT ![c] = "c_file"] /\ word' = [word EXCEPT ![c] = NULL]
        /\ torn' = torn /\ malloced' = malloced
    BY <1>2, InFills DEF FopenFails, Errs
  <2>2. Unshared(calls') /\ Fills(calls') = {}
    BY <2>1, CallsFill DEF Owning
  <2>3. DOMAIN word' = Cells /\ word'[c] = NULL /\ \A d \in Cells : d # c => word'[d] = word[d]
    BY <2>1 DEF Owning
  <2>4. lost' \cup Fills(calls') = lost \cup Fills(calls) /\ lost' \cap Fills(calls') = {}
    BY <2>1, <2>2
  <2>5. /\ lost' \cup Fills(calls') \subseteq malloced'
        /\ Settled \subseteq malloced' \ (lost' \cup Fills(calls'))
        /\ \A x \in malloced' : x \in Data(Cells) \cup Fills(calls') \cup lost'
    BY <2>1, <2>4 DEF Settled, Owning
  <2> QED BY <2>1, <2>2, <2>3, <2>4, <2>5, DataGiven
<1> QED BY <1>1, <1>2

(* A sweep that does not end in undefined behaviour frees only data that   *)
(* is there, and each once.                                                *)
LEMMA SweepsOwned ==
    ASSUME IInv, Owning, crash = No, crash' = No, MarkAndSweep, SameFills
    PROVE  Owning'
<1>1. PICK stale \in SUBSET (Cells \ (Free \cup Roots)) :
         LET kept == Roots \cup stale
             swept == (Cells \ Free) \ kept
         IN  /\ type' = [c \in Cells |-> IF c \in kept THEN type[c] ELSE "free"]
             /\ GcFree(swept)
             /\ IF BadMarks(kept) # {} THEN Crashes("mark", BadMarks(kept))
                ELSE Crashes("free", BadFrees(swept))
             /\ Torn(swept)
             /\ UNCHANGED <<held, lost, shut>>
  BY DEF MarkAndSweep
<1>2. PICK kept : kept = Roots \cup stale
  OBVIOUS
<1>3. PICK swept \in SUBSET Cells : swept = (Cells \ Free) \ kept
  OBVIOUS
<1>4. /\ type' = [c \in Cells |-> IF c \in kept THEN type[c] ELSE "free"]
      /\ GcFree(swept) /\ Torn(swept) /\ lost' = lost
  BY <1>1, <1>2, <1>3
<1>5. BadFrees(swept) = {}
  <2>1. IF BadMarks(kept) # {} THEN Crashes("mark", BadMarks(kept))
        ELSE Crashes("free", BadFrees(swept))
    BY <1>1, <1>2, <1>3
  <2> QED BY <2>1, NoCrash
<1>6. \A c \in Cells \ swept : type'[c] = type[c]
  BY <1>3, <1>4 DEF Free
<1>7. \A c \in swept : type'[c] \notin Owners
  BY <1>3, <1>4 DEF Owners
<1> QED BY <1>4, <1>5, <1>6, <1>7, DataFreed

LEMMA ClosesOwned ==
    ASSUME IInv, Owning, crash = No, crash' = No,
           EndLoad \/ \E c \in Cells : Fclose(c)
    PROVE  Owning'
<1>1. ASSUME NEW c \in Cells, type[c] = "c_file", type' = type, lost' = lost, SameFills,
             GcFree({c}), Crashes("free", BadFrees({c})), Torn({c})
      PROVE  Owning'
  <2>1. BadFrees({c}) = {}
    BY <1>1, NoCrash
  <2>2. word'[c] = NULL
    BY <1>1 DEF GcFree, Cleared
  <2> QED BY <1>1, <2>1, <2>2, DataFreed
<1>2. ASSUME NEW c \in Cells, Fclose(c) PROVE Owning'
  <2>1. SameFills
    BY <1>2, CallsFill DEF Fclose, Owning
  <2> QED BY <1>1, <1>2, <2>1 DEF Fclose
<1>3. CASE EndLoad
  <2>1. ~Evaluating /\ Innermost.proc = "vload" /\ Finish
    BY <1>3 DEF EndLoad, Evaluating, AfterGc
  <2>2. SameFills
    BY <2>1, CallsEndFill DEF Owning, Reading
  <2>3. PICK c \in Cells : c = Innermost.cell /\ type[c] = "c_file"
    <3>1. Innermost \in Range(calls)
      BY <2>1, Inside DEF IInv
    <3>2. Innermost \notin Plain
      BY <2>1, WhichLoad DEF Loading
    <3> QED BY <3>1, <3>2 DEF IInv, LoadCall, Reads
  <2>4. /\ type' = type /\ lost' = lost
        /\ GcFree({c}) /\ Crashes("free", BadFrees({c})) /\ Torn({c})
    BY <1>3, <2>3 DEF EndLoad
  <2> QED BY <1>1, <2>2, <2>3, <2>4
<1> QED BY <1>2, <1>3

LEMMA OwnedStep ==
    ASSUME IInv, crash = No => Owning, [Next]_vars, crash' = No
    PROVE  Owning'
<1>0. CASE UNCHANGED vars
  <2>1. UNCHANGED <<type, word, torn, malloced, lost, calls, crash>>
    BY <1>0 DEF vars, resourceVars, cellVars, poolVars, historyVars
  <2>2. SameFills
    BY <2>1, CallsFill DEF Owning
  <2> QED BY <2>1, <2>2, DataStays DEF SameFills, Owning
<1> SUFFICES ASSUME Next, Owning, crash = No PROVE Owning'
  BY <1>0 DEF Next
<1>1. CASE \/ \E k \in Kinds, s \in Sources : Asks(Array(k, s))
           \/ \E l \in BOOLEAN : Asks(Open(l))
           \/ \E whole \in BOOLEAN, b \in Buffers : BeginFread(whole, b)
  BY <1>1, AsksOwned
<1>2. ASSUME NEW c \in Cells,
             \/ \E call \in ArrayCalls : MakeArray(call, c)
             \/ \E call \in ArrayCalls \cup PartCalls : MakeArrayFails(call, c)
             \/ \E call \in FreadCalls : EndFread(call.whole, call.buffer, c)
             \/ MakePlain(c)
      PROVE  Owning'
  BY <1>2, MakesOwned
<1>3. ASSUME NEW c \in Cells, NEW l \in BOOLEAN,
             \/ \E f \in Files, b \in Buffers : Fopen(l, c, f, b)
             \/ FopenFails(l, c)
      PROVE  Owning'
  BY <1>3, OpensOwned
<1>4. CASE EndLoad \/ \E c \in Cells : Fclose(c)
  BY <1>4, ClosesOwned
<1>5. ASSUME NEW c \in Cells, Drop(c) PROVE Owning'
  <2>1. SameFills
    BY <1>5, CallsFill DEF Drop, Owning
  <2> QED BY <1>5, <2>1, DataStays DEF Drop, cellVars, poolVars, historyVars, SameFills, Owning
<1>6. CASE GcForNewcell \/ UserGc
  <2>1. MarkAndSweep /\ SameFills
    BY <1>6, CallsFill, CallsEndFill DEF GcForNewcell, UserGc, Owning
  <2> QED BY <2>1, SweepsOwned
<1>7. CASE FormEndsHere
  <2>1. SameFills
    BY <1>7, CallsEndFill DEF FormEndsHere, Owning
  <2>2. UNCHANGED <<type, word, torn, malloced, lost>>
    BY <1>7 DEF FormEndsHere, resourceVars, cellVars, poolVars, historyVars
  <2> QED BY <2>1, <2>2, DataStays DEF SameFills, Owning
<1>8. CASE Leave
  <2>1. UNCHANGED <<type, word, torn, malloced>>
    BY <1>8 DEF Leave, cellVars, poolVars
  <2>2. /\ Unshared(calls') /\ lost' \cup Fills(calls') = lost \cup Fills(calls)
        /\ lost' \cap Fills(calls') = {}
    BY <1>8, LeavesFill DEF Owning
  <2> QED BY <2>1, <2>2, DataStays
<1> QED BY <1>1, <1>2, <1>3, <1>4, <1>5, <1>6, <1>7, <1>8 DEF Next

-----------------------------------------------------------------------------
(* Undefined behaviour: whose data is freed or walked when it must not be. *)

(* A call that makes an array from a file holds on to its cell, and its    *)
(* FILE is open or was closed under it.                                    *)
Sourced(d) ==
    d.proc = "array" =>
      /\ d.cell # NULL => d.cell \in Cells \ Free
      /\ d.f # NULL => d.f \in shut \/ (d.cell # NULL /\ d.f = file[d.cell])

AllSourced == \A d \in Range(calls) : Sourced(d)

(* No load has the cell of such a call. *)
NoneLoaded ==
    \A d, e \in Range(calls) : d.proc = "array" /\ e.proc = "vload" => d.cell # e.cell

(* Calls whose cells are those of calls that were there before. *)
Alike(d, e) ==
    /\ d.proc = e.proc
    /\ d.proc \in {"array", "vload"} => d.cell = e.cell
    /\ d.proc = "array" => d.f = e.f
Carried ==
    \A d \in Range(calls') : \/ d.proc \notin {"array", "vload"}
                             \/ \E e \in Range(calls) : Alike(d, e)

LEMMA Carries ==
    ASSUME IInv
    PROVE  /\ UNCHANGED calls \/ calls' = <<>> => Carried
           /\ ~Evaluating /\ Finish => Carried
           /\ \A c : Begin(c) /\ c.proc \notin {"array", "vload"} => Carried
           /\ Collect \/ FormEnds \/ Unwind => Carried
<1>1. Range(calls') \subseteq Range(calls) => Carried
  BY DEF Carried, Alike
<1>2. Range(calls)' = Range(calls')
  BY DEF Range
<1>3. UNCHANGED calls \/ calls' = <<>> => Carried
  BY <1>1 DEF Range
<1>4. ~Evaluating /\ Finish => Carried
  BY <1>1, <1>2, Finishes DEF IInv
<1>5. ASSUME NEW c, Begin(c), c.proc \notin {"array", "vload"} PROVE Carried
  <2>1. Range(calls') = Range(calls) \cup {c}
    BY <1>2, <1>5, Begins DEF IInv
  <2> QED BY <1>5, <2>1 DEF Carried, Alike
<1>6. ASSUME Collect \/ FormEnds \/ Unwind PROVE Carried
  <2> PICK d : d = Innermost
    OBVIOUS
  <2> PICK e : e = [d EXCEPT !.gc = TRUE]
    OBVIOUS
  <2>1. \/ Range(calls') \subseteq Range(calls)
        \/ /\ ~Evaluating
           /\ Range(calls') \subseteq Range(calls) \cup {e, AfterGc}
    BY <1>2, <1>6, Reenters DEF IInv
  <2>2. ~Evaluating => d \in Range(calls) /\ Alike(e, d)
    <3> SUFFICES ASSUME ~Evaluating PROVE d \in Range(calls) /\ Alike(e, d)
      OBVIOUS
    <3>1. d \in Range(calls)
      BY Inside DEF IInv
    <3>2. d \in FreadCall => Alike(e, d)
      BY DEF FreadCall, Alike
    <3>3. d \in ArrayCall => Alike(e, d)
      BY DEF ArrayCall, Alike
    <3>4. d \in FopenCall => Alike(e, d)
      BY DEF FopenCall, Alike
    <3>5. d = AfterGc => Alike(e, d)
      BY DEF AfterGc, Alike
    <3>6. d \in LoadCall => Alike(e, d)
      BY DEF LoadCall, Alike
    <3> QED BY <3>1, <3>2, <3>3, <3>4, <3>5, <3>6 DEF IInv, Plain
  <2>3. AfterGc.proc \notin {"array", "vload"}
    BY DEF AfterGc
  <2>4. \A c \in Range(calls) : Alike(c, c)
    BY DEF Alike
  <2> QED BY <2>1, <2>2, <2>3, <2>4 DEF Carried
<1> QED BY <1>3, <1>4, <1>5, <1>6

(* The cells of such calls are kept, and a FILE of theirs that is closed   *)
(* is noted.                                                               *)
LEMMA SourcesStay ==
    ASSUME AllSourced, NoneLoaded, Carried, shut \subseteq shut',
           \A c \in Cells : type[c] # "free" /\ type'[c] = "free" => c \notin InCalls("cell"),
           \A d \in Range(calls) : d.proc = "array" /\ d.cell \in Cells /\ d.f = file[d.cell]
                                     => d.f \in shut' \/ file'[d.cell] = file[d.cell],
           IInv
    PROVE  AllSourced' /\ NoneLoaded'
<1>1. Range(calls)' = Range(calls')
  BY DEF Range
<1>2. \A d \in Range(calls) : d.proc = "array" => d.cell \in InCalls("cell")
  <2> SUFFICES ASSUME NEW i \in DOMAIN calls, calls[i].proc = "array"
               PROVE  calls[i].cell \in InCalls("cell")
    BY DEF Range
  <2>1. calls[i] \in ArrayCall
    <3>1. calls[i] \in Range(calls)
      BY DEF Range
    <3> QED BY <3>1, WhichLoad DEF IInv, Loading
  <2>2. "cell" \in DOMAIN calls[i]
    BY <2>1 DEF ArrayCall
  <2> QED BY <2>2 DEF InCalls
<1>3. ASSUME NEW d \in Range(calls), Sourced(d), NEW e, Alike(e, d) PROVE Sourced(e)'
  <2> SUFFICES ASSUME d.proc = "array" PROVE Sourced(e)'
    BY <1>3 DEF Sourced, Alike
  <2>1. d.proc = "array" /\ e.proc = "array" /\ e.cell = d.cell /\ e.f = d.f
    BY <1>3 DEF Alike
  <2>2. d.cell # NULL => d.cell \in Cells /\ type[d.cell] # "free" /\ type'[d.cell] # "free"
    BY <1>2, <1>3, <2>1 DEF Sourced, Free
  <2>3. d.f # NULL => d.f \in shut' \/ (d.cell # NULL /\ d.f = file'[d.cell])
    BY <1>3, <2>1, <2>2 DEF Sourced
  <2> QED BY <2>1, <2>2, <2>3 DEF Sourced, Free
<1>4. AllSourced'
  <2> SUFFICES ASSUME NEW e \in Range(calls') PROVE Sourced(e)'
    BY <1>1 DEF AllSourced
  <2>1. CASE e.proc \notin {"array", "vload"}
    BY <2>1 DEF Sourced
  <2>2. CASE \E d \in Range(calls) : Alike(e, d)
    BY <1>3, <2>2 DEF AllSourced
  <2> QED BY <2>1, <2>2 DEF Carried
<1>5. NoneLoaded'
  <2> SUFFICES ASSUME NEW d \in Range(calls'), NEW e \in Range(calls'),
                      d.proc = "array", e.proc = "vload"
               PROVE  d.cell # e.cell
    BY <1>1 DEF NoneLoaded
  <2>1. PICK x \in Range(calls) : Alike(d, x)
    BY DEF Carried
  <2>2. PICK y \in Range(calls) : Alike(e, y)
    BY DEF Carried
  <2> QED BY <2>1, <2>2 DEF NoneLoaded, Alike
<1> QED BY <1>4, <1>5

LEMMA AsksSourced ==
    ASSUME IInv, AllSourced, NoneLoaded, NEW k \in Kinds, NEW s \in Sources, Asks(Array(k, s))
    PROVE  AllSourced' /\ NoneLoaded'
<1>1. PICK c : c = Array(k, s)
  OBVIOUS
<1>2. /\ c.proc = "array" /\ c.cell = s
      /\ c.f = IF s \in Cells /\ k = "string" THEN file[s] ELSE NULL
  BY <1>1 DEF Array
<1>3. s # NULL => s \in held /\ s \in Cells \ Free
  BY DEF Sources, IInv
<1>4. UNCHANGED <<type, file, held, shut>>
  BY DEF Asks, resourceVars, cellVars, historyVars
<1>5. Range(calls)' = Range(calls) \cup {c}
  BY <1>1, Begins DEF Asks, IInv
<1>6. Sourced(c)
  BY <1>2, <1>3, NullAssumption DEF Sourced
<1>7. \A d : Sourced(d) => Sourced(d)'
  BY <1>4 DEF Sourced, Free
<1>8. AllSourced'
  BY <1>5, <1>6, <1>7 DEF AllSourced
<1>9. ASSUME NEW e \in Range(calls), e.proc = "vload" PROVE s # e.cell
  <2>1. e \in LoadCall /\ Reads(e)
    BY <1>9, WhichLoad DEF IInv, Loading
  <2>2. e.cell \in Cells /\ e.cell \notin held
    BY <2>1 DEF LoadCall, Reads
  <2> QED BY <1>3, <2>2, NullAssumption
<1>10. NoneLoaded'
  BY <1>2, <1>5, <1>9 DEF NoneLoaded
<1> QED BY <1>8, <1>10

LEMMA SweepsSourced ==
    ASSUME IInv, AllSourced, NoneLoaded, Carried, MarkAndSweep
    PROVE  AllSourced' /\ NoneLoaded'
<1>1. PICK stale \in SUBSET (Cells \ (Free \cup Roots)) :
         LET kept == Roots \cup stale
             swept == (Cells \ Free) \ kept
         IN  /\ type' = [c \in Cells |-> IF c \in kept THEN type[c] ELSE "free"]
             /\ GcFree(swept)
             /\ UNCHANGED <<held, lost, shut>>
  BY DEF MarkAndSweep
<1>2. PICK kept : kept = Roots \cup stale
  OBVIOUS
<1>3. PICK swept \in SUBSET Cells : swept = (Cells \ Free) \ kept
  OBVIOUS
<1>4. /\ type' = [c \in Cells |-> IF c \in kept THEN type[c] ELSE "free"]
      /\ GcFree(swept) /\ shut' = shut
  BY <1>1, <1>2, <1>3
<1>5. \A c \in Cells : c \in InCalls("cell") => c \in kept
  BY <1>2, NullAssumption DEF Roots
<1>6. \A c \in Cells : type[c] # "free" /\ type'[c] = "free" => c \notin InCalls("cell")
  BY <1>4, <1>5
<1>7. \A c \in Cells : c \notin swept => file'[c] = file[c]
  BY <1>4 DEF GcFree, Cleared
<1>8. ASSUME NEW d \in Range(calls), d.proc = "array", d.cell \in Cells
      PROVE  d.cell \notin swept
  <2>1. d \in ArrayCall
    BY <1>8, WhichLoad DEF IInv, Loading
  <2>2. PICK i \in DOMAIN calls : d = calls[i]
    BY DEF Range
  <2>3. "cell" \in DOMAIN calls[i]
    BY <2>1, <2>2 DEF ArrayCall
  <2>4. d.cell \in InCalls("cell")
    BY <2>2, <2>3 DEF InCalls
  <2> QED BY <1>3, <1>5, <1>8, <2>4
<1> QED BY <1>4, <1>6, <1>7, <1>8, SourcesStay

LEMMA ClosesSourced ==
    ASSUME IInv, AllSourced, NoneLoaded, EndLoad \/ \E c \in Cells : Fclose(c)
    PROVE  AllSourced' /\ NoneLoaded'
<1>1. ASSUME NEW c \in Cells, Fclose(c) PROVE AllSourced' /\ NoneLoaded'
  <2>1. /\ type[c] = "c_file" /\ type' = type /\ GcFree({c})
        /\ shut' = shut \cup (FILEs({c}) \cap InCalls("f"))
    BY <1>1 DEF Fclose
  <2>2. Carried
    BY <1>1, Carries DEF Fclose
  <2>3. \A x \in Cells : file'[x] = IF x = c THEN NULL ELSE file[x]
    BY <2>1 DEF GcFree, Cleared
  <2>4. ASSUME NEW d \in Range(calls), d.proc = "array", d.cell \in Cells, d.f = file[d.cell]
        PROVE  d.f \in shut' \/ file'[d.cell] = file[d.cell]
    <3> SUFFICES ASSUME d.cell = c, file[c] # NULL PROVE d.f \in shut'
      BY <2>3, <2>4
    <3>1. d.f \in FILEs({c})
      BY <2>1, <2>4 DEF FILEs
    <3>2. d.f \in InCalls("f")
      <4>1. d \in ArrayCall
        BY <2>4, WhichLoad DEF IInv, Loading
      <4>2. PICK i \in DOMAIN calls : d = calls[i]
        BY DEF Range
      <4>3. "f" \in DOMAIN calls[i]
        BY <4>1, <4>2 DEF ArrayCall
      <4> QED BY <4>2, <4>3 DEF InCalls
    <3> QED BY <2>1, <3>1, <3>2
  <2> QED BY <2>1, <2>2, <2>4, SourcesStay
<1>2. CASE EndLoad
  <2>1. ~Evaluating /\ Innermost.proc = "vload" /\ Finish
    BY <1>2 DEF EndLoad, Evaluating, AfterGc
  <2>2. PICK load \in Range(calls) : load = Innermost
    BY <2>1, Inside DEF IInv
  <2>3. type' = type /\ shut' = shut /\ GcFree({load.cell})
    BY <1>2, <2>2 DEF EndLoad
  <2>4. Carried
    BY <2>1, Carries
  <2>5. \A d \in Range(calls) : d.proc = "array" => d.cell # load.cell
    BY <2>1, <2>2 DEF NoneLoaded
  <2>6. \A x \in Cells : x # load.cell => file'[x] = file[x]
    BY <2>3 DEF GcFree, Cleared
  <2> QED BY <2>3, <2>4, <2>5, <2>6, SourcesStay
<1> QED BY <1>1, <1>2

(* A free cell is taken: it is not one of those. *)
LEMMA TakesSourced ==
    ASSUME IInv, AllSourced, NoneLoaded, Carried, shut' = shut, NEW c \in Free, NEW t, NEW f,
           type' = [type EXCEPT ![c] = t], file' = file \/ file' = [file EXCEPT ![c] = f]
    PROVE  AllSourced' /\ NoneLoaded'
<1>1. c \in Cells /\ type[c] = "free"
  BY DEF Free
<1>2. \A d \in Cells : d # c => type'[d] = type[d] /\ file'[d] = file[d]
  BY DEF IInv
<1>3. \A d \in Range(calls) : d.proc = "array" => d.cell # c
  BY <1>1, NullAssumption DEF AllSourced, Sourced
<1> QED BY <1>1, <1>2, <1>3, SourcesStay

LEMMA OpensSourced ==
    ASSUME IInv, AllSourced, NoneLoaded, NEW c \in Cells, NEW f \in Files, NEW b \in Buffers,
           Fopen(TRUE, c, f, b)
    PROVE  AllSourced' /\ NoneLoaded'
<1>1. /\ c \in Free /\ type' = [type EXCEPT ![c] = "c_file"] /\ file' = [file EXCEPT ![c] = f]
      /\ shut' = shut
  BY DEF Fopen, historyVars
<1>2. PICK s : s = Outside
  OBVIOUS
<1>3. (\E S : s \in Seq(S)) /\ Range(s) \subseteq Range(calls)
  BY <1>2, Inside DEF Outside, IInv, Stack
<1>4. PICK load : load = Load(c)
  OBVIOUS
<1>5. load.proc = "vload" /\ load.cell = c /\ AfterGc.proc = "after-gc"
  BY <1>4 DEF Load, AfterGc
<1>6. calls' = s \o <<load, AfterGc>>
  BY <1>2, <1>4 DEF Fopen
<1>7. Range(s \o <<load, AfterGc>>) = Range(s) \cup {load, AfterGc}
  BY <1>3, EnteredTwo
<1>8. Range(calls)' = Range(s) \cup {load, AfterGc}
  BY <1>6, <1>7 DEF Range
<1>9. c \in Cells /\ type[c] = "free" /\ \A d \in Cells : d # c => type'[d] = type[d] /\ file'[d] = file[d]
  BY <1>1 DEF IInv, Free
<1>10. \A d \in Range(calls) : d.proc = "array" => d.cell # c
  BY <1>9, NullAssumption DEF AllSourced, Sourced, Free
<1>11. ASSUME NEW d \in Range(calls) PROVE Sourced(d)'
  <2> SUFFICES ASSUME d.proc = "array" PROVE Sourced(d)'
    BY DEF Sourced
  <2>1. Sourced(d) /\ d.cell # c
    BY <1>10 DEF AllSourced
  <2>2. d.cell # NULL => /\ d.cell \in Cells /\ type'[d.cell] # "free"
                         /\ file'[d.cell] = file[d.cell]
    BY <1>9, <2>1 DEF Sourced, Free
  <2> QED BY <1>1, <2>1, <2>2 DEF Sourced, Free
<1>12. AllSourced'
  BY <1>3, <1>5, <1>8, <1>11 DEF AllSourced, Sourced
<1>13. NoneLoaded'
  BY <1>3, <1>5, <1>8, <1>10 DEF NoneLoaded
<1> QED BY <1>12, <1>13

LEMMA SourcedStep ==
    ASSUME IInv, AllSourced, NoneLoaded, [Next]_vars
    PROVE  AllSourced' /\ NoneLoaded'
<1>1. ASSUME NEW k \in Kinds, NEW s \in Sources, Asks(Array(k, s)) PROVE AllSourced' /\ NoneLoaded'
  BY <1>1, AsksSourced
<1>2. ASSUME Carried, UNCHANGED <<type, file, shut>> PROVE AllSourced' /\ NoneLoaded'
  BY <1>2, SourcesStay
<1>3. ASSUME NEW l \in BOOLEAN, Asks(Open(l)) PROVE AllSourced' /\ NoneLoaded'
  <2>1. Open(l).proc = "fopen"
    BY DEF Open
  <2>2. Begin(Open(l)) /\ UNCHANGED <<type, file, shut>>
    BY <1>3 DEF Asks, resourceVars, cellVars, historyVars
  <2>3. \A c : Begin(c) /\ c.proc \notin {"array", "vload"} => Carried
    BY Carries
  <2> QED BY <1>2, <2>1, <2>2, <2>3
<1>4. ASSUME NEW whole \in BOOLEAN, NEW b \in Buffers, BeginFread(whole, b)
      PROVE  AllSourced' /\ NoneLoaded'
  <2>1. Fread(whole, b).proc = "lfread"
    BY DEF Fread
  <2>2. Begin(Fread(whole, b)) /\ UNCHANGED <<type, file, shut>>
    BY <1>4 DEF BeginFread, cellVars, historyVars
  <2>3. \A c : Begin(c) /\ c.proc \notin {"array", "vload"} => Carried
    BY Carries
  <2> QED BY <1>2, <2>1, <2>2, <2>3
<1>5. ASSUME NEW c \in Cells,
             \/ \E call \in ArrayCalls : MakeArray(call, c)
             \/ \E call \in ArrayCalls \cup PartCalls : MakeArrayFails(call, c)
             \/ \E call \in FreadCalls : EndFread(call.whole, call.buffer, c)
             \/ MakePlain(c)
      PROVE  AllSourced' /\ NoneLoaded'
  <2>1. c \in Free /\ file' = file /\ shut' = shut /\ \E t : type' = [type EXCEPT ![c] = t]
    BY <1>5 DEF MakeArray, MakeArrayFails, EndFread, MakePlain, Gets, historyVars
  <2>2. Carried
    <3>1. UNCHANGED calls \/ calls' = <<>> \/ (~Evaluating /\ Finish)
      BY <1>5 DEF MakeArray, MakeArrayFails, EndFread, MakePlain, Gets, Errs
    <3> QED BY <3>1, Carries
  <2> QED BY <2>1, <2>2, TakesSourced
<1>6. ASSUME NEW c \in Cells, NEW l \in BOOLEAN, NEW f \in Files, NEW b \in Buffers,
             Fopen(l, c, f, b)
      PROVE  AllSourced' /\ NoneLoaded'
  <2>1. CASE l
    BY <1>6, <2>1, OpensSourced
  <2>2. CASE ~l
    <3>1. /\ c \in Free /\ type' = [type EXCEPT ![c] = "c_file"]
          /\ file' = [file EXCEPT ![c] = f] /\ shut' = shut
      BY <1>6 DEF Fopen, historyVars
    <3>2. UNCHANGED calls \/ (~Evaluating /\ Finish)
      BY <1>6, <2>2 DEF Fopen, Outside, Finish
    <3> QED BY <3>1, <3>2, Carries, TakesSourced
  <2> QED BY <2>1, <2>2
<1>7. ASSUME NEW c \in Cells, NEW l \in BOOLEAN, FopenFails(l, c) PROVE AllSourced' /\ NoneLoaded'
  <2>1. /\ c \in Free /\ type' = [type EXCEPT ![c] = "c_file"] /\ shut' = shut /\ calls' = <<>>
        /\ \E f : file' = [file EXCEPT ![c] = f]
    BY <1>7 DEF FopenFails, Errs
  <2> QED BY <2>1, Carries, TakesSourced
<1>8. CASE EndLoad \/ \E c \in Cells : Fclose(c)
  BY <1>8, ClosesSourced
<1>9. ASSUME NEW c \in Cells, Drop(c) PROVE AllSourced' /\ NoneLoaded'
  BY <1>2, <1>9, Carries DEF Drop, cellVars, historyVars
<1>10. CASE GcForNewcell \/ UserGc
  <2>1. Carried /\ MarkAndSweep
    BY <1>10, Carries DEF GcForNewcell, UserGc
  <2> QED BY <2>1, SweepsSourced
<1>11. CASE FormEndsHere
  BY <1>2, <1>11, Carries DEF FormEndsHere, resourceVars, cellVars, historyVars
<1>12. CASE Leave
  BY <1>2, <1>12, Carries DEF Leave, cellVars
<1>13. CASE UNCHANGED vars
  BY <1>2, <1>13, Carries DEF vars, resourceVars, cellVars, historyVars
<1> QED BY <1>1, <1>3, <1>4, <1>5, <1>6, <1>7, <1>8, <1>9, <1>10, <1>11, <1>12, <1>13 DEF Next

(* A cell whose data cannot be freed is torn, or has the data of a torn    *)
(* one.                                                                    *)
LEMMA BadIsTorn ==
    ASSUME IInv, Owning, NEW Z \in SUBSET Cells, NEW c \in BadFrees(Z)
    PROVE  \E d \in BadFrees(Z) : d \in torn
<1>1. c \in Cells /\ c \in Z /\ type[c] \in Owners /\ word[c] # NULL
  BY DEF BadFrees
<1> SUFFICES ASSUME c \notin torn PROVE \E d \in BadFrees(Z) : d \in torn
  OBVIOUS
<1>2. c \in Sound
  BY <1>1 DEF Sound
<1>3. word[c] \in Settled
  BY <1>2 DEF Owning
<1>4. word[c] \in Data(Z \ {c})
  BY <1>3, InFills DEF BadFrees, Settled
<1>5. PICK d \in Z \ {c} : type[d] \in Owners /\ word[d] = word[c]
  BY <1>4 DEF Data
<1>6. d \notin Sound
  BY <1>2, <1>5 DEF Owning
<1>7. d \in torn
  BY <1>1, <1>5, <1>6 DEF Sound
<1>8. word[d] \in Data(Z \ {d})
  BY <1>1, <1>5 DEF Data, Owners
<1>9. d \in BadFrees(Z)
  BY <1>1, <1>5, <1>8 DEF BadFrees
<1> QED BY <1>7, <1>9

LEMMA FreesTorn ==
    ASSUME IInv, Owning, crash = No, NEW Z \in SUBSET Cells, Torn(Z),
           Crashes("free", BadFrees(Z))
    PROVE  OnlyTornFrees'
<1>1. CASE BadFrees(Z) = {}
  BY <1>1 DEF Crashes, OnlyTornFrees, No
<1>2. CASE BadFrees(Z) # {}
  <2>1. crash' = [at |-> "free", cells |-> BadFrees(Z)]
    BY <1>2 DEF Crashes
  <2>2. crash'.at = "free" /\ crash'.cells = BadFrees(Z) /\ crash' # No
    BY <2>1 DEF No
  <2>3. PICK d \in BadFrees(Z) : d \in torn
    BY <1>2, BadIsTorn
  <2>4. d \in torn'
    BY <2>2, <2>3 DEF Torn, BadFrees
  <2> QED BY <2>2, <2>3, <2>4 DEF OnlyTornFrees
<1> QED BY <1>1, <1>2

LEMMA SweepsTorn ==
    ASSUME IInv, Owning, crash = No, MarkAndSweep
    PROVE  OnlyTornFrees'
<1>1. PICK stale \in SUBSET (Cells \ (Free \cup Roots)) :
         LET kept == Roots \cup stale
             swept == (Cells \ Free) \ kept
         IN  /\ IF BadMarks(kept) # {} THEN Crashes("mark", BadMarks(kept))
                ELSE Crashes("free", BadFrees(swept))
             /\ Torn(swept)
  BY DEF MarkAndSweep
<1>2. PICK kept : kept = Roots \cup stale
  OBVIOUS
<1>3. PICK swept \in SUBSET Cells : swept = (Cells \ Free) \ kept
  OBVIOUS
<1>4. /\ IF BadMarks(kept) # {} THEN Crashes("mark", BadMarks(kept))
         ELSE Crashes("free", BadFrees(swept))
      /\ Torn(swept)
  BY <1>1, <1>2, <1>3
<1>5. CASE BadMarks(kept) = {}
  BY <1>4, <1>5, FreesTorn
<1>6. CASE BadMarks(kept) # {}
  <2>1. crash' = [at |-> "mark", cells |-> BadMarks(kept)]
    BY <1>4, <1>6 DEF Crashes
  <2>2. crash'.at = "mark" /\ crash'.cells = BadMarks(kept) /\ crash' # No
    BY <2>1 DEF No
  <2>3. PICK c \in BadMarks(kept) : c \in BadMarks(kept)
    BY <1>6
  <2>4. c \in kept /\ type[c] = "lisp_array" /\ word[c] # NULL /\ word[c] \notin malloced
    BY <2>3 DEF BadMarks
  <2>5. c \in Cells
    <3>1. ASSUME c \in InCalls("cell"), c # NULL PROVE c \in Cells
      <4>1. PICK i \in DOMAIN calls : "cell" \in DOMAIN calls[i] /\ c = calls[i].cell
        BY <3>1 DEF InCalls
      <4>2. calls[i] \in ArrayCall \cup FreadCall \cup FopenCall \cup {AfterGc} \cup LoadCall
        <5>1. calls[i] \in Range(calls)
          BY DEF Range
        <5> QED BY <5>1 DEF IInv, Plain
      <4>3. calls[i] \in ArrayCall => c \in Cells \cup {NULL}
        BY <4>1 DEF ArrayCall
      <4>4. calls[i] \in LoadCall => c \in Cells
        BY <4>1 DEF LoadCall
      <4>5. calls[i] \notin FreadCall /\ calls[i] \notin FopenCall /\ calls[i] # AfterGc
        BY <4>1 DEF FreadCall, FopenCall, AfterGc
      <4> QED BY <3>1, <4>2, <4>3, <4>4, <4>5
    <3> QED BY <1>2, <2>4, <3>1 DEF Roots, IInv
  <2>6. c \in torn
    <3>1. c \notin Sound
      BY <2>4 DEF Owning, Settled
    <3> QED BY <2>4, <2>5, <3>1 DEF Sound, Owners
  <2>7. c \in torn'
    BY <1>4, <2>2, <2>5, <2>6 DEF Torn
  <2> QED BY <2>2, <2>3, <2>7 DEF OnlyTornFrees
<1> QED BY <1>5, <1>6

LEMMA MakesTorn ==
    ASSUME IInv, AllSourced, crash = No, NEW c \in Cells,
           NEW call \in ArrayCalls, MakeArray(call, c)
    PROVE  OnlyTornFrees'
<1>1. call.f # NULL => call.f \in opened \/ call.f \in shut
  <2>1. CASE Evaluating
    <3>1. PICK k \in Kinds, s \in Sources : call = Array(k, s)
      BY <2>1 DEF ArrayCalls
    <3>2. call.f = IF s \in Cells /\ k = "string" THEN file[s] ELSE NULL
      BY <3>1 DEF Array
    <3> QED BY <3>2 DEF IInv
  <2>2. CASE ~Evaluating
    <3>1. Innermost.proc = "array" /\ call = [Innermost EXCEPT !.gc = FALSE]
      BY <2>2 DEF ArrayCalls
    <3>2. PICK d \in Range(calls) : d = Innermost
      BY <2>2, Inside DEF IInv
    <3>3. d \in ArrayCall /\ Sourced(d)
      BY <3>1, <3>2, WhichLoad DEF IInv, Loading, AllSourced
    <3>4. call.f = d.f
      BY <3>1, <3>2, <3>3 DEF ArrayCall
    <3>5. d.f # NULL => d.f \in shut \/ (d.cell \in Cells /\ d.f = file[d.cell])
      BY <3>1, <3>2, <3>3 DEF Sourced
    <3> QED BY <3>4, <3>5 DEF IInv
  <2> QED BY <2>1, <2>2
<1>2. CASE call.f \in opened \cup {NULL}
  BY <1>2 DEF MakeArray, Crashes, OnlyTornFrees, No
<1>3. CASE call.f \notin opened \cup {NULL}
  <2>1. shut' # {}
    BY <1>1, <1>3 DEF MakeArray, historyVars
  <2>2. crash' = [at |-> "fread", cells |-> {c}]
    BY <1>3 DEF MakeArray, Crashes
  <2> QED BY <2>1, <2>2 DEF OnlyTornFrees
<1> QED BY <1>2, <1>3

LEMMA TornStep ==
    ASSUME IInv, crash = No => Owning, AllSourced, OnlyTornFrees, [Next]_vars
    PROVE  OnlyTornFrees'
<1>1. CASE UNCHANGED vars
  BY <1>1 DEF vars, resourceVars, historyVars, OnlyTornFrees
<1> SUFFICES ASSUME Next, crash = No, Owning PROVE OnlyTornFrees'
  BY <1>1 DEF Next
<1>2. crash' = crash => OnlyTornFrees'
  BY DEF OnlyTornFrees, No
<1>3. CASE \/ \E k \in Kinds, s \in Sources : Asks(Array(k, s))
           \/ \E l \in BOOLEAN : Asks(Open(l))
           \/ \E whole \in BOOLEAN, b \in Buffers : BeginFread(whole, b)
           \/ FormEndsHere \/ Leave
  BY <1>2, <1>3 DEF Asks, BeginFread, FormEndsHere, Leave, resourceVars, historyVars
<1>4. ASSUME NEW c \in Cells,
             \/ \E call \in ArrayCalls \cup PartCalls : MakeArrayFails(call, c)
             \/ \E call \in FreadCalls : EndFread(call.whole, call.buffer, c)
             \/ MakePlain(c)
             \/ \E l \in BOOLEAN, f \in Files, b \in Buffers : Fopen(l, c, f, b)
             \/ \E l \in BOOLEAN : FopenFails(l, c)
             \/ Drop(c)
      PROVE  OnlyTornFrees'
  BY <1>2, <1>4 DEF MakeArrayFails, EndFread, MakePlain, Fopen, FopenFails, Drop
<1>5. ASSUME NEW c \in Cells, NEW call \in ArrayCalls, MakeArray(call, c) PROVE OnlyTornFrees'
  BY <1>5, MakesTorn
<1>6. CASE GcForNewcell \/ UserGc
  BY <1>6, SweepsTorn DEF GcForNewcell, UserGc
<1>7. ASSUME NEW c \in Cells, Fclose(c) PROVE OnlyTornFrees'
  BY <1>7, FreesTorn DEF Fclose
<1>8. CASE EndLoad
  <2>1. ~Evaluating /\ Innermost.proc = "vload"
    BY <1>8 DEF EndLoad, Evaluating, AfterGc
  <2>2. PICK c \in Cells : c = Innermost.cell
    <3>1. Innermost \in Range(calls)
      BY <2>1, Inside DEF IInv
    <3>2. Innermost \notin Plain
      BY <2>1, WhichLoad DEF Loading
    <3> QED BY <3>1, <3>2 DEF IInv, LoadCall
  <2>3. Crashes("free", BadFrees({c})) /\ Torn({c})
    BY <1>8, <2>2 DEF EndLoad
  <2> QED BY <2>3, FreesTorn
<1> QED BY <1>3, <1>4, <1>5, <1>6, <1>7, <1>8 DEF Next

-----------------------------------------------------------------------------
AllInv == /\ IInv
          /\ crash = No => Owning
          /\ AllSourced /\ NoneLoaded
          /\ OnlyTornFrees

LEMMA Invariance == Spec => []AllInv
<1>1. Init => AllInv
  <2> SUFFICES ASSUME Init PROVE AllInv
    OBVIOUS
  <2>1. /\ calls = <<>> /\ type = [c \in Cells |-> "free"] /\ word = [c \in Cells |-> NULL]
        /\ malloced = {} /\ lost = {} /\ crash = No
    BY DEF Init
  <2>2. Sound = {} /\ Fills(calls) = {} /\ Unshared(calls) /\ Range(calls) = {}
    BY <2>1 DEF Sound, Fills, Unshared, Range
  <2>3. Owning
    BY <2>1, <2>2 DEF Owning
  <2>4. AllSourced /\ NoneLoaded
    BY <2>2 DEF AllSourced, NoneLoaded
  <2>5. OnlyTornFrees
    BY <2>1 DEF OnlyTornFrees, No
  <2> QED BY <2>3, <2>4, <2>5, Starts DEF AllInv
<1>2. AllInv /\ [Next]_vars => AllInv'
  <2> SUFFICES ASSUME AllInv, [Next]_vars PROVE AllInv'
    OBVIOUS
  <2>1. IInv'
    BY Steps DEF AllInv
  <2>2. crash' = No => Owning'
    BY OwnedStep DEF AllInv
  <2>3. AllSourced' /\ NoneLoaded'
    BY SourcedStep DEF AllInv
  <2>4. OnlyTornFrees'
    BY TornStep DEF AllInv
  <2>5. (crash = No => Owning)'
    BY <2>2 DEF No
  <2> QED BY <2>1, <2>3, <2>4, <2>5 DEF AllInv
<1> QED BY <1>1, <1>2, PTL DEF Spec

(* Each buffer from malloc is the data of one array or the name of one     *)
(* file, which will free it, or is the one a call of lfread fills, but for *)
(* those an lfread was left with; and the data of an array is there, but   *)
(* for the array that a failed malloc left without.                        *)
THEOREM BuffersAreOwned == Spec => []BuffersOwned
<1>1. AllInv => BuffersOwned
  BY OwningOwns DEF AllInv
<1> QED BY <1>1, Invariance, PTL

(* No sweep, fclose or end of a load frees what is not there or frees it   *)
(* twice, and no mark phase walks it, but by an array that a failed malloc *)
(* left without data or one that such an array took the data of; and a     *)
(* FILE is read closed only if the form closed it under the call.          *)
THEOREM TornAlone == Spec => []OnlyTornFrees
<1>1. AllInv => OnlyTornFrees
  BY DEF AllInv
<1> QED BY <1>1, Invariance, PTL
===============================================================================
