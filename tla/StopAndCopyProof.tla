--------------------------- MODULE StopAndCopyProof ---------------------------
(***************************************************************************)
(* Proofs about StopAndCopy, for any size of the spaces, any number of     *)
(* protected locations and any types but structs, which the collector has  *)
(* no relocation for.                                                      *)
(*                                                                         *)
(* In a collection each copied cell of the old space is told from the      *)
(* others by its forwarding address, and has its twin there: a cell with   *)
(* the same identity and type, whose words are the same objects.  There    *)
(* are as many of them as cells used of the new space, which is why there  *)
(* is room for one more when one more has to be copied.                    *)
(***************************************************************************)
EXTENDS StopAndCopy, FiniteSetTheorems, TLAPS

(* The types of the program have relocation hooks. *)
NoStructs == Types \cap {"struct_instance", "struct_def"} = {}

Contents == [type : Types, id : Ids, slot : [SlotNames -> Word]]

(* The cells of the objects there are, and those of them that are copied. *)
Here == IF Collecting THEN Old ELSE Used
Copies == {c \in Old : forward[c] # NIL}

OldSpace == Collecting => end \in OtherOrg..(OtherOrg + HeapSize)
StackLeft == pc # "eval" => stack = {}
Scanned == /\ pc = "scan" => ptr \in org..heap
           /\ pc = "free" => ptr \in OtherOrg..end

(* What is not copied does not change: no word of it leads elsewhere. *)
OldWords == Collecting =>
    \A c \in Old : \A s \in SlotsOf(mem[c].type) : mem[c].slot[s] \in Old \cup {NIL}

Unmarked == \A c \in Used : forward[c] = NIL
Forwarding == Collecting =>
    /\ \A c \in Old : forward[c] \in Used \cup {NIL}
    /\ Cardinality(Copies) = heap - org

Twin(c, u) == /\ mem[u].id = mem[c].id /\ mem[u].type = mem[c].type
              /\ \A s \in SlotNames : Object(mem[u].slot[s]) = Object(mem[c].slot[s])
(* The same in a memory m, for steps: mem now or mem after. *)
ObjectIn(m, q) == IF q = NIL THEN NIL ELSE m[q].id
TwinIn(m, c, u) ==
    /\ m[u].id = m[c].id /\ m[u].type = m[c].type
    /\ \A s \in SlotNames : ObjectIn(m, m[u].slot[s]) = ObjectIn(m, m[c].slot[s])

Twins == Collecting =>
    /\ \A c \in Copies : Twin(c, forward[c])
    /\ \A u \in Used : \E c \in Copies : forward[c] = u

(* An identity is that of one cell, and a cell has no words but its own. *)
Distinct == \A c, d \in Here : mem[c].id = mem[d].id => c = d
Blank == \A c \in Here \cup Used : \A s \in SlotNames \ SlotsOf(mem[c].type) : mem[c].slot[s] = NIL

IInv ==
    /\ TypeOK /\ NeverFatal /\ NoStrayPointers
    /\ OldSpace /\ StackLeft /\ Scanned /\ OldWords
    /\ Unmarked /\ Forwarding /\ Twins /\ Distinct /\ Blank

-----------------------------------------------------------------------------
(* The two spaces. *)

LEMMA Spaces ==
    ASSUME TypeOK, OldSpace
    PROVE  /\ OtherOrg \in {1, HeapSize + 1} /\ OtherOrg # org
           /\ Used \subseteq Cells /\ heap \in Nat /\ org \in Nat
           /\ heap < HeapEnd => heap \in Cells \ Used
           /\ Collecting => /\ Old \subseteq Cells /\ Old \cap Used = {}
                            /\ heap < HeapEnd => heap \notin Old
BY SizeAssumption DEF TypeOK, OldSpace, OtherOrg, HeapEnd, Used, Old

LEMMA UsedGrows ==
    ASSUME TypeOK, heap' = heap + 1, org' = org
    PROVE  Used' = Used \cup {heap}
BY SizeAssumption DEF TypeOK, HeapEnd, Used

(* Old cells are finitely many, and no more than a space has. *)
LEMMA OldCounted ==
    ASSUME TypeOK, OldSpace, Collecting
    PROVE  IsFiniteSet(Old) /\ Cardinality(Old) \in Nat /\ Cardinality(Old) <= HeapSize
<1>1. OtherOrg \in Int /\ end - 1 \in Int /\ HeapSize \in Nat
  BY SizeAssumption DEF TypeOK, OldSpace, OtherOrg
<1>2. IsFiniteSet(Old)
      /\ Cardinality(Old) = IF OtherOrg > end - 1 THEN 0 ELSE (end - 1) - OtherOrg + 1
  BY <1>1, FS_Interval DEF Old
<1> QED BY <1>1, <1>2 DEF OldSpace

(* No cell is copied twice, so that one that has to be copied finds room.  *)
LEMMA Room ==
    ASSUME IInv, Collecting, NEW p \in Old \cup {NIL}
    PROVE  ~NoRoom(p)
<1> SUFFICES ASSUME NoRoom(p) PROVE FALSE
  OBVIOUS
<1>1. p \in Old /\ forward[p] = NIL /\ heap >= HeapEnd
  BY DEF NoRoom, Copied
<1>2. IsFiniteSet(Old) /\ Cardinality(Old) \in Nat /\ Cardinality(Old) <= HeapSize
  BY OldCounted DEF IInv
<1>3. IsFiniteSet(Old \ {p}) /\ Cardinality(Old \ {p}) = Cardinality(Old) - 1
  BY <1>1, <1>2, FS_RemoveElement
<1>4. Copies \subseteq Old \ {p}
  BY <1>1 DEF Copies
<1>5. Cardinality(Copies) <= Cardinality(Old) - 1
  BY <1>3, <1>4, FS_Subset
<1>6. heap - org >= HeapSize
  BY <1>1, SizeAssumption DEF IInv, TypeOK, HeapEnd
<1> QED
  BY <1>2, <1>5, <1>6, SizeAssumption DEF IInv, Forwarding, TypeOK, HeapEnd

(* A new object has an identity that no other has. *)
LEMMA NewIdentity ==
    ASSUME TypeOK, heap < HeapEnd
    PROVE  NewId \in Ids /\ \A c \in Used : mem[c].id # NewId
<1> DEFINE taken == {mem[c].id : c \in Used}
<1>1. HeapSize \in Nat /\ org \in Int /\ heap - 1 \in Int
      /\ heap - org \in Nat /\ heap - org < HeapSize
  BY SizeAssumption DEF TypeOK, HeapEnd
<1>2. IsFiniteSet(Used) /\ Cardinality(Used) = heap - org
  <2>1. IsFiniteSet(Used)
        /\ Cardinality(Used) = IF org > heap - 1 THEN 0 ELSE (heap - 1) - org + 1
    BY <1>1, FS_Interval DEF Used
  <2> QED BY <1>1, <2>1 DEF TypeOK
<1>3. IsFiniteSet(taken) /\ Cardinality(taken) <= Cardinality(Used)
  <2> DEFINE f == [c \in Used |-> mem[c].id]
  <2>1. f \in Surjection(Used, taken)
    BY DEF Surjection
  <2> QED BY <1>2, <2>1, FS_Surjection
<1>4. ~(Ids \subseteq taken)
  <2> SUFFICES ASSUME Ids \subseteq taken PROVE FALSE
    OBVIOUS
  <2>1. Cardinality(Ids) <= Cardinality(taken)
    BY <1>3, FS_Subset
  <2>2. Cardinality(taken) \in Nat /\ Cardinality(Ids) \in Nat
    BY <1>3, IdsAssumption, FS_CardinalityType
  <2> QED BY <1>1, <1>2, <1>3, <2>1, <2>2, IdsAssumption
<1>5. PICK i \in Ids : i \notin taken
  BY <1>4
<1>6. \A c \in Used : mem[c].id # i
  BY <1>5
<1> QED BY <1>6 DEF NewId

-----------------------------------------------------------------------------
(* gc_relocate, of a word that leads to the old space. *)

LEMMA Relocation ==
    ASSUME IInv, Collecting, NEW p \in Old \cup {NIL}, Relocate(p),
           org' = org, end' = end
    PROVE  /\ heap' \in org..HeapEnd /\ heap' >= heap
           /\ OtherOrg' = OtherOrg /\ HeapEnd' = HeapEnd /\ Old' = Old
           /\ Used \subseteq Used' /\ Used' \subseteq Used \cup {heap}
           /\ Copied(p) => heap \in Used' /\ heap \notin Used /\ heap \in Cells \ Old
           /\ ~Copied(p) => Used' = Used
           /\ p # NIL => Relocated(p) \in Used' /\ forward'[p] = Relocated(p)
           /\ p = NIL => Relocated(p) = NIL
           /\ forward' \in [Cells -> Word]
           /\ \A c \in Used' : forward'[c] = NIL
           /\ \A c \in Old : forward'[c] = IF c = p THEN Relocated(p) ELSE forward[c]
<1>1. /\ OtherOrg' = OtherOrg /\ HeapEnd' = HeapEnd /\ Old' = Old
  BY DEF OtherOrg, HeapEnd, Old
<1>2. Old \subseteq Cells /\ Old \cap Used = {} /\ Used \subseteq Cells /\ NIL \notin Old
  BY Spaces, NilAssumption DEF IInv
<1>3. CASE Copied(p)
  <2>1. p \in Old /\ heap < HeapEnd
    BY <1>3, Room, SizeAssumption DEF Copied, NoRoom, IInv, TypeOK, HeapEnd
  <2>2. heap \in Cells /\ heap \notin Used /\ heap \notin Old
    BY <2>1, Spaces DEF IInv
  <2>3. heap' = heap + 1 /\ forward' = [forward EXCEPT ![heap] = NIL, ![p] = heap]
    BY <1>3 DEF Relocate
  <2>4. Used' = Used \cup {heap}
    BY <2>3, UsedGrows DEF IInv
  <2>5. Relocated(p) = heap /\ p # NIL
    BY <1>3 DEF Relocated, Copied
  <2>6. heap' \in org..HeapEnd /\ heap' >= heap
    BY <2>1, <2>3, SizeAssumption DEF IInv, TypeOK, HeapEnd
  <2>7. forward' \in [Cells -> Word]
    BY <2>2, <2>3 DEF IInv, TypeOK, Word
  <2>8. \A c \in Cells : forward'[c] = IF c = p THEN heap
                                       ELSE IF c = heap THEN NIL ELSE forward[c]
    BY <1>2, <2>1, <2>2, <2>3 DEF IInv, TypeOK
  <2>9. \A c \in Used' : forward'[c] = NIL
    BY <1>2, <2>1, <2>2, <2>4, <2>8 DEF IInv, Unmarked
  <2>10. \A c \in Old : forward'[c] = IF c = p THEN heap ELSE forward[c]
    BY <1>2, <2>2, <2>8
  <2> QED
    BY <1>1, <1>3, <2>1, <2>2, <2>4, <2>5, <2>6, <2>7, <2>9, <2>10
<1>4. CASE ~Copied(p)
  <2>1. heap' = heap /\ forward' = forward
    BY <1>4 DEF Relocate
  <2>2. Used' = Used
    BY <2>1 DEF Used
  <2>3. p # NIL => Relocated(p) = forward[p] /\ forward[p] # NIL
    BY <1>4 DEF Relocated, Copied
  <2>4. p # NIL => forward[p] \in Used
    BY <2>3 DEF IInv, Forwarding
  <2>5. heap' \in org..HeapEnd /\ heap' >= heap
    BY <2>1, SizeAssumption DEF IInv, TypeOK, HeapEnd
  <2>6. p = NIL => Relocated(p) = NIL
    BY DEF Relocated
  <2> QED
    BY <1>1, <1>2, <1>4, <2>1, <2>2, <2>3, <2>4, <2>5, <2>6 DEF IInv, TypeOK, Unmarked
<1> QED BY <1>3, <1>4

(* The new space has one more cell when one more is copied. *)
LEMMA Counting ==
    ASSUME IInv, Collecting, NEW p \in Old \cup {NIL}, Relocate(p),
           org' = org, end' = end, Collecting'
    PROVE  Forwarding'
<1>1. /\ Old' = Old /\ Used \subseteq Used'
      /\ p # NIL => Relocated(p) \in Used'
      /\ \A c \in Old : forward'[c] = IF c = p THEN Relocated(p) ELSE forward[c]
  BY Relocation
<1>2. \A c \in Old' : forward'[c] \in Used' \cup {NIL}
  <2> SUFFICES ASSUME NEW c \in Old PROVE forward'[c] \in Used' \cup {NIL}
    BY <1>1
  <2>1. NIL \notin Old
    BY Spaces, NilAssumption DEF IInv
  <2> QED BY <1>1, <2>1 DEF IInv, Forwarding
<1>3. Cardinality(Copies') = heap' - org'
  <2>0. IsFiniteSet(Copies) /\ Cardinality(Copies) = heap - org
    <3>1. IsFiniteSet(Old)
      BY OldCounted DEF IInv
    <3> QED BY <3>1, FS_Subset DEF Copies, IInv, Forwarding
  <2>1. CASE Copied(p)
    <3>1. p \in Old /\ forward[p] = NIL /\ Relocated(p) = heap /\ heap' = heap + 1
      BY <2>1 DEF Copied, Relocated, Relocate
    <3>2. heap # NIL
      <4>1. heap < HeapEnd
        BY <2>1, Room, SizeAssumption DEF NoRoom, IInv, TypeOK, HeapEnd
      <4> QED BY <4>1, Spaces, NilAssumption DEF IInv
    <3>3. Copies' = Copies \cup {p} /\ p \notin Copies
      BY <1>1, <3>1, <3>2 DEF Copies
    <3>4. Cardinality(Copies') = Cardinality(Copies) + 1
      BY <2>0, <3>3, FS_AddElement
    <3> QED BY <2>0, <3>1, <3>4, SizeAssumption DEF IInv, TypeOK, HeapEnd
  <2>2. CASE ~Copied(p)
    <3>1. heap' = heap /\ forward' = forward
      BY <2>2 DEF Relocate
    <3> QED BY <1>1, <2>0, <3>1 DEF Copies
  <2> QED BY <2>1, <2>2
<1> QED BY <1>2, <1>3 DEF Forwarding

(* memcpy: only the new cell is written. *)
LEMMA Copying ==
    ASSUME IInv, Collecting, NEW p \in Old \cup {NIL}
    PROVE  /\ Copy(p) \in [Cells -> Contents]
           /\ \A c \in Used \cup Old : Copy(p)[c] = mem[c]
           /\ Copied(p) => p \in Old /\ Copy(p)[heap] = mem[p]
<1>1. Old \subseteq Cells /\ Used \subseteq Cells /\ mem \in [Cells -> Contents]
  BY Spaces DEF IInv, TypeOK, Contents
<1>2. CASE Copied(p)
  <2>1. p \in Old /\ heap < HeapEnd
    BY <1>2, Room, SizeAssumption DEF Copied, NoRoom, IInv, TypeOK, HeapEnd
  <2>2. heap \in Cells /\ heap \notin Used /\ heap \notin Old
    BY <2>1, Spaces DEF IInv
  <2> QED BY <1>1, <1>2, <2>1, <2>2 DEF Copy
<1>3. CASE ~Copied(p)
  BY <1>1, <1>3 DEF Copy
<1> QED BY <1>2, <1>3

-----------------------------------------------------------------------------
(* Where the words of the cells lead. *)

LEMMA UsedWords ==
    ASSUME IInv, NEW c \in Used, NEW s \in SlotNames
    PROVE  mem[c].slot[s] \in {NIL} \cup Used \cup Here
<1>1. CASE s \in SlotsOf(mem[c].type)
  BY <1>1 DEF IInv, NoStrayPointers, Passed, Here, Collecting, NeverFatal, TypeOK
<1>2. CASE s \notin SlotsOf(mem[c].type)
  BY <1>2 DEF IInv, Blank
<1> QED BY <1>1, <1>2

LEMMA HereWords ==
    ASSUME IInv, NEW c \in Here, NEW s \in SlotNames
    PROVE  mem[c].slot[s] \in Here \cup {NIL}
<1>1. CASE s \notin SlotsOf(mem[c].type)
  BY <1>1 DEF IInv, Blank
<1>2. CASE s \in SlotsOf(mem[c].type) /\ Collecting
  BY <1>2 DEF IInv, OldWords, Here
<1>3. CASE s \in SlotsOf(mem[c].type) /\ ~Collecting
  BY <1>3, UsedWords DEF Here
<1> QED BY <1>1, <1>2, <1>3

LEMMA Relocating ==
    ASSUME IInv, Collecting, Collecting', NEW p \in Old \cup {NIL}, Relocate(p),
           org' = org, end' = end,
           \A c \in Old : mem'[c] = mem[c],
           \A c \in Used : mem'[c].id = mem[c].id,
           Copied(p) => mem'[heap] = mem[p]
    PROVE  /\ \A q \in Used \cup Old \cup {NIL} : ObjectIn(mem', q) = Object(q)
           /\ ObjectIn(mem', Relocated(p)) = Object(p)
<1>1. NIL \notin Used \cup Old
  BY Spaces, NilAssumption DEF IInv
<1>2. ASSUME NEW q \in Used \cup Old \cup {NIL} PROVE ObjectIn(mem', q) = Object(q)
  BY <1>1 DEF Object, ObjectIn
<1>3. ObjectIn(mem', Relocated(p)) = Object(p)
  <2>1. CASE p = NIL
    BY <2>1, Relocation DEF Object, ObjectIn
  <2>2. CASE Copied(p)
    <3>1. Relocated(p) = heap /\ heap \in Used'
      BY <2>2, Relocation DEF Relocated, Copied
    <3>2. heap # NIL /\ p # NIL
      BY <2>2, Relocation, NilAssumption DEF Copied
    <3> QED BY <2>2, <3>1, <3>2 DEF Object, ObjectIn
  <2>3. CASE p # NIL /\ ~Copied(p)
    <3>1. p \in Copies /\ Relocated(p) = forward[p] /\ forward[p] \in Used
      BY <2>3 DEF Copied, Relocated, Copies, IInv, Forwarding
    <3>2. mem[forward[p]].id = mem[p].id
      BY <3>1 DEF IInv, Twins, Twin
    <3>3. forward[p] # NIL
      BY <3>1, <1>1
    <3>4. ObjectIn(mem', Relocated(p)) = mem'[forward[p]].id
      BY <3>1, <3>3 DEF Object, ObjectIn
    <3>5. Object(p) = mem[p].id
      BY <2>3 DEF Object
    <3> QED BY <3>1, <3>2, <3>4, <3>5
  <2> QED BY <2>1, <2>2, <2>3 DEF Copied
<1> QED BY <1>2, <1>3

(* Copies stay twins while a word is relocated. *)
LEMMA TwinsStep ==
    ASSUME IInv, Collecting, Collecting', NEW p \in Old \cup {NIL}, Relocate(p),
           org' = org, end' = end,
           \A c \in Old : mem'[c] = mem[c],
           Copied(p) => mem'[heap] = mem[p],
           \A c \in Used : /\ mem'[c].id = mem[c].id /\ mem'[c].type = mem[c].type
                           /\ \A s \in SlotNames :
                                 \/ mem'[c].slot[s] = mem[c].slot[s]
                                 \/ /\ mem[c].slot[s] = p
                                    /\ mem'[c].slot[s] = Relocated(p)
    PROVE  Twins'
<1>1. /\ Old' = Old /\ Used' \subseteq Used \cup {heap}
      /\ \A c \in Old : forward'[c] = IF c = p THEN Relocated(p) ELSE forward[c]
  BY Relocation
<1>2. NIL \notin Old \cup Used
  BY Spaces, NilAssumption DEF IInv
<1>3. /\ \A q \in Used \cup Old \cup {NIL} : ObjectIn(mem', q) = Object(q)
      /\ ObjectIn(mem', Relocated(p)) = Object(p)
  BY Relocating
<1>4. ASSUME NEW c \in Old, NEW s \in SlotNames
      PROVE  ObjectIn(mem', mem'[c].slot[s]) = Object(mem[c].slot[s])
  <2>1. mem[c].slot[s] \in Old \cup {NIL} /\ mem'[c].slot[s] = mem[c].slot[s]
    BY HereWords DEF Here
  <2> QED BY <1>3, <2>1
<1>5. ASSUME NEW c \in Copies
      PROVE  /\ TwinIn(mem', c, forward[c])
             /\ forward'[c] = forward[c]
  <2> PICK u : u = forward[c]
    OBVIOUS
  <2>1. u \in Used /\ c \in Old /\ Twin(c, u)
    BY <1>5 DEF Copies, IInv, Forwarding, Twins
  <2>2. forward'[c] = u
    <3>1. CASE c = p
      BY <1>1, <1>2, <1>5, <2>1, <3>1 DEF Relocated, Copied, Copies
    <3> QED BY <1>1, <2>1, <3>1
  <2>3. ASSUME NEW s \in SlotNames
        PROVE  ObjectIn(mem', mem'[u].slot[s]) = Object(mem[u].slot[s])
    <3>1. mem[u].slot[s] \in Used \cup Old \cup {NIL}
      BY <2>1, UsedWords DEF Here
    <3>2. CASE mem'[u].slot[s] = mem[u].slot[s]
      BY <1>3, <3>1, <3>2
    <3>3. CASE mem[u].slot[s] = p /\ mem'[u].slot[s] = Relocated(p)
      BY <1>3, <3>3
    <3> QED BY <2>1, <3>2, <3>3
  <2>4. ASSUME NEW s \in SlotNames
        PROVE  ObjectIn(mem', mem'[u].slot[s]) = ObjectIn(mem', mem'[c].slot[s])
    BY <1>4, <2>1, <2>3 DEF Twin
  <2>5. TwinIn(mem', c, u)
    BY <2>1, <2>4 DEF Twin, TwinIn
  <2> QED BY <2>2, <2>5
<1>6. ASSUME Copied(p) PROVE TwinIn(mem', p, heap) /\ forward'[p] = heap /\ p \in Old
  <2>1. p \in Old /\ forward'[p] = heap
    BY <1>1, <1>6 DEF Copied, Relocated
  <2>2. mem'[heap] = mem'[p]
    BY <1>6, <2>1
  <2> QED BY <2>1, <2>2 DEF TwinIn
<1>7. \A c \in Old : c \in Copies' <=> (c \in Copies \/ (c = p /\ Copied(p)))
  <2>1. ASSUME NEW c \in Old PROVE c \in Copies' <=> (c \in Copies \/ (c = p /\ Copied(p)))
    <3>1. CASE c # p
      BY <1>1, <3>1 DEF Copies
    <3>2. CASE c = p /\ Copied(p)
      <4>1. forward'[c] # NIL
        BY <1>6, <3>2, Relocation, NilAssumption
      <4> QED BY <1>1, <3>2, <4>1 DEF Copies
    <3>3. CASE c = p /\ ~Copied(p)
      BY <1>1, <1>2, <3>3 DEF Copies, Relocated, Copied
    <3> QED BY <3>1, <3>2, <3>3
  <2> QED BY <2>1
<1>8. \A c \in Copies' : TwinIn(mem', c, forward'[c])
  BY <1>1, <1>5, <1>6, <1>7 DEF Copies
<1>9. ASSUME NEW u \in Used' PROVE \E c \in Copies' : forward'[c] = u
  <2>1. CASE u \in Used
    <3>1. PICK c \in Copies : forward[c] = u
      BY <2>1 DEF IInv, Twins
    <3>2. c \in Copies' /\ c \in Old
      BY <1>7, <3>1 DEF Copies
    <3>3. forward'[c] = u
      BY <1>1, <1>2, <3>1, <3>2 DEF Relocated, Copied, Copies
    <3> QED BY <3>2, <3>3
  <2>2. CASE u \notin Used
    <3>1. u = heap /\ Copied(p)
      BY <1>1, <2>2, Relocation
    <3> QED BY <1>6, <1>7, <3>1
  <2> QED BY <2>1, <2>2
<1> QED BY <1>8, <1>9 DEF Twins, Twin, TwinIn, Object, ObjectIn

-----------------------------------------------------------------------------
(* The steps of the program. *)

LEMMA Starts == Init => IInv
<1> SUFFICES ASSUME Init PROVE IInv
  OBVIOUS
<1>1. Used = {} /\ ~Collecting
  BY DEF Init, Used, Collecting
<1>2. Junk \in Contents
  BY SomeType, SizeAssumption, IdsAssumption, FS_EmptySet DEF Junk, Contents, NoWords, Word
<1>3. TypeOK
  BY <1>2, SizeAssumption DEF Init, TypeOK, Contents, HeapEnd, Word
<1> QED
  BY <1>1, <1>3 DEF Init, IInv, NeverFatal, NoStrayPointers, OldSpace, StackLeft, Scanned,
     OldWords, Unmarked, Forwarding, Twins, Distinct, Blank, Here

LEMMA ReadSafe == ASSUME IInv, Read \/ EndEvaluation PROVE IInv'
<1>1. /\ UNCHANGED <<mem, forward, heap, org, end, regs, buffers, toScan, ptr, done>>
      /\ pc' \in {"repl", "eval"} /\ stack' \subseteq stack /\ ~Collecting /\ ~Collecting'
      /\ (pc' = "repl" => stack' = {})
  BY DEF Read, EndEvaluation, space, loops, Collecting
<1>2. Used' = Used /\ HeapEnd' = HeapEnd
  BY <1>1 DEF Used, HeapEnd
<1>3. TypeOK'
  BY <1>1, <1>2 DEF IInv, TypeOK
<1>4. NoStrayPointers'
  BY <1>1, <1>2 DEF IInv, NoStrayPointers, Passed, Collecting
<1>5. Distinct' /\ Blank'
  BY <1>1, <1>2 DEF IInv, Distinct, Blank, Here
<1> QED
  BY <1>1, <1>2, <1>3, <1>4, <1>5 DEF IInv, NeverFatal, OldSpace, StackLeft, Scanned,
     OldWords, Unmarked, Forwarding, Twins, Collecting

LEMMA StoreRegisterSafe ==
    ASSUME IInv, NEW r \in Registers, NEW v \in Used \cup {NIL}, StoreRegister(r, v)
    PROVE  IInv'
<1>1. /\ UNCHANGED <<mem, forward, heap, org, end, stack, buffers, pc, toScan, ptr, done>>
      /\ pc = "eval" /\ ~Collecting /\ ~Collecting'
      /\ regs' = [regs EXCEPT ![r] = v]
  BY DEF StoreRegister, space, loops, Collecting
<1>2. Used' = Used /\ HeapEnd' = HeapEnd /\ Used \subseteq Cells
  BY <1>1, Spaces DEF Used, HeapEnd, IInv
<1>3. TypeOK'
  BY <1>1, <1>2 DEF IInv, TypeOK, Word
<1>4. NoStrayPointers'
  BY <1>1, <1>2 DEF IInv, NoStrayPointers, Passed, Collecting, TypeOK
<1>5. Distinct' /\ Blank'
  BY <1>1, <1>2 DEF IInv, Distinct, Blank, Here
<1> QED
  BY <1>1, <1>2, <1>3, <1>4, <1>5 DEF IInv, NeverFatal, OldSpace, StackLeft, Scanned,
     OldWords, Unmarked, Forwarding, Twins

LEMMA StoreSafe ==
    ASSUME IInv, NEW c \in Used, NEW s \in SlotNames, NEW v \in Used \cup {NIL},
           Store(c, s, v)
    PROVE  IInv'
<1>1. /\ UNCHANGED <<forward, heap, org, end, regs, stack, buffers, pc, toScan, ptr, done>>
      /\ pc = "eval" /\ ~Collecting /\ ~Collecting'
      /\ s \in SlotsOf(mem[c].type)
      /\ mem' = [mem EXCEPT ![c].slot[s] = v]
  BY DEF Store, space, loops, Collecting
<1>2. Used' = Used /\ HeapEnd' = HeapEnd /\ Used \subseteq Cells
  BY <1>1, Spaces DEF Used, HeapEnd, IInv
<1>3. /\ mem' \in [Cells -> Contents]
      /\ \A d \in Used : /\ mem'[d].id = mem[d].id /\ mem'[d].type = mem[d].type
                         /\ \A z \in SlotNames : mem'[d].slot[z] =
                               IF d = c /\ z = s THEN v ELSE mem[d].slot[z]
  BY <1>1, <1>2 DEF IInv, TypeOK, Contents, Word
<1>4. TypeOK'
  BY <1>1, <1>2, <1>3 DEF IInv, TypeOK, Contents
<1>5. NoStrayPointers'
  <2>1. ASSUME NEW d \in Used, NEW z \in SlotsOf(mem'[d].type)
        PROVE  mem'[d].slot[z] \in {NIL} \cup Used
    <3>1. z \in SlotNames
      BY ZenonT(60), <1>3, <2>1, <1>2 DEF SlotNames, IInv, TypeOK
    <3> QED BY <1>1, <1>3, <2>1, <3>1 DEF IInv, NoStrayPointers, Passed
  <2> QED BY <1>1, <1>2, <2>1 DEF IInv, NoStrayPointers, Passed
<1>6. Distinct' /\ Blank'
  BY <1>1, <1>2, <1>3 DEF IInv, Distinct, Blank, Here
<1> QED
  BY <1>1, <1>2, <1>4, <1>5, <1>6 DEF IInv, NeverFatal, OldSpace, StackLeft, Scanned,
     OldWords, Unmarked, Forwarding, Twins

LEMMA NewCellSafe ==
    ASSUME IInv, NEW t \in Types, NEW w \in Words(t, Held), NewCell(t, w)
    PROVE  IInv'
<1>1. /\ UNCHANGED <<org, end, regs, pc, toScan, ptr, done>>
      /\ pc = "eval" /\ ~Collecting /\ ~Collecting' /\ heap < HeapEnd
      /\ mem' = [mem EXCEPT ![heap] = [type |-> t, id |-> NewId, slot |-> w]]
      /\ forward' = [forward EXCEPT ![heap] = NIL]
      /\ heap' = heap + 1 /\ stack' = stack \cup {heap}
      /\ buffers' \subseteq buffers \cup {NewId}
  BY DEF NewCell, loops, Collecting
<1>2. /\ Used' = Used \cup {heap} /\ HeapEnd' = HeapEnd /\ Used \subseteq Cells
      /\ heap \in Cells \ Used
  BY <1>1, Spaces, UsedGrows DEF IInv, HeapEnd
<1>3. NewId \in Ids /\ \A c \in Used : mem[c].id # NewId
  BY <1>1, NewIdentity DEF IInv
<1>4. /\ w \in [SlotNames -> Used \cup {NIL}]
      /\ \A s \in SlotNames \ SlotsOf(t) : w[s] = NIL
  BY DEF Words, Held
<1>5. [type |-> t, id |-> NewId, slot |-> w] \in Contents
  BY <1>2, <1>3, <1>4 DEF Contents, Word
<1>6. /\ mem' \in [Cells -> Contents] /\ \A c \in Used : mem'[c] = mem[c]
      /\ mem'[heap] = [type |-> t, id |-> NewId, slot |-> w]
  BY <1>1, <1>2, <1>5 DEF IInv, TypeOK, Contents
<1>7. TypeOK'
  <2>1. heap' \in org..HeapEnd
    BY <1>1, SizeAssumption DEF IInv, TypeOK, HeapEnd
  <2>2. forward' \in [Cells -> Word]
    BY <1>1 DEF IInv, TypeOK, Word
  <2> QED
    BY <1>1, <1>2, <1>3, <1>6, <2>1, <2>2 DEF IInv, TypeOK, Contents
<1>8. NoStrayPointers'
  <2>1. ASSUME NEW d \in Used', NEW z \in SlotsOf(mem'[d].type)
        PROVE  mem'[d].slot[z] \in {NIL} \cup Used'
    <3>1. CASE d \in Used
      BY <1>1, <1>2, <1>6, <2>1, <3>1 DEF IInv, NoStrayPointers, Passed
    <3>2. CASE d = heap
      <4>1. z \in SlotNames
        BY <1>6, <2>1, <3>2 DEF SlotNames
      <4> QED BY <1>2, <1>4, <1>6, <3>2, <4>1
    <3> QED BY <1>2, <3>1, <3>2
  <2> QED BY <1>1, <1>2, <2>1 DEF IInv, NoStrayPointers, Passed
<1>9. Distinct'
  BY <1>1, <1>2, <1>3, <1>6 DEF IInv, Distinct, Here
<1>10. Blank'
  BY <1>1, <1>2, <1>4, <1>6 DEF IInv, Blank, Here
<1>11. Unmarked'
  BY <1>1, <1>2 DEF IInv, Unmarked, TypeOK
<1> QED
  BY <1>1, <1>7, <1>8, <1>9, <1>10, <1>11 DEF IInv, NeverFatal, OldSpace, StackLeft,
     Scanned, OldWords, Forwarding, Twins

LEMMA EvaluateSafe == ASSUME IInv, Evaluate PROVE IInv'
<1>1. Held \subseteq Used
  BY DEF Held
<1>2. CASE \E r \in Registers, v \in Held \cup {NIL} : StoreRegister(r, v)
  BY <1>1, <1>2, StoreRegisterSafe
<1>3. CASE \E c \in Held, s \in SlotNames, v \in Held \cup {NIL} : Store(c, s, v)
  BY <1>1, <1>3, StoreSafe
<1>4. CASE \E t \in Types : \E w \in Words(t, Held) : NewCell(t, w)
  BY <1>4, NewCellSafe
<1> QED BY <1>2, <1>3, <1>4 DEF Evaluate

-----------------------------------------------------------------------------
(* The steps of a collection. *)

(* What was used is old, and nothing is used yet. *)
LEMMA StartSafe == ASSUME IInv, StartCollection PROVE IInv'
<1>1. /\ UNCHANGED <<mem, forward, regs, stack, buffers, ptr, done>>
      /\ pc = "repl" /\ pc' = "registers" /\ ~Collecting /\ Collecting'
      /\ heap' = OtherOrg /\ org' = OtherOrg /\ end' = heap /\ toScan' = Registers
  BY DEF StartCollection, Collecting
<1>2. OtherOrg \in {1, HeapSize + 1} /\ OtherOrg' = org /\ OtherOrg # org
  BY <1>1, SizeAssumption DEF IInv, TypeOK, OtherOrg
<1>3. Used' = {} /\ Old' = Used
  BY <1>1, <1>2, SizeAssumption DEF Used, Old
<1>4. TypeOK'
  BY <1>1, <1>2, SizeAssumption DEF IInv, TypeOK, HeapEnd
<1>5. OldSpace'
  BY <1>1, <1>2 DEF OldSpace, IInv, TypeOK, HeapEnd
<1>6. stack = {} /\ StackLeft'
  BY <1>1 DEF IInv, StackLeft
<1>7. NoStrayPointers'
  BY <1>1, <1>3, <1>6 DEF IInv, NoStrayPointers
<1>8. OldWords'
  BY <1>1, <1>3 DEF IInv, OldWords, NoStrayPointers, Passed
<1>9. Forwarding' /\ Twins'
  <2>1. Copies' = {}
    BY <1>1, <1>3 DEF Copies, IInv, Unmarked
  <2>2. heap' - org' = 0
    BY <1>1, <1>2, SizeAssumption
  <2> QED
    BY <1>1, <1>3, <2>1, <2>2, FS_EmptySet DEF Forwarding, Twins, IInv, Unmarked
<1>10. Distinct' /\ Blank'
  BY <1>1, <1>3 DEF IInv, Distinct, Blank, Here
<1> QED
  BY <1>1, <1>3, <1>4, <1>5, <1>6, <1>7, <1>8, <1>9, <1>10
  DEF IInv, NeverFatal, Scanned, Unmarked

LEMMA ScanRegisterSafe ==
    ASSUME IInv, NEW r \in Registers, ScanRegister(r)
    PROVE  IInv'
<1> DEFINE p == regs[r]
<1>1. pc = "registers" /\ r \in toScan /\ Collecting
  BY DEF ScanRegister, Collecting
<1>2. p \in Old \cup {NIL}
  BY <1>1 DEF IInv, NoStrayPointers
<1>3. ~NoRoom(p)
  BY <1>1, <1>2, Room
<1>4. /\ Relocate(p) /\ mem' = Copy(p)
      /\ regs' = [regs EXCEPT ![r] = Relocated(p)] /\ toScan' = toScan \ {r}
      /\ UNCHANGED <<org, end, stack, buffers, pc, ptr, done>> /\ Collecting'
  BY <1>3 DEF ScanRegister, Collecting
<1> HIDE DEF p
<1>5. /\ heap' \in org..HeapEnd /\ heap' >= heap
      /\ OtherOrg' = OtherOrg /\ HeapEnd' = HeapEnd /\ Old' = Old
      /\ Used \subseteq Used' /\ Used' \subseteq Used \cup {heap}
      /\ Copied(p) => heap \in Used' /\ heap \notin Used /\ heap \in Cells \ Old
      /\ ~Copied(p) => Used' = Used
      /\ p # NIL => Relocated(p) \in Used'
      /\ p = NIL => Relocated(p) = NIL
      /\ forward' \in [Cells -> Word]
      /\ \A c \in Used' : forward'[c] = NIL
  BY <1>1, <1>2, <1>4, Relocation
<1>6. /\ mem' \in [Cells -> Contents]
      /\ \A c \in Used \cup Old : mem'[c] = mem[c]
      /\ Copied(p) => p \in Old /\ mem'[heap] = mem[p]
  BY <1>1, <1>2, <1>4, Copying
<1>7. Used' \subseteq Cells
  BY <1>5, Spaces DEF IInv
<1>8. TypeOK'
  <2>1. regs' \in [Registers -> Word]
    BY <1>4, <1>5, <1>7 DEF IInv, TypeOK, Word
  <2> QED BY <1>4, <1>5, <1>6, <2>1 DEF IInv, TypeOK, Contents
<1>9. NoStrayPointers'
  <2>1. ASSUME NEW q \in Registers
        PROVE  regs'[q] \in {NIL} \cup (IF q \in toScan' THEN Old' ELSE Used')
    BY <1>1, <1>4, <1>5, <2>1 DEF IInv, NoStrayPointers, TypeOK
  <2>2. ASSUME NEW c \in Used', NEW s \in SlotsOf(mem'[c].type)
        PROVE  mem'[c].slot[s] \in {NIL} \cup Old
    <3>1. CASE c \in Used
      BY <1>1, <1>6, <2>2, <3>1 DEF IInv, NoStrayPointers, Passed
    <3>2. CASE c = heap /\ Copied(p)
      BY <1>1, <1>6, <2>2, <3>2 DEF IInv, OldWords
    <3> QED BY <1>5, <3>1, <3>2
  <2> QED BY <1>1, <1>4, <1>5, <2>1, <2>2 DEF IInv, NoStrayPointers, Passed
<1>10. OldWords'
  BY <1>1, <1>5, <1>6 DEF IInv, OldWords
<1>11. Forwarding'
  BY <1>1, <1>2, <1>4, Counting
<1>12. Twins'
  BY <1>1, <1>2, <1>4, <1>6, TwinsStep
<1>13. Distinct'
  BY <1>1, <1>4, <1>5, <1>6 DEF IInv, Distinct, Here
<1>14. Blank'
  <2> SUFFICES ASSUME NEW c \in Old \cup Used', NEW s \in SlotNames \ SlotsOf(mem'[c].type)
               PROVE  mem'[c].slot[s] = NIL
    BY <1>4, <1>5 DEF Blank, Here
  <2>1. CASE c \in Old \cup Used
    BY <1>1, <1>6, <2>1 DEF IInv, Blank, Here
  <2>2. CASE c = heap /\ Copied(p)
    BY <1>1, <1>6, <2>2 DEF IInv, Blank, Here
  <2> QED BY <1>5, <2>1, <2>2
<1>15. OldSpace' /\ StackLeft' /\ Scanned' /\ Unmarked' /\ NeverFatal'
  BY <1>1, <1>4, <1>5 DEF IInv, OldSpace, StackLeft, Scanned, Unmarked, NeverFatal
<1> QED
  BY <1>8, <1>9, <1>10, <1>11, <1>12, <1>13, <1>14, <1>15 DEF IInv

(* The cell and the word that a step of scan_newspace is at. *)
LEMMA Scans ==
    ASSUME IInv, NEW s \in SlotNames, ScanWord(s)
    PROVE  /\ pc = "scan" /\ Collecting /\ ptr < heap /\ ptr \in Used
           /\ s \in SlotsOf(mem[ptr].type) /\ s \notin done
BY DEF ScanWord, Collecting, ScannedSlots, IInv, Scanned, Used, TypeOK

LEMMA ScanWordSafe ==
    ASSUME IInv, NEW s \in SlotNames, ScanWord(s)
    PROVE  IInv'
<1> DEFINE p == mem[ptr].slot[s]
<1>1. /\ pc = "scan" /\ Collecting /\ ptr < heap /\ ptr \in Used
      /\ s \in SlotsOf(mem[ptr].type) /\ s \notin done
  BY Scans
<1>2. p \in Old \cup {NIL}
  BY <1>1, SizeAssumption DEF IInv, NoStrayPointers, Passed, TypeOK, HeapEnd
<1>3. ~NoRoom(p)
  BY <1>1, <1>2, Room
<1>4. /\ Relocate(p) /\ mem' = [Copy(p) EXCEPT ![ptr].slot[s] = Relocated(p)]
      /\ done' = done \cup {s}
      /\ UNCHANGED <<org, end, regs, stack, buffers, pc, toScan, ptr>> /\ Collecting'
  BY <1>3 DEF ScanWord, Collecting
<1>a. PICK q : q = p
  OBVIOUS
<1> HIDE DEF p
<1>5. /\ heap' \in org..HeapEnd /\ heap' >= heap
      /\ OtherOrg' = OtherOrg /\ HeapEnd' = HeapEnd /\ Old' = Old
      /\ Used \subseteq Used' /\ Used' \subseteq Used \cup {heap}
      /\ Copied(q) => heap \in Used' /\ heap \notin Used /\ heap \in Cells \ Old
      /\ ~Copied(q) => Used' = Used
      /\ q # NIL => Relocated(q) \in Used'
      /\ q = NIL => Relocated(q) = NIL
      /\ forward' \in [Cells -> Word]
      /\ \A c \in Used' : forward'[c] = NIL
  BY <1>1, <1>2, <1>4, <1>a, Relocation
<1>6. /\ Copy(q) \in [Cells -> Contents]
      /\ \A c \in Used \cup Old : Copy(q)[c] = mem[c]
      /\ Copied(q) => q \in Old /\ Copy(q)[heap] = mem[q]
  BY <1>1, <1>2, <1>a, Copying
<1>7. Used' \subseteq Cells /\ Old \subseteq Cells /\ Old \cap Used = {}
  BY <1>1, <1>5, Spaces DEF IInv
<1>8. Relocated(q) \in Word
  BY <1>5, <1>7 DEF Word
<1>9. /\ mem' \in [Cells -> Contents]
      /\ \A c \in Cells \ {ptr} : mem'[c] = Copy(q)[c]
      /\ mem'[ptr].id = mem[ptr].id /\ mem'[ptr].type = mem[ptr].type
      /\ \A z \in SlotNames :
            mem'[ptr].slot[z] = IF z = s THEN Relocated(q) ELSE mem[ptr].slot[z]
  <2>1. Copy(q)[ptr] = mem[ptr] /\ ptr \in Cells
    BY <1>1, <1>5, <1>6, <1>7
  <2>2. mem' = [Copy(q) EXCEPT ![ptr].slot[s] = Relocated(q)]
    BY <1>4, <1>a
  <2> HIDE DEF Copy
  <2> QED BY <1>6, <1>8, <2>1, <2>2 DEF Contents
<1>10. /\ \A c \in Old : mem'[c] = mem[c]
       /\ \A c \in Used \ {ptr} : mem'[c] = mem[c]
       /\ Copied(q) => q \in Old /\ mem'[heap] = mem[q]
  BY <1>1, <1>5, <1>6, <1>7, <1>9
<1>11. TypeOK'
  BY <1>4, <1>5, <1>9 DEF IInv, TypeOK, Contents
<1>12. NoStrayPointers'
  <2>1. \A r \in Registers : regs'[r] \in {NIL} \cup Used'
    BY <1>1, <1>4, <1>5 DEF IInv, NoStrayPointers
  <2>2. ASSUME NEW c \in Used', NEW z \in SlotsOf(mem'[c].type)
        PROVE  mem'[c].slot[z] \in {NIL} \cup (IF Passed(c, z)' THEN Used' ELSE Old)
    <3>1. Passed(c, z)' <=> c < ptr \/ (c = ptr /\ z \in done \cup {s})
      BY <1>1, <1>4 DEF Passed
    <3>2. CASE c \in Used \ {ptr}
      BY <1>1, <1>5, <1>10, <2>2, <3>1, <3>2 DEF IInv, NoStrayPointers, Passed
    <3>3. CASE c = ptr /\ z = s
      BY <1>1, <1>5, <1>9, <3>1, <3>3
    <3>4. CASE c = ptr /\ z # s
      <4>1. z \in SlotsOf(mem[ptr].type)
        BY <1>9, <2>2, <3>4
      <4>2. z \in SlotNames
        BY <1>1, <1>7, <1>5, <4>1 DEF SlotNames, IInv, TypeOK
      <4>3. Passed(c, z)' <=> Passed(c, z)
        BY <1>1, <3>1, <3>4 DEF Passed
      <4>4. mem[ptr].slot[z] \in {NIL} \cup (IF Passed(c, z) THEN Used ELSE Old)
        BY <1>1, <3>4, <4>1 DEF IInv, NoStrayPointers
      <4> QED BY <1>5, <1>9, <3>4, <4>2, <4>3, <4>4
    <3>5. CASE c = heap /\ Copied(q)
      <4>1. mem'[c].slot[z] \in Old \cup {NIL}
        BY <1>1, <1>10, <2>2, <3>5 DEF IInv, OldWords
      <4>2. ~Passed(c, z)'
        BY <1>1, <3>1, <3>5, SizeAssumption DEF IInv, TypeOK, HeapEnd
      <4> QED BY <4>1, <4>2
    <3> QED BY <1>5, <3>2, <3>3, <3>4, <3>5
  <2>3. pc' = "scan" /\ stack' \subseteq Used'
    BY <1>1, <1>4, <1>5 DEF IInv, NoStrayPointers
  <2> QED BY <1>5, <2>1, <2>2, <2>3 DEF NoStrayPointers
<1>13. OldWords'
  BY <1>1, <1>5, <1>10 DEF IInv, OldWords
<1>14. Forwarding'
  BY <1>1, <1>2, <1>4, Counting
<1>15. Twins'
  <2>1. \A c \in Used : /\ mem'[c].id = mem[c].id /\ mem'[c].type = mem[c].type
                        /\ \A z \in SlotNames :
                              \/ mem'[c].slot[z] = mem[c].slot[z]
                              \/ mem[c].slot[z] = q /\ mem'[c].slot[z] = Relocated(q)
    BY <1>9, <1>10, <1>a DEF p
  <2> QED BY <1>1, <1>2, <1>4, <1>10, <1>a, <2>1, TwinsStep
<1>16. Distinct'
  <2>1. Here' = Old /\ Here = Old
    BY <1>1, <1>4, <1>5 DEF Here
  <2> QED BY <1>10, <2>1 DEF IInv, Distinct
<1>17. Blank'
  <2> SUFFICES ASSUME NEW c \in Old \cup Used', NEW z \in SlotNames \ SlotsOf(mem'[c].type)
               PROVE  mem'[c].slot[z] = NIL
    BY <1>4, <1>5 DEF Blank, Here
  <2>1. CASE c \in Old \cup (Used \ {ptr})
    BY <1>1, <1>10, <2>1 DEF IInv, Blank, Here
  <2>2. CASE c = ptr
    BY <1>1, <1>9, <2>2 DEF IInv, Blank, Here
  <2>3. CASE c = heap /\ Copied(q)
    BY <1>1, <1>10, <2>3 DEF IInv, Blank, Here
  <2> QED BY <1>5, <2>1, <2>2, <2>3
<1>18. Scanned'
  BY <1>1, <1>4, <1>5, SizeAssumption DEF IInv, Scanned, TypeOK, HeapEnd
<1>19. OldSpace' /\ StackLeft' /\ Unmarked' /\ NeverFatal'
  BY <1>1, <1>4, <1>5 DEF IInv, OldSpace, StackLeft, Unmarked, NeverFatal
<1> QED
  BY <1>11, <1>12, <1>13, <1>14, <1>15, <1>16, <1>17, <1>18, <1>19 DEF IInv

(* The steps that only move on. *)
LEMMA MovesOnSafe ==
    ASSUME IInv, NoStructs, EndRegisters \/ ScanNext \/ EndScan \/ FreeCell
    PROVE  IInv'
<1>1. /\ UNCHANGED <<mem, forward, heap, org, end, regs, stack, toScan>>
      /\ buffers' \subseteq buffers /\ Collecting /\ Collecting'
      /\ pc' \in {"registers", "scan", "free"}
  BY DEF EndRegisters, ScanNext, EndScan, FreeCell, space, Collecting
<1>2. /\ Used' = Used /\ HeapEnd' = HeapEnd /\ OtherOrg' = OtherOrg /\ Old' = Old
      /\ Here' = Here /\ Copies' = Copies
  BY <1>1 DEF Used, HeapEnd, OtherOrg, Old, Here, Copies
<1>3. ptr' \in 1..(2 * HeapSize + 1) /\ done' \subseteq SlotNames /\ Scanned'
  BY <1>1, <1>2, SizeAssumption DEF EndRegisters, ScanNext, EndScan, FreeCell, IInv, TypeOK,
     Scanned, HeapEnd, OtherOrg, OldSpace
<1>4. TypeOK'
  BY <1>1, <1>2, <1>3 DEF IInv, TypeOK
<1>5. NoStrayPointers'
  <2> SUFFICES
        /\ \A r \in Registers :
              regs[r] \in {NIL} \cup (IF pc' = "registers" /\ r \in toScan THEN Old ELSE Used)
        /\ \A c \in Used : \A s \in SlotsOf(mem[c].type) :
              mem[c].slot[s] \in {NIL} \cup (IF Passed(c, s)' THEN Used ELSE Old)
    BY <1>1, <1>2 DEF IInv, NoStrayPointers
  <2>1. ASSUME NEW c \in Used, NEW s \in SlotsOf(mem[c].type)
        PROVE  Passed(c, s)' <=> Passed(c, s)
    <3>0. c \in Int /\ c < heap /\ c >= org /\ ptr \in Int /\ org \in Int
      BY SizeAssumption DEF IInv, TypeOK, Used, HeapEnd
    <3>1. CASE EndRegisters
      BY <3>0, <3>1 DEF EndRegisters, Passed
    <3>2. CASE ScanNext
      <4>1. c = ptr => s \in done
        <5>1. c \in Cells /\ mem[c].type \in Types
          BY Spaces DEF IInv, TypeOK
        <5>2. ScannedSlots(mem[c].type) = SlotsOf(mem[c].type)
          BY <5>1 DEF NoStructs, ScannedSlots
        <5> QED BY <3>2, <5>2 DEF ScanNext
      <4> QED BY <3>0, <3>2, <4>1 DEF ScanNext, Passed
    <3>3. CASE EndScan
      BY <3>0, <3>3 DEF EndScan, Passed
    <3>4. CASE FreeCell
      BY <3>4 DEF FreeCell, Passed
    <3> QED BY <3>1, <3>2, <3>3, <3>4
  <2>2. \A r \in Registers : (pc' = "registers" /\ r \in toScan)
                             <=> (pc = "registers" /\ r \in toScan)
    BY DEF EndRegisters, ScanNext, EndScan, FreeCell
  <2> QED BY <2>1, <2>2 DEF IInv, NoStrayPointers
<1>6. OldSpace' /\ StackLeft' /\ OldWords' /\ Unmarked' /\ NeverFatal'
  BY <1>1, <1>2 DEF IInv, OldSpace, StackLeft, OldWords, Unmarked, NeverFatal, Collecting
<1>7. Forwarding' /\ Distinct' /\ Blank'
  BY <1>1, <1>2 DEF IInv, Forwarding, Distinct, Blank
<1>8. Twins'
  BY <1>1, <1>2 DEF IInv, Twins, Twin, Object
<1> QED BY <1>3, <1>4, <1>5, <1>6, <1>7, <1>8 DEF IInv

(* Two copies with one identity are copies of the same cell. *)
LEMMA CopiesDistinct ==
    ASSUME IInv, Collecting, NEW u \in Used, NEW v \in Used, mem[u].id = mem[v].id
    PROVE  u = v
<1>1. PICK c \in Copies : forward[c] = u
  BY DEF IInv, Twins
<1>2. PICK d \in Copies : forward[d] = v
  BY DEF IInv, Twins
<1>3. mem[c].id = mem[u].id /\ mem[d].id = mem[v].id
  BY <1>1, <1>2 DEF IInv, Twins, Twin
<1>4. c \in Here /\ d \in Here
  BY <1>1, <1>2 DEF Copies, Here
<1> QED BY <1>1, <1>2, <1>3, <1>4 DEF IInv, Distinct

LEMMA EndCollectionSafe == ASSUME IInv, EndCollection PROVE IInv'
<1>1. /\ UNCHANGED <<heap, org, end, regs, stack, buffers, toScan>>
      /\ pc = "free" /\ pc' = "eval" /\ Collecting /\ ~Collecting'
      /\ mem' = [c \in Cells |-> IF c \in Used THEN mem[c] ELSE Junk]
      /\ forward' = [c \in Cells |-> IF forward[c] = NIL THEN NIL ELSE org]
      /\ ptr' = 1 /\ done' = {}
  BY DEF EndCollection, space, Collecting
<1>2. Used' = Used /\ HeapEnd' = HeapEnd /\ Used \subseteq Cells
  BY <1>1, Spaces DEF Used, HeapEnd, IInv
<1>3. Junk \in Contents
  BY SomeType, SizeAssumption, IdsAssumption, FS_EmptySet DEF Junk, Contents, NoWords, Word
<1>4. TypeOK'
  BY <1>1, <1>2, <1>3, SizeAssumption DEF IInv, TypeOK, Contents, Word
<1>5. \A c \in Used : mem'[c] = mem[c]
  BY <1>1, <1>2
<1>6. NoStrayPointers'
  BY <1>1, <1>2, <1>5 DEF IInv, NoStrayPointers, Passed
<1>7. Unmarked'
  BY <1>1, <1>2 DEF IInv, Unmarked
<1>8. Distinct'
  BY <1>1, <1>2, <1>5, CopiesDistinct DEF Distinct, Here
<1>9. Blank'
  BY <1>1, <1>2, <1>5 DEF IInv, Blank, Here
<1> QED
  BY <1>1, <1>4, <1>6, <1>7, <1>8, <1>9 DEF IInv, NeverFatal, OldSpace, StackLeft, Scanned,
     OldWords, Forwarding, Twins

LEMMA StuttersSafely == ASSUME IInv, UNCHANGED vars PROVE IInv'
<1>1. UNCHANGED <<mem, forward, heap, org, end, regs, stack, buffers, pc, toScan, ptr, done>>
  BY DEF vars
<1>2. /\ Used' = Used /\ HeapEnd' = HeapEnd /\ OtherOrg' = OtherOrg /\ Old' = Old
      /\ (Collecting' <=> Collecting) /\ Here' = Here /\ Copies' = Copies
  BY <1>1 DEF Used, HeapEnd, OtherOrg, Old, Collecting, Here, Copies
<1>3. TypeOK' /\ NeverFatal' /\ OldSpace' /\ StackLeft' /\ Scanned'
  BY <1>1, <1>2 DEF IInv, TypeOK, NeverFatal, OldSpace, StackLeft, Scanned
<1>4. NoStrayPointers' /\ OldWords'
  BY <1>1, <1>2 DEF IInv, NoStrayPointers, Passed, OldWords
<1>5. Unmarked' /\ Forwarding' /\ Distinct' /\ Blank'
  BY <1>1, <1>2 DEF IInv, Unmarked, Forwarding, Distinct, Blank
<1>6. Twins'
  BY <1>1, <1>2 DEF IInv, Twins, Twin, Object
<1> QED BY <1>3, <1>4, <1>5, <1>6 DEF IInv

LEMMA Steps == ASSUME NoStructs, IInv, [Next]_vars PROVE IInv'
<1>1. CASE Read \/ EndEvaluation
  BY <1>1, ReadSafe
<1>2. CASE Evaluate
  BY <1>2, EvaluateSafe
<1>3. CASE StartCollection
  BY <1>3, StartSafe
<1>4. CASE \E r \in Registers : ScanRegister(r)
  BY <1>4, ScanRegisterSafe
<1>5. CASE \E s \in SlotNames : ScanWord(s)
  BY <1>5, ScanWordSafe
<1>6. CASE EndRegisters \/ ScanNext \/ EndScan \/ FreeCell
  BY <1>6, MovesOnSafe
<1>7. CASE EndCollection
  BY <1>7, EndCollectionSafe
<1>8. CASE UNCHANGED vars
  BY <1>8, StuttersSafely
<1> QED
  BY <1>1, <1>2, <1>3, <1>4, <1>5, <1>6, <1>7, <1>8 DEF Next, CollectorStep

-----------------------------------------------------------------------------
(* What a step of scan_registers or scan_newspace does to the objects: a   *)
(* word p is relocated, that of a location or of a copy, and no more.      *)

LEMMA ScanStep ==
    ASSUME IInv, \/ \E r \in Registers : ScanRegister(r)
                 \/ \E s \in SlotNames : ScanWord(s)
    PROVE  \E p \in Old \cup {NIL} :
              /\ Relocate(p) /\ Collecting /\ Collecting'
              /\ UNCHANGED <<org, end, stack, buffers, pc>>
              /\ \A c \in Old : mem'[c] = mem[c]
              /\ \A c \in Used : mem'[c].id = mem[c].id /\ mem'[c].type = mem[c].type
              /\ Copied(p) => mem'[heap] = mem[p]
              /\ \A r \in Registers : \/ regs'[r] = regs[r]
                                      \/ regs[r] = p /\ regs'[r] = Relocated(p)
              /\ \/ p \in RegisterCells \cup {NIL}
                 \/ \E u \in Used : \E s \in SlotsOf(mem[u].type) : p = mem[u].slot[s]
<1>1. CASE \E r \in Registers : ScanRegister(r)
  <2>1. PICK r \in Registers : ScanRegister(r)
    BY <1>1
  <2>2. PICK p : p = regs[r]
    OBVIOUS
  <2>3. pc = "registers" /\ r \in toScan /\ Collecting /\ p \in Old \cup {NIL}
    BY <2>1, <2>2 DEF ScanRegister, Collecting, IInv, NoStrayPointers
  <2>4. ~NoRoom(p)
    BY <2>3, Room
  <2>5. /\ Relocate(p) /\ mem' = Copy(p) /\ regs' = [regs EXCEPT ![r] = Relocated(p)]
        /\ UNCHANGED <<org, end, stack, buffers, pc>> /\ Collecting'
    BY <2>1, <2>2, <2>3, <2>4 DEF ScanRegister, Collecting
  <2>6. /\ \A c \in Used \cup Old : mem'[c] = mem[c]
        /\ Copied(p) => mem'[heap] = mem[p]
    BY <2>3, <2>5, Copying
  <2>7. \A q \in Registers : regs'[q] = IF q = r THEN Relocated(p) ELSE regs[q]
    BY <2>5 DEF IInv, TypeOK
  <2>8. p \in RegisterCells \cup {NIL}
    BY <2>2 DEF RegisterCells
  <2> QED BY <2>2, <2>3, <2>5, <2>6, <2>7, <2>8
<1>2. CASE \E s \in SlotNames : ScanWord(s)
  <2>1. PICK s \in SlotNames : ScanWord(s)
    BY <1>2
  <2>2. PICK p : p = mem[ptr].slot[s]
    OBVIOUS
  <2>3. /\ pc = "scan" /\ Collecting /\ ptr \in Used
        /\ s \in SlotsOf(mem[ptr].type) /\ s \notin done
    BY <2>1, Scans
  <2>4. p \in Old \cup {NIL}
    BY <2>2, <2>3, SizeAssumption DEF IInv, NoStrayPointers, Passed, TypeOK, HeapEnd
  <2>5. ~NoRoom(p)
    BY <2>3, <2>4, Room
  <2>6. /\ Relocate(p) /\ mem' = [Copy(p) EXCEPT ![ptr].slot[s] = Relocated(p)]
        /\ UNCHANGED <<org, end, regs, stack, buffers, pc>> /\ Collecting'
    BY <2>1, <2>2, <2>3, <2>5 DEF ScanWord, Collecting
  <2>7. /\ Copy(p) \in [Cells -> Contents]
        /\ \A c \in Used \cup Old : Copy(p)[c] = mem[c]
        /\ Copied(p) => Copy(p)[heap] = mem[p] /\ heap \in Cells \ Used
    BY <2>3, <2>4, <2>6, Copying, Relocation
  <2>8. Used \subseteq Cells /\ Old \subseteq Cells /\ Old \cap Used = {}
    BY <2>3, Spaces DEF IInv
  <2>9. /\ \A c \in Cells \ {ptr} : mem'[c] = Copy(p)[c]
        /\ mem'[ptr].id = mem[ptr].id /\ mem'[ptr].type = mem[ptr].type
    <3>1. Copy(p)[ptr] = mem[ptr] /\ ptr \in Cells
      BY <2>3, <2>7, <2>8
    <3> HIDE DEF Copy
    <3> QED BY <2>6, <2>7, <3>1 DEF Contents
  <2>10. /\ \A c \in Old : mem'[c] = mem[c]
         /\ \A c \in Used : mem'[c].id = mem[c].id /\ mem'[c].type = mem[c].type
         /\ Copied(p) => mem'[heap] = mem[p]
    BY <2>3, <2>7, <2>8, <2>9
  <2> QED BY <2>2, <2>3, <2>4, <2>6, <2>10
<1> QED BY <1>1, <1>2

-----------------------------------------------------------------------------
(* The data of arrays. *)

(* The cells whose data is to be there. *)
Owning == {c \in Used : mem[c].type \in Owners}
          \cup {c \in Remaining : mem[c].type \in Owners /\ forward[c] = NIL}

LEMMA BuffersOfOwning == BuffersOwned <=> buffers = {mem[c].id : c \in Owning}
BY DEF BuffersOwned, Owning

LEMMA BuffersStart == Init => BuffersOwned
BY DEF Init, BuffersOwned, Used, Remaining, Collecting

LEMMA BuffersStep ==
    ASSUME IInv, IInv', BuffersOwned, [Next]_vars
    PROVE  BuffersOwned'
<1>0. buffers = {mem[c].id : c \in Owning}
  BY BuffersOfOwning
<1>a. ASSUME buffers' = buffers, Owning' = Owning,
             \A c \in Owning : mem'[c].id = mem[c].id
      PROVE  BuffersOwned'
  BY <1>0, <1>a DEF BuffersOwned, Owning
<1>1. CASE Read \/ EndEvaluation \/ \E r \in Registers, v \in Held \cup {NIL} : StoreRegister(r, v)
  <2>1. UNCHANGED <<mem, forward, heap, org, end, buffers, ptr>> /\ ~Collecting /\ ~Collecting'
        /\ pc # "free" /\ pc' # "free"
    BY <1>1 DEF Read, EndEvaluation, StoreRegister, space, loops, Collecting
  <2>2. Used' = Used /\ Owning' = Owning
    BY <2>1 DEF Used, Owning, Remaining
  <2> QED BY <1>a, <2>1, <2>2
<1>2. CASE \E c \in Held, s \in SlotNames, v \in Held \cup {NIL} : Store(c, s, v)
  <2>1. PICK c \in Held, s \in SlotNames, v \in Held \cup {NIL} : Store(c, s, v)
    BY <1>2
  <2>2. /\ mem' = [mem EXCEPT ![c].slot[s] = v]
        /\ UNCHANGED <<forward, heap, org, end, buffers, ptr, pc>> /\ ~Collecting
        /\ ~Collecting' /\ pc # "free"
    BY <2>1 DEF Store, space, loops, Collecting
  <2>3. Used' = Used /\ Used \subseteq Cells
    BY <2>2, Spaces DEF Used, IInv
  <2>4. \A d \in Used : mem'[d].id = mem[d].id /\ mem'[d].type = mem[d].type
    BY <2>2, <2>3 DEF IInv, TypeOK
  <2>5. Owning' = Owning /\ Owning \subseteq Used
    BY <2>2, <2>3, <2>4 DEF Owning, Remaining
  <2> QED BY <1>a, <2>2, <2>4, <2>5
<1>3. CASE \E t \in Types : \E w \in Words(t, Held) : NewCell(t, w)
  <2>1. PICK t \in Types : \E w \in Words(t, Held) : NewCell(t, w)
    BY <1>3
  <2>2. PICK w \in Words(t, Held) : NewCell(t, w)
    BY <2>1
  <2>3. /\ mem' = [mem EXCEPT ![heap] = [type |-> t, id |-> NewId, slot |-> w]]
        /\ UNCHANGED <<org, end, ptr, pc>> /\ ~Collecting /\ ~Collecting'
        /\ pc # "free" /\ pc' # "free" /\ heap' = heap + 1 /\ heap < HeapEnd
        /\ buffers' = IF t \in Owners THEN buffers \cup {NewId} ELSE buffers
    BY <2>2 DEF NewCell, loops, Collecting
  <2>4. Used' = Used \cup {heap} /\ heap \in Cells \ Used /\ Used \subseteq Cells
    BY <2>3, Spaces, UsedGrows DEF IInv
  <2>5. /\ \A c \in Used : mem'[c] = mem[c]
        /\ mem'[heap].type = t /\ mem'[heap].id = NewId
    BY <2>3, <2>4 DEF IInv, TypeOK
  <2>6. Owning = {c \in Used : mem[c].type \in Owners}
        /\ Owning' = {c \in Used' : mem'[c].type \in Owners}
    BY <2>3 DEF Owning, Remaining
  <2>7. Owning' = IF t \in Owners THEN Owning \cup {heap} ELSE Owning
    BY <2>4, <2>5, <2>6
  <2>8. buffers' = {mem'[c].id : c \in Owning'}
    <3>1. \A c \in Owning : mem'[c].id = mem[c].id
      BY <2>5, <2>6
    <3>2. CASE t \in Owners
      BY <1>0, <2>3, <2>5, <2>7, <3>1, <3>2
    <3>3. CASE t \notin Owners
      BY <1>0, <2>3, <2>7, <3>1, <3>3
    <3> QED BY <3>2, <3>3
  <2> QED BY <2>8 DEF BuffersOwned, Owning
<1>4. CASE StartCollection
  <2>1. /\ UNCHANGED <<mem, forward, buffers>> /\ ~Collecting /\ Collecting'
        /\ heap' = OtherOrg /\ org' = OtherOrg /\ end' = heap /\ pc' = "registers"
        /\ pc = "repl"
    BY <1>4 DEF StartCollection, Collecting
  <2>2. Used' = {} /\ Old' = Used
    BY <2>1, SizeAssumption DEF Used, Old, IInv, TypeOK, OtherOrg
  <2>3. Owning' = Owning
    BY <2>1, <2>2 DEF Owning, Remaining, IInv, Unmarked
  <2> QED BY <1>a, <2>1, <2>3
<1>5. CASE \/ \E r \in Registers : ScanRegister(r)
           \/ \E s \in SlotNames : ScanWord(s)
  <2>1. PICK p \in Old \cup {NIL} :
              /\ Relocate(p) /\ Collecting /\ Collecting'
              /\ UNCHANGED <<org, end, stack, buffers, pc>>
              /\ \A c \in Old : mem'[c] = mem[c]
              /\ \A c \in Used : mem'[c].id = mem[c].id /\ mem'[c].type = mem[c].type
              /\ Copied(p) => mem'[heap] = mem[p]
    BY <1>5, ScanStep
  <2>2. /\ Old' = Old /\ Used \subseteq Used' /\ Used' \subseteq Used \cup {heap}
        /\ Copied(p) => heap \in Used' /\ heap \notin Used /\ heap # NIL
        /\ ~Copied(p) => Used' = Used
        /\ \A c \in Old : forward'[c] = IF c = p THEN Relocated(p) ELSE forward[c]
    BY <2>1, Relocation, NilAssumption
  <2>3. Remaining = Old /\ Remaining' = Old
    BY <1>5, <2>1, <2>2 DEF Remaining, ScanRegister, ScanWord
  <2>4. CASE ~Copied(p)
    <3>1. forward' = forward /\ Used' = Used
      BY <2>1, <2>2, <2>4 DEF Relocate
    <3>2. Owning' = Owning
      BY <2>1, <2>3, <3>1 DEF Owning
    <3>3. \A c \in Owning : mem'[c].id = mem[c].id
      BY <2>1, <2>3 DEF Owning
    <3> QED BY <1>a, <2>1, <3>2, <3>3
  <2>5. CASE Copied(p)
    <3>1. p \in Old /\ forward[p] = NIL /\ forward'[p] # NIL /\ mem'[heap] = mem[p]
      BY <2>1, <2>2, <2>5 DEF Copied, Relocated
    <3>2. Used' = Used \cup {heap}
      BY <2>2, <2>5
    <3>3. Owning' = (Owning \ ({p} \ Used))
                      \cup {c \in {heap} : mem[p].type \in Owners}
      <4>1. {c \in Used' : mem'[c].type \in Owners} =
              {c \in Used : mem[c].type \in Owners} \cup {c \in {heap} : mem[p].type \in Owners}
        BY <2>1, <2>2, <2>5, <3>1, <3>2
      <4>2. {c \in Old : mem'[c].type \in Owners /\ forward'[c] = NIL} =
              {c \in Old : mem[c].type \in Owners /\ forward[c] = NIL} \ {p}
        BY <2>1, <2>2, <3>1
      <4>3. Old \cap Used = {}
        BY <2>1, Spaces DEF IInv
      <4> QED BY <2>3, <3>1, <4>1, <4>2, <4>3 DEF Owning
    <3>4. p \notin Used /\ (p \in Owning <=> mem[p].type \in Owners)
      <4>1. Old \cap Used = {}
        BY <2>1, Spaces DEF IInv
      <4> QED BY <2>3, <3>1, <4>1 DEF Owning
    <3>5. \A c \in Owning : mem'[c].id = mem[c].id
      BY <2>1, <2>3 DEF Owning
    <3>6. {mem'[c].id : c \in Owning'} = {mem[c].id : c \in Owning}
      <4>1. CASE mem[p].type \in Owners
        <5>1. Owning' = (Owning \ {p}) \cup {heap}
          BY <3>3, <3>4, <4>1
        <5> QED BY <3>1, <3>4, <3>5, <4>1, <5>1
      <4>2. CASE mem[p].type \notin Owners
        <5>1. Owning' = Owning
          BY <3>3, <3>4, <4>2
        <5> QED BY <3>5, <5>1
      <4> QED BY <4>1, <4>2
    <3> QED BY <1>0, <2>1, <3>6 DEF BuffersOwned, Owning
  <2> QED BY <2>4, <2>5
<1>6. CASE EndRegisters \/ ScanNext \/ EndScan
  <2>1. /\ UNCHANGED <<mem, forward, heap, org, end, buffers>> /\ Collecting /\ Collecting'
        /\ pc # "free" /\ (pc' = "free" => ptr' = OtherOrg)
    BY <1>6 DEF EndRegisters, ScanNext, EndScan, space, Collecting
  <2>2. Used' = Used /\ Old' = Old /\ OtherOrg' = OtherOrg
    BY <2>1 DEF Used, Old, OtherOrg
  <2>3. Remaining' = Remaining
    BY <2>1, <2>2 DEF Remaining, Old
  <2>4. Owning' = Owning
    BY <2>1, <2>2, <2>3 DEF Owning
  <2> QED BY <1>a, <2>1, <2>4
<1>7. CASE FreeCell
  <2>1. /\ UNCHANGED <<mem, forward, heap, org, end, pc>> /\ pc = "free" /\ ptr' = ptr + 1
        /\ ptr < end /\ Collecting /\ Collecting'
        /\ buffers' = IF forward[ptr] = NIL /\ mem[ptr].type \in Owners
                      THEN buffers \ {mem[ptr].id} ELSE buffers
    BY <1>7 DEF FreeCell, space, Collecting
  <2>2. Used' = Used
    BY <2>1 DEF Used
  <2>3. /\ Remaining' = Remaining \ {ptr} /\ ptr \in Remaining
        /\ Remaining \subseteq Old
    <3>1. ptr \in Int /\ end \in Int /\ OtherOrg \in Int /\ ptr >= OtherOrg
      BY <2>1, SizeAssumption DEF IInv, TypeOK, Scanned, OtherOrg
    <3>2. Remaining = ptr..(end - 1) /\ Remaining' = (ptr + 1)..(end - 1)
      BY <2>1 DEF Remaining
    <3> QED BY <2>1, <3>1, <3>2 DEF Old
  <2>4. Old \cap Used = {}
    BY <2>1, Spaces DEF IInv
  <2>5. Owning' = IF forward[ptr] = NIL THEN Owning \ {ptr} ELSE Owning
    BY <2>1, <2>2, <2>3, <2>4 DEF Owning
  <2>6. ASSUME forward[ptr] = NIL, NEW c \in Owning, mem[c].id = mem[ptr].id
        PROVE  c = ptr
    <3>1. CASE c \in Used
      <4>1. PICK d \in Copies : forward[d] = c
        BY <2>1, <3>1 DEF IInv, Twins
      <4>2. mem[d].id = mem[ptr].id /\ d \in Here /\ ptr \in Here
        BY <2>1, <2>3, <2>6, <4>1 DEF IInv, Twins, Twin, Copies, Here
      <4>3. d = ptr
        BY <4>2 DEF IInv, Distinct
      <4> QED BY <2>6, <4>1, <4>3 DEF Copies
    <3>2. CASE c \notin Used
      <4>1. c \in Here /\ ptr \in Here
        BY <2>1, <2>3, <3>2 DEF Owning, Here
      <4> QED BY <2>6, <4>1 DEF IInv, Distinct
    <3> QED BY <3>1, <3>2
  <2>7. buffers' = {mem[c].id : c \in Owning'}
    <3>1. CASE forward[ptr] # NIL
      BY <1>0, <2>1, <2>5, <3>1
    <3>2. CASE forward[ptr] = NIL /\ mem[ptr].type \in Owners
      BY <1>0, <2>1, <2>5, <2>6, <3>2
    <3>3. CASE forward[ptr] = NIL /\ mem[ptr].type \notin Owners
      <4>1. ptr \notin Owning
        BY <3>3 DEF Owning
      <4> QED BY <1>0, <2>1, <2>5, <3>3, <4>1
    <3> QED BY <3>1, <3>2, <3>3
  <2> QED BY <2>1, <2>7 DEF BuffersOwned, Owning
<1>8. CASE EndCollection
  <2>1. /\ UNCHANGED <<heap, org, end, buffers>> /\ pc = "free" /\ pc' = "eval"
        /\ ptr = end /\ ~Collecting'
        /\ mem' = [c \in Cells |-> IF c \in Used THEN mem[c] ELSE Junk]
    BY <1>8 DEF EndCollection, space, Collecting
  <2>2. Used' = Used /\ Used \subseteq Cells
    BY <2>1, Spaces DEF Used, IInv
  <2>3. Remaining = {} /\ Remaining' = {}
    BY <2>1, SizeAssumption DEF Remaining, IInv, TypeOK
  <2>4. Owning' = Owning /\ Owning \subseteq Used
    BY <2>1, <2>2, <2>3 DEF Owning
  <2> QED BY <1>a, <2>1, <2>2, <2>4
<1>9. CASE UNCHANGED vars
  <2>1. UNCHANGED <<mem, forward, heap, org, end, buffers, pc, ptr>>
    BY <1>9 DEF vars
  <2>2. Owning' = Owning
    BY <2>1 DEF Owning, Used, Remaining, Collecting, Old, OtherOrg
  <2> QED BY <1>a, <2>1, <2>2
<1> QED
  BY <1>1, <1>2, <1>3, <1>4, <1>5, <1>6, <1>7, <1>8, <1>9
  DEF Next, Evaluate, CollectorStep

-----------------------------------------------------------------------------
(* The state of the collector is what it should be, in every state. *)
THEOREM Consistent == NoStructs => (Spec => []IInv)
<1> SUFFICES ASSUME NoStructs PROVE Spec => []IInv
  OBVIOUS
<1>1. IInv /\ [Next]_vars => IInv'
  BY Steps
<1> QED BY <1>1, Starts, PTL DEF Spec

(* Type correctness, for any size of the spaces. *)
THEOREM TypeCorrect == NoStructs => (Spec => []TypeOK)
<1>1. IInv => TypeOK
  BY DEF IInv
<1> QED BY <1>1, Consistent, PTL

(* A collection never runs out of room: gc_relocate finds a cell for every *)
(* object it copies.                                                       *)
THEOREM RoomForAll == NoStructs => (Spec => []NeverFatal)
<1>1. IInv => NeverFatal
  BY DEF IInv
<1> QED BY <1>1, Consistent, PTL

(* No location or word of an object in use leads to a cell that has been   *)
(* left, nor, after the scan has passed it, to one about to be.            *)
THEOREM NothingStrays == NoStructs => (Spec => []NoStrayPointers)
<1>1. IInv => NoStrayPointers
  BY DEF IInv
<1> QED BY <1>1, Consistent, PTL

(* The malloc'ed data that there is, is that of the objects in use, and of *)
(* the old ones not copied that free_oldspace has not come to: none is     *)
(* lost, none given back early.                                            *)
THEOREM BuffersKept == NoStructs => (Spec => []BuffersOwned)
<1> SUFFICES ASSUME NoStructs PROVE Spec => []BuffersOwned
  OBVIOUS
<1>1. Init => IInv /\ BuffersOwned
  BY Starts, BuffersStart
<1>2. IInv /\ BuffersOwned /\ [Next]_vars => (IInv /\ BuffersOwned)'
  BY Steps, BuffersStep
<1> QED BY <1>1, <1>2, PTL DEF Spec

-----------------------------------------------------------------------------
(***************************************************************************)
(* StopAndCopy implements Collector: the program, which sees objects and   *)
(* not where they are, cannot tell this collector from one that moves      *)
(* nothing and lets go, at one stroke, of exactly what is out of reach.    *)
(*                                                                         *)
(* What is seen of an object is read off any of its cells, as twins hold   *)
(* the same.  So a collection shows nothing until it ends; by then what is *)
(* in the new space has been reached (Reached), and is closed.             *)
(***************************************************************************)

(* The view of the objects, cell by cell. *)
Seen ==
    /\ Objects = {mem[c].id : c \in Here} /\ Objects \subseteq Ids
    /\ \A c \in Here : /\ objectType[mem[c].id] = mem[c].type
                       /\ \A s \in SlotNames :
                             objectSlot[mem[c].id][s] = Object(mem[c].slot[s])
    /\ \A i \in Ids \ Objects : /\ objectType[i] = FREE
                                /\ \A s \in SlotNames : objectSlot[i][s] = NIL

(* All that a collection has copied is in reach. *)
Reached == Collecting => \A u \in Used : mem[u].id \in C!Live

-----------------------------------------------------------------------------
(* The view. *)

LEMMA PlaceOf ==
    ASSUME IInv, NEW c \in Here
    PROVE  LET q == Place(mem[c].id) IN
           /\ mem[q].type = mem[c].type
           /\ \A s \in SlotNames : Object(mem[q].slot[s]) = Object(mem[c].slot[s])
<1>1. PICK q : q = Place(mem[c].id)
  OBVIOUS
<1>2. CASE \E u \in Used : mem[u].id = mem[c].id
  <2>1. q \in Used /\ mem[q].id = mem[c].id
    BY <1>1, <1>2 DEF Place
  <2>2. CASE Collecting
    <3>1. PICK d \in Copies : forward[d] = q
      BY <2>1, <2>2 DEF IInv, Twins
    <3>2. Twin(d, q) /\ d \in Here
      BY <2>2, <3>1 DEF IInv, Twins, Copies, Here
    <3>3. d = c
      BY <2>1, <3>2 DEF IInv, Distinct, Twin
    <3> QED BY <1>1, <3>2, <3>3 DEF Twin
  <2>3. CASE ~Collecting
    <3>1. q = c
      BY <2>1, <2>3 DEF IInv, Distinct, Here
    <3> QED BY <1>1, <3>1
  <2> QED BY <2>2, <2>3
<1>3. CASE ~\E u \in Used : mem[u].id = mem[c].id
  <2>1. c \in Old /\ Collecting
    BY <1>3 DEF Here
  <2>2. q \in Old /\ mem[q].id = mem[c].id
    BY <1>1, <1>3, <2>1 DEF Place
  <2>3. q = c
    BY <2>1, <2>2 DEF IInv, Distinct, Here
  <2> QED BY <1>1, <2>3
<1> QED BY <1>2, <1>3

LEMMA HereCells == ASSUME IInv PROVE Here \subseteq Cells /\ NIL \notin Here
BY Spaces, NilAssumption DEF IInv, Here

LEMMA SeesNow == IInv => Seen
<1> SUFFICES ASSUME IInv PROVE Seen
  OBVIOUS
<1>1. Objects = {mem[c].id : c \in Here}
  BY DEF Objects, Here
<1>2. \A c \in Here : mem[c].id \in Ids
  BY HereCells DEF IInv, TypeOK
<1>3. ASSUME NEW c \in Here
      PROVE  /\ objectType[mem[c].id] = mem[c].type
             /\ \A s \in SlotNames : objectSlot[mem[c].id][s] = Object(mem[c].slot[s])
  <2>1. mem[c].id \in Objects /\ mem[c].id \in Ids
    BY <1>1, <1>2
  <2> QED BY <2>1, PlaceOf DEF objectType, objectSlot
<1>4. \A i \in Ids \ Objects : /\ objectType[i] = FREE
                               /\ \A s \in SlotNames : objectSlot[i][s] = NIL
  BY DEF objectType, objectSlot
<1> QED BY <1>1, <1>2, <1>3, <1>4 DEF Seen

LEMMA SeesThen == IInv' => Seen'
<1>1. IInv => Seen
  BY SeesNow
<1> QED BY <1>1, PTL

(* Types and words of objects do not change with what nobody sees. *)
LEMMA SameView ==
    ASSUME IInv, IInv', Here' = Here, \A c \in Here : mem'[c] = mem[c]
    PROVE  objectType' = objectType /\ objectSlot' = objectSlot /\ Objects' = Objects
<1>1. Seen /\ Seen'
  BY SeesNow, SeesThen
<1>2. Objects' = Objects /\ Objects \subseteq Ids /\ Objects = {mem[c].id : c \in Here}
  BY <1>1 DEF Seen
<1>3. ASSUME NEW i \in Ids
      PROVE  /\ objectType'[i] = objectType[i]
             /\ \A s \in SlotNames : objectSlot'[i][s] = objectSlot[i][s]
  <2>1. CASE i \in Objects
    <3>1. PICK c \in Here : mem[c].id = i
      BY <1>2, <2>1
    <3>2. mem'[c] = mem[c] /\ \A s \in SlotNames : mem[c].slot[s] \in Here \cup {NIL}
      BY HereWords
    <3>3. \A s \in SlotNames : ObjectIn(mem', mem'[c].slot[s]) = Object(mem[c].slot[s])
      BY <3>2 DEF Object, ObjectIn
    <3>4. /\ objectType'[i] = mem'[c].type
          /\ \A s \in SlotNames : objectSlot'[i][s] = ObjectIn(mem', mem'[c].slot[s])
      BY <1>1, <3>1 DEF Seen, Object, ObjectIn
    <3> QED BY <1>1, <3>1, <3>2, <3>3, <3>4 DEF Seen
  <2>2. CASE i \notin Objects
    BY <1>1, <1>2, <2>2 DEF Seen
  <2> QED BY <2>1, <2>2
<1>4. objectType' = objectType
  <2>1. /\ objectType = [i \in Ids |-> objectType[i]]
        /\ objectType' = [i \in Ids |-> objectType'[i]]
    BY DEF objectType
  <2> QED BY <1>3, <2>1
<1>5. objectSlot' = objectSlot
  <2>1. /\ objectSlot = [i \in Ids |-> [s \in SlotNames |-> objectSlot[i][s]]]
        /\ objectSlot' = [i \in Ids |-> [s \in SlotNames |-> objectSlot'[i][s]]]
    BY DEF objectSlot
  <2> QED BY <1>3, <2>1
<1> QED BY <1>2, <1>4, <1>5

(* The program's roots are those of the view. *)
LEMMA RootsSeen ==
    ASSUME IInv
    PROVE  /\ RegisterCells \cup stack \subseteq Here \cup Used
           /\ objectRoots = {mem[c].id : c \in RegisterCells \cup stack}
           /\ objectRoots \subseteq Objects
<1>1. NIL \notin Here \cup Used
  BY Spaces, HereCells, NilAssumption DEF IInv
<1>2. RegisterCells \cup stack \subseteq Here \cup Used
  BY DEF RegisterCells, IInv, NoStrayPointers, Here, Collecting
<1>3. objectRoots = {mem[c].id : c \in RegisterCells \cup stack}
  BY <1>1, <1>2 DEF objectRoots, Object
<1>4. \A u \in Used : \E c \in Here : mem[c].id = mem[u].id
  BY DEF IInv, Twins, Twin, Here, Copies
<1>5. Objects = {mem[c].id : c \in Here}
  BY DEF Objects, Here
<1> QED BY <1>2, <1>3, <1>4, <1>5

RootsOfCells == objectRoots = {mem[c].id : c \in RegisterCells \cup stack}

LEMMA RootsThen == IInv' => RootsOfCells'
<1>1. IInv => RootsOfCells
  BY RootsSeen DEF RootsOfCells
<1> QED BY <1>1, PTL

(* What is in reach of the program, in the view. *)
LEMMA InReach ==
    ASSUME IInv
    PROVE  /\ C!Live \subseteq Objects /\ objectRoots \subseteq C!Live
           /\ \A i \in C!Live : \A s \in SlotsOf(objectType[i]) :
                 objectSlot[i][s] \in C!Live \cup {NIL}
           /\ \A S \in SUBSET Ids :
                 /\ objectRoots \subseteq S
                 /\ \A i \in S : \A s \in SlotsOf(objectType[i]) : objectSlot[i][s] \in S \cup {NIL}
                 => C!Live \subseteq S
<1>1. C!Live = {i \in Ids : \A S \in SUBSET Ids :
                  (/\ objectRoots \subseteq S
                   /\ \A j \in S : \A s \in SlotsOf(objectType[j]) :
                         objectSlot[j][s] \in S \cup {NIL}) => i \in S}
  BY DEF C!Live, C!Reachable, C!Closed, C!SlotsOf, SlotsOf
<1> PICK t, l : t = objectType /\ l = objectSlot
  OBVIOUS
<1>2. Seen /\ objectRoots \subseteq Objects
  BY SeesNow, RootsSeen
<1>3. ASSUME NEW i \in Objects, NEW s \in SlotsOf(t[i])
      PROVE  l[i][s] \in Objects \cup {NIL}
  <2>1. PICK c \in Here : mem[c].id = i
    BY <1>2 DEF Seen
  <2>2. t[i] = mem[c].type
    BY <1>2, <2>1 DEF Seen
  <2>3. s \in SlotNames
    BY <1>3, <2>2, HereCells DEF SlotNames, IInv, TypeOK
  <2>4. l[i][s] = Object(mem[c].slot[s])
    BY <1>2, <2>1, <2>3 DEF Seen
  <2>5. mem[c].slot[s] \in Here \cup {NIL}
    BY <2>3, HereWords
  <2> QED BY <1>2, <2>4, <2>5 DEF Object, Seen
<1>4. Objects \subseteq Ids /\ objectRoots \subseteq Ids
  BY <1>2 DEF Seen
<1>5. C!Live \subseteq Objects
  BY <1>1, <1>2, <1>3, <1>4
<1> HIDE DEF C!Live
<1>6. objectRoots \subseteq C!Live
  BY <1>1, <1>4
<1>7. ASSUME NEW i \in C!Live, NEW s \in SlotsOf(t[i])
      PROVE  l[i][s] \in C!Live \cup {NIL}
  <2>1. l[i][s] \in Ids \cup {NIL}
    BY <1>3, <1>4, <1>5
  <2> QED BY <1>1, <2>1
<1> QED BY <1>1, <1>5, <1>6, <1>7

LEMMA SameReach ==
    ASSUME objectType' = objectType, objectSlot' = objectSlot, objectRoots' = objectRoots
    PROVE  C!Live' = C!Live
BY DEF C!Live, C!Reachable, C!Closed, C!SlotsOf

(* The words of a cell in use, in the view. *)
LEMMA UsedSeen ==
    ASSUME IInv, NEW u \in Used
    PROVE  /\ objectType[mem[u].id] = mem[u].type /\ mem[u].id \in Ids
           /\ \A s \in SlotNames : objectSlot[mem[u].id][s] = Object(mem[u].slot[s])
<1>1. Seen
  BY SeesNow
<1>2. CASE Collecting
  <2>1. PICK c \in Copies : forward[c] = u
    BY <1>2 DEF IInv, Twins
  <2>2. Twin(c, u) /\ c \in Here
    BY <1>2, <2>1 DEF IInv, Twins, Copies, Here
  <2> QED BY <1>1, <2>2 DEF Twin, Seen
<1>3. CASE ~Collecting
  BY <1>1, <1>3 DEF Seen, Here
<1> QED BY <1>2, <1>3

(* Whatever a closed set of cells with the roots holds is in reach. *)
LEMMA HeldInReach ==
    ASSUME IInv, ~Collecting, NEW c \in Held
    PROVE  c \in Used /\ mem[c].id \in C!Live
<1> DEFINE S == {d \in Used : mem[d].id \in C!Live}
<1>1. RegisterCells \cup stack \subseteq S
  <2>1. RegisterCells \cup stack \subseteq Used
    BY RootsSeen DEF Here
  <2>2. \A d \in RegisterCells \cup stack : mem[d].id \in C!Live
    BY RootsSeen, InReach
  <2> QED BY <2>1, <2>2
<1>2. ASSUME NEW d \in S, NEW s \in SlotsOf(mem[d].type)
      PROVE  mem[d].slot[s] \in S \cup {NIL}
  <2>1. d \in Here /\ d \in Used /\ mem[d].id \in C!Live
    BY DEF Here
  <2>2. s \in SlotNames
    BY <1>2, <2>1, HereCells DEF SlotNames, IInv, TypeOK
  <2>3. mem[d].slot[s] \in Used \cup {NIL}
    BY <2>1, <2>2, HereWords DEF Here
  <2>4. objectType[mem[d].id] = mem[d].type
        /\ objectSlot[mem[d].id][s] = Object(mem[d].slot[s])
    BY <2>1, <2>2, UsedSeen
  <2>5. Object(mem[d].slot[s]) \in C!Live \cup {NIL}
    BY <1>2, <2>1, <2>4, InReach
  <2>6. mem[d].slot[s] # NIL => Object(mem[d].slot[s]) \in C!Live
    <3>1. ASSUME mem[d].slot[s] # NIL PROVE Object(mem[d].slot[s]) # NIL
      <4>1. mem[mem[d].slot[s]].id \in Ids
        BY <2>3, <3>1, UsedSeen
      <4> QED BY <3>1, <4>1, IdsAssumption DEF Object
    <3> QED BY <2>5, <3>1
  <2> QED BY <2>3, <2>6 DEF Object
<1>3. S \subseteq Used
  OBVIOUS
<1>4. c \in S
  <2> HIDE DEF S
  <2> QED BY <1>1, <1>2, <1>3 DEF Held
<1> QED BY <1>4

(* What a collection leaves is what was in reach. *)
LEMMA Left ==
    ASSUME IInv, Reached, EndCollection
    PROVE  C!Live = {mem[u].id : u \in Used}
<1>1. pc = "free" /\ Collecting
  BY DEF EndCollection, Collecting
<1>2. {mem[u].id : u \in Used} \subseteq C!Live
  BY <1>1 DEF Reached
<1> DEFINE S == {mem[u].id : u \in Used}
<1>3. S \in SUBSET Ids
  BY UsedSeen
<1>4. objectRoots \subseteq S
  <2>1. RegisterCells \cup stack \subseteq Used
    BY <1>1 DEF RegisterCells, IInv, NoStrayPointers
  <2> QED BY <2>1, RootsSeen
<1>5. ASSUME NEW i \in S, NEW s \in SlotsOf(objectType[i])
      PROVE  objectSlot[i][s] \in S \cup {NIL}
  <2>1. PICK u \in Used : mem[u].id = i
    OBVIOUS
  <2>2. objectType[i] = mem[u].type /\ u \in Cells
    BY <2>1, UsedSeen, Spaces DEF IInv
  <2>3. s \in SlotNames /\ s \in SlotsOf(mem[u].type)
    <3>1. s \in SlotsOf(mem[u].type)
      BY <1>5, <2>2
    <3> QED BY <2>2, <3>1 DEF SlotNames, IInv, TypeOK
  <2>4. objectSlot[i][s] = Object(mem[u].slot[s])
    BY <2>1, <2>3, UsedSeen
  <2>5. mem[u].slot[s] \in Used \cup {NIL}
    BY <1>1, <2>3 DEF IInv, NoStrayPointers, Passed
  <2> QED BY <2>4, <2>5 DEF Object
<1>6. C!Live \subseteq S
  <2> HIDE DEF S
  <2> QED BY <1>3, <1>4, <1>5, InReach
<1> QED BY <1>2, <1>6

-----------------------------------------------------------------------------
(* A step of scan_registers or scan_newspace shows nothing, and copies     *)
(* only what is in reach.                                                  *)
LEMMA ScanSeesNothing ==
    ASSUME IInv, IInv', Reached, \/ \E r \in Registers : ScanRegister(r)
                                 \/ \E s \in SlotNames : ScanWord(s)
    PROVE  /\ objectType' = objectType /\ objectSlot' = objectSlot
           /\ objectRoots' = objectRoots /\ Reached'
<1>1. PICK p \in Old \cup {NIL} :
              /\ Relocate(p) /\ Collecting /\ Collecting'
              /\ UNCHANGED <<org, end, stack, buffers, pc>>
              /\ \A c \in Old : mem'[c] = mem[c]
              /\ \A c \in Used : mem'[c].id = mem[c].id /\ mem'[c].type = mem[c].type
              /\ Copied(p) => mem'[heap] = mem[p]
              /\ \A r \in Registers : \/ regs'[r] = regs[r]
                                      \/ regs[r] = p /\ regs'[r] = Relocated(p)
              /\ \/ p \in RegisterCells \cup {NIL}
                 \/ \E u \in Used : \E s \in SlotsOf(mem[u].type) : p = mem[u].slot[s]
  BY ScanStep
<1>2. /\ Old' = Old /\ Used' \subseteq Used \cup {heap} /\ (~Copied(p) => Used' = Used)
      /\ NIL \notin Used \cup Old /\ NIL \notin Used'
      /\ p # NIL => Relocated(p) \in Used'
      /\ p = NIL => Relocated(p) = NIL
  <2>1. Used' \subseteq Used \cup {heap} /\ (Copied(p) => heap \in Cells \ Old)
        /\ (~Copied(p) => Used' = Used)
    BY <1>1, Relocation
  <2>2. Used \cup Old \subseteq Cells
    BY <1>1, Spaces DEF IInv
  <2> QED BY <1>1, <2>1, <2>2, Relocation, NilAssumption
<1>3. objectType' = objectType /\ objectSlot' = objectSlot
  BY <1>1, <1>2, SameView DEF Here
<1>4. /\ \A q \in Used \cup Old \cup {NIL} : ObjectIn(mem', q) = Object(q)
      /\ ObjectIn(mem', Relocated(p)) = Object(p)
  BY <1>1, Relocating
<1>5. objectRoots' = objectRoots
  <2>1. stack = {} /\ stack' = {}
    BY <1>1 DEF IInv, StackLeft, Collecting
  <2>2. \A r \in Registers : regs[r] \in Used \cup Old \cup {NIL}
    BY DEF IInv, NoStrayPointers
  <2>3. ASSUME NEW r \in Registers
        PROVE  /\ regs'[r] = NIL <=> regs[r] = NIL
               /\ ObjectIn(mem', regs'[r]) = Object(regs[r])
    BY <1>1, <1>2, <1>4, <2>2
  <2>4. objectRoots = {Object(regs[r]) : r \in {z \in Registers : regs[z] # NIL}}
    BY <2>1 DEF objectRoots, RegisterCells
  <2>5. objectRoots' = {ObjectIn(mem', regs'[r]) : r \in {z \in Registers : regs'[z] # NIL}}
    BY <2>1 DEF objectRoots, RegisterCells, Object, ObjectIn
  <2> QED BY <2>3, <2>4, <2>5
<1>6. C!Live' = C!Live
  BY <1>3, <1>5, SameReach
<1>7. ASSUME NEW u \in Used' PROVE mem'[u].id \in C!Live
  <2>1. CASE u \in Used
    BY <1>1, <2>1 DEF Reached
  <2>2. CASE u \notin Used
    <3>1. u = heap /\ Copied(p) /\ mem'[u] = mem[p] /\ p # NIL
      BY <1>1, <1>2, <2>2 DEF Copied
    <3>2. Object(p) \in C!Live \cup {NIL}
      <4>1. CASE p \in RegisterCells
        BY <4>1, InReach DEF objectRoots
      <4>2. CASE \E v \in Used : \E s \in SlotsOf(mem[v].type) : p = mem[v].slot[s]
        <5>0. PICK v \in Used : \E s \in SlotsOf(mem[v].type) : p = mem[v].slot[s]
          BY <4>2
        <5>1. PICK s \in SlotsOf(mem[v].type) : p = mem[v].slot[s]
          BY <5>0
        <5>2. s \in SlotNames
          <6>1. v \in Cells
            BY Spaces DEF IInv
          <6> QED BY <5>1, <6>1 DEF SlotNames, IInv, TypeOK
        <5>3. mem[v].id \in C!Live /\ objectType[mem[v].id] = mem[v].type
              /\ objectSlot[mem[v].id][s] = Object(p)
          BY <1>1, <5>1, <5>2, UsedSeen DEF Reached
        <5>4. s \in SlotsOf(objectType[mem[v].id])
          BY <5>1, <5>3
        <5> QED BY <5>3, <5>4, InReach
      <4> QED BY <1>1, <3>1, <4>1, <4>2
    <3>3. Object(p) = mem[p].id /\ mem[p].id # NIL
      <4>1. p \in Cells
        BY <1>1, <3>1, Spaces DEF IInv
      <4> QED BY <3>1, <4>1, IdsAssumption DEF Object, IInv, TypeOK
    <3> QED BY <3>1, <3>2, <3>3
  <2> QED BY <2>1, <2>2
<1> QED BY <1>1, <1>3, <1>5, <1>6, <1>7 DEF Reached

(* Where no cell changes, the types and words do not. *)
LEMMA CellsKept ==
    ASSUME IInv, IInv', mem' = mem, Here' = Here
    PROVE  objectType' = objectType /\ objectSlot' = objectSlot
BY SameView

LEMMA OthersSeeNothing ==
    ASSUME IInv, IInv', Reached,
           \/ Read \/ StartCollection \/ EndRegisters \/ ScanNext \/ EndScan \/ FreeCell
           \/ UNCHANGED vars
    PROVE  /\ objectType' = objectType /\ objectSlot' = objectSlot
           /\ objectRoots' = objectRoots /\ Reached'
<1>1. UNCHANGED <<mem, regs, stack>>
  BY DEF Read, StartCollection, EndRegisters, ScanNext, EndScan, FreeCell, space, vars
<1>2. objectRoots' = objectRoots
  BY <1>1 DEF objectRoots, RegisterCells, Object
<1>3. CASE StartCollection
  <2>1. /\ ~Collecting /\ Collecting' /\ heap' = OtherOrg /\ org' = OtherOrg /\ end' = heap
    BY <1>3 DEF StartCollection, Collecting
  <2>2. Used' = {} /\ Old' = Used
    BY <2>1, SizeAssumption DEF Used, Old, IInv, TypeOK, OtherOrg
  <2>3. Here' = Here
    BY <2>1, <2>2 DEF Here
  <2> QED BY <1>1, <1>2, <2>2, <2>3, CellsKept DEF Reached
<1>4. CASE Read \/ EndRegisters \/ ScanNext \/ EndScan \/ FreeCell \/ UNCHANGED vars
  <2>1. UNCHANGED <<heap, org, end>> /\ (Collecting' <=> Collecting)
    BY <1>4 DEF Read, EndRegisters, ScanNext, EndScan, FreeCell, space, vars, Collecting
  <2>2. Used' = Used /\ Here' = Here
    BY <2>1 DEF Used, Here, Old, OtherOrg
  <2>3. objectType' = objectType /\ objectSlot' = objectSlot
    BY <1>1, <2>2, CellsKept
  <2>4. C!Live' = C!Live
    BY <1>2, <2>3, SameReach
  <2> QED BY <1>1, <1>2, <2>1, <2>2, <2>3, <2>4 DEF Reached
<1> QED BY <1>3, <1>4

-----------------------------------------------------------------------------
(* The steps the program sees. *)

(* An evaluation ends, or a location is set: the roots move. *)
LEMMA Moves ==
    ASSUME IInv, IInv', \/ EndEvaluation
                        \/ \E r \in Registers, v \in Held \cup {NIL} : StoreRegister(r, v)
    PROVE  C!Move /\ ~Collecting'
<1>1. /\ UNCHANGED <<mem, heap, org, end>> /\ ~Collecting /\ ~Collecting'
      /\ stack' \subseteq stack
      /\ RegisterCells' \subseteq RegisterCells \cup Held
  <2>1. CASE EndEvaluation
    BY <2>1 DEF EndEvaluation, space, Collecting, RegisterCells
  <2>2. CASE \E r \in Registers, v \in Held \cup {NIL} : StoreRegister(r, v)
    <3>1. PICK r \in Registers, v \in Held \cup {NIL} : StoreRegister(r, v)
      BY <2>2
    <3>2. regs' = [regs EXCEPT ![r] = v] /\ UNCHANGED <<mem, heap, org, end, stack>>
          /\ ~Collecting /\ ~Collecting'
      BY <3>1 DEF StoreRegister, space, Collecting
    <3>3. \A z \in Registers : regs'[z] = IF z = r THEN v ELSE regs[z]
      BY <3>2 DEF IInv, TypeOK
    <3> QED BY <3>2, <3>3 DEF RegisterCells
  <2> QED BY <2>1, <2>2
<1>2. Used' = Used /\ Here' = Here
  BY <1>1 DEF Used, Here
<1>3. objectType' = objectType /\ objectSlot' = objectSlot
  BY <1>1, <1>2, CellsKept
<1>4. objectRoots' = {mem[c].id : c \in RegisterCells' \cup stack'}
  BY <1>1, RootsThen DEF RootsOfCells
<1>5. \A c \in RegisterCells \cup stack \cup Held : mem[c].id \in C!Live
  BY <1>1, RootsSeen, InReach, HeldInReach
<1>6. objectRoots' \in SUBSET C!Live
  BY <1>1, <1>4, <1>5
<1> QED BY <1>1, <1>3, <1>6 DEF C!Move

(* A word of an object in reach is set. *)
LEMMA Writes ==
    ASSUME IInv, IInv', \E c \in Held, s \in SlotNames, v \in Held \cup {NIL} : Store(c, s, v)
    PROVE  C!Write /\ ~Collecting'
<1>1. PICK c \in Held, s \in SlotNames, v \in Held \cup {NIL} : Store(c, s, v)
  OBVIOUS
<1>2. /\ mem' = [mem EXCEPT ![c].slot[s] = v] /\ ~Collecting /\ ~Collecting'
      /\ UNCHANGED <<heap, org, end, regs, stack>>
  BY <1>1 DEF Store, space, Collecting
<1>3. Used' = Used /\ Here = Used /\ Here' = Used /\ Used \subseteq Cells /\ NIL \notin Used
  BY <1>2, Spaces, NilAssumption DEF Used, Here, IInv
<1>4. c \in Used /\ v \in Used \cup {NIL} /\ mem[c].id \in C!Live
  BY <1>2, HeldInReach
<1>5. \A d \in Used :
        /\ mem'[d].id = mem[d].id /\ mem'[d].type = mem[d].type
        /\ \A z \in SlotNames : mem'[d].slot[z] = IF d = c /\ z = s THEN v ELSE mem[d].slot[z]
  BY <1>2, <1>3, <1>4 DEF IInv, TypeOK
<1>6. \A q \in Used \cup {NIL} : ObjectIn(mem', q) = Object(q)
  BY <1>3, <1>5 DEF ObjectIn, Object
<1>7. Seen /\ Seen'
  BY SeesNow, SeesThen
<1>8. Objects' = Objects
  BY <1>3, <1>5, <1>7 DEF Seen
<1> PICK i : i = mem[c].id
  OBVIOUS
<1>9. ASSUME NEW j \in Ids
      PROVE  /\ objectType'[j] = objectType[j]
             /\ \A z \in SlotNames :
                  objectSlot'[j][z] = IF j = i /\ z = s THEN Object(v) ELSE objectSlot[j][z]
  <2>1. CASE j \in Objects
    <3>1. PICK d \in Used : mem[d].id = j
      BY <1>3, <1>7, <2>1 DEF Seen
    <3>2. j = i <=> d = c
      BY <1>3, <1>4, <3>1 DEF IInv, Distinct
    <3>3. \A z \in SlotNames :
             objectSlot'[j][z] = ObjectIn(mem', mem'[d].slot[z])
             /\ objectSlot[j][z] = Object(mem[d].slot[z])
      BY <1>3, <1>5, <1>7, <3>1 DEF Seen, Object, ObjectIn
    <3>4. \A z \in SlotNames : mem[d].slot[z] \in Used \cup {NIL}
      BY <1>3, HereWords
    <3>5. ASSUME NEW z \in SlotNames
          PROVE  objectSlot'[j][z] = IF j = i /\ z = s THEN Object(v) ELSE objectSlot[j][z]
      BY <1>4, <1>5, <1>6, <3>2, <3>3, <3>4
    <3>6. objectType'[j] = objectType[j]
      BY <1>3, <1>5, <1>7, <3>1 DEF Seen
    <3> QED BY <3>5, <3>6
  <2>2. CASE j \notin Objects
    <3>1. i \in Objects
      BY <1>3, <1>4, <1>7 DEF Seen
    <3> QED BY ZenonT(60), <1>7, <1>8, <2>2, <3>1 DEF Seen
  <2> QED BY <2>1, <2>2
<1>10. objectType' = objectType
  <2>1. /\ objectType = [j \in Ids |-> objectType[j]]
        /\ objectType' = [j \in Ids |-> objectType'[j]]
    BY DEF objectType
  <2> QED BY <1>9, <2>1
<1>11. objectSlot' = [objectSlot EXCEPT ![i][s] = Object(v)]
  <2>1. /\ objectSlot = [j \in Ids |-> [z \in SlotNames |-> objectSlot[j][z]]]
        /\ objectSlot' = [j \in Ids |-> [z \in SlotNames |-> objectSlot'[j][z]]]
    BY DEF objectSlot
  <2>2. i \in Ids /\ s \in SlotNames
    BY <1>4, UsedSeen
  <2> DEFINE row == [objectSlot[i] EXCEPT ![s] = Object(v)]
  <2>3. row = [z \in SlotNames |-> IF z = s THEN Object(v) ELSE objectSlot[i][z]]
    BY <2>1, <2>2
  <2>4. ASSUME NEW j \in Ids
        PROVE  objectSlot'[j] = IF j = i THEN row ELSE objectSlot[j]
    <3> DEFINE old == objectSlot[j]
               new == objectSlot'[j]
    <3>1. new = [z \in SlotNames |-> new[z]] /\ old = [z \in SlotNames |-> old[z]]
      BY <2>1
    <3>2. \A z \in SlotNames : new[z] = IF j = i /\ z = s THEN Object(v) ELSE old[z]
      BY <1>9
    <3>3. j = i => row = [z \in SlotNames |-> IF z = s THEN Object(v) ELSE old[z]]
      BY <2>3
    <3> HIDE DEF row, old, new
    <3>4. CASE j = i
      BY <3>1, <3>2, <3>3, <3>4 DEF new
    <3>5. CASE j # i
      <4>1. new = old
        BY <3>1, <3>2, <3>5
      <4> QED BY <4>1, <3>5 DEF new, old
    <3> QED BY <3>4, <3>5
  <2>5. objectSlot' = [j \in Ids |-> objectSlot'[j]] /\ objectSlot = [j \in Ids |-> objectSlot[j]]
    BY DEF objectSlot
  <2> HIDE DEF row
  <2>6. objectSlot' = [objectSlot EXCEPT ![i] = row]
    BY <2>2, <2>4, <2>5
  <2> QED BY <2>6 DEF row
<1>12. objectRoots' = objectRoots
  <2>1. RegisterCells \cup stack \subseteq Used /\ RegisterCells' = RegisterCells
    BY <1>2, <1>3, RootsSeen DEF RegisterCells
  <2>2. objectRoots' = {ObjectIn(mem', q) : q \in RegisterCells \cup stack}
    BY <1>2, <2>1 DEF objectRoots, Object, ObjectIn
  <2> QED BY <1>6, <2>1, <2>2 DEF objectRoots
<1>13. Object(v) \in C!Live \cup {NIL}
  BY <1>2, HeldInReach DEF Object
<1>14. i \in C!Live
  BY <1>4
<1> QED
  BY <1>2, <1>10, <1>11, <1>12, <1>13, <1>14 DEF C!Write, C!SlotNames, C!SlotsOf, SlotNames, SlotsOf

(* A new object is made, of an identity that no object has. *)
LEMMA Creates ==
    ASSUME IInv, IInv', \E t \in Types : \E w \in Words(t, Held) : NewCell(t, w)
    PROVE  C!Create /\ ~Collecting'
<1>1. PICK t \in Types : \E w \in Words(t, Held) : NewCell(t, w)
  OBVIOUS
<1>2. PICK w \in Words(t, Held) : NewCell(t, w)
  BY <1>1
<1> PICK i : i = NewId
  OBVIOUS
<1>3. /\ mem' = [mem EXCEPT ![heap] = [type |-> t, id |-> i, slot |-> w]]
      /\ heap' = heap + 1 /\ heap < HeapEnd /\ ~Collecting /\ ~Collecting'
      /\ UNCHANGED <<org, end, regs>> /\ stack' = stack \cup {heap}
  BY <1>2 DEF NewCell, Collecting
<1>4. i \in Ids /\ \A c \in Used : mem[c].id # i
  BY <1>3, NewIdentity DEF IInv
<1>5. Used' = Used \cup {heap} /\ heap \in Cells \ Used /\ Used \subseteq Cells
      /\ Here = Used /\ Here' = Used' /\ NIL \notin Used'
  <2>1. Used' = Used \cup {heap} /\ heap \in Cells \ Used /\ Used \subseteq Cells
    BY <1>3, Spaces, UsedGrows DEF IInv
  <2> QED BY <1>3, <2>1, NilAssumption DEF Here
<1>6. /\ \A c \in Used : mem'[c] = mem[c]
      /\ mem'[heap].type = t /\ mem'[heap].id = i /\ mem'[heap].slot = w
  BY <1>3, <1>5 DEF IInv, TypeOK
<1>7. \A q \in Used \cup {NIL} : ObjectIn(mem', q) = Object(q)
  BY <1>5, <1>6 DEF ObjectIn, Object
<1>8. Seen /\ Seen'
  BY SeesNow, SeesThen
<1>9. Objects' = Objects \cup {i} /\ i \notin Objects
  BY <1>4, <1>5, <1>6, <1>8 DEF Seen
<1>10. /\ \A s \in SlotNames : w[s] \in Held \cup {NIL} /\ Held \subseteq Used
  BY <1>2 DEF Words, Held
<1> DEFINE x == [s \in SlotNames |-> Object(w[s])]
<1>11. x \in [SlotNames -> C!Live \cup {NIL}]
  BY <1>3, <1>10, HeldInReach DEF Object
<1>12. ASSUME NEW j \in Ids
       PROVE  /\ objectType'[j] = IF j = i THEN t ELSE objectType[j]
              /\ \A s \in SlotNames :
                   objectSlot'[j][s] = IF j = i THEN Object(w[s]) ELSE objectSlot[j][s]
  <2>1. CASE j = i
    <3>1. heap \in Here' /\ mem'[heap].id = j
      BY <1>5, <1>6, <2>1
    <3>2. objectType'[j] = t
      BY <1>6, <1>8, <3>1 DEF Seen
    <3>3. ASSUME NEW s \in SlotNames PROVE objectSlot'[j][s] = Object(w[s])
      <4>1. objectSlot'[j][s] = ObjectIn(mem', w[s])
        BY <1>6, <1>8, <3>1 DEF Seen, Object, ObjectIn
      <4>2. w[s] \in Used \cup {NIL}
        BY <1>10
      <4> QED BY <1>7, <4>1, <4>2
    <3> QED BY <2>1, <3>2, <3>3
  <2>2. CASE j # i /\ j \in Objects
    <3>1. PICK d \in Used : mem[d].id = j
      BY <1>5, <1>8, <2>2 DEF Seen
    <3>2. d \in Here /\ d \in Here' /\ mem'[d] = mem[d]
      BY <1>5, <1>6
    <3>3. \A s \in SlotNames :
             objectSlot'[j][s] = ObjectIn(mem', mem[d].slot[s])
             /\ objectSlot[j][s] = Object(mem[d].slot[s])
      BY <1>8, <3>1, <3>2 DEF Seen, Object, ObjectIn
    <3>4. \A s \in SlotNames : mem[d].slot[s] \in Used \cup {NIL}
      BY <1>5, <3>2, HereWords
    <3>5. \A s \in SlotNames : objectSlot'[j][s] = objectSlot[j][s]
      BY <1>7, <3>3, <3>4
    <3>6. objectType'[j] = objectType[j]
      BY <1>8, <3>1, <3>2 DEF Seen
    <3> QED BY <2>2, <3>5, <3>6
  <2>3. CASE j # i /\ j \notin Objects
    <3>1. objectType[j] = FREE /\ \A s \in SlotNames : objectSlot[j][s] = NIL
      BY <1>8, <2>3 DEF Seen
    <3>2. j \notin Objects'
      BY <1>9, <2>3
    <3>3. objectType'[j] = FREE /\ \A s \in SlotNames : objectSlot'[j][s] = NIL
      BY <1>8, <3>2 DEF Seen
    <3> QED BY <2>3, <3>1, <3>3
  <2> QED BY <2>1, <2>2, <2>3
<1>13. objectType' = [objectType EXCEPT ![i] = t] /\ objectType[i] = FREE
  <2>1. /\ objectType = [j \in Ids |-> objectType[j]]
        /\ objectType' = [j \in Ids |-> objectType'[j]]
    BY DEF objectType
  <2>2. objectType[i] = FREE
    BY <1>4, <1>8, <1>9 DEF Seen
  <2>3. objectType' = [objectType EXCEPT ![i] = t]
    BY <1>4, <1>12, <2>1
  <2> QED BY <2>2, <2>3
<1>14. objectSlot' = [objectSlot EXCEPT ![i] = x]
  <2>1. /\ objectSlot = [j \in Ids |-> [s \in SlotNames |-> objectSlot[j][s]]]
        /\ objectSlot' = [j \in Ids |-> [s \in SlotNames |-> objectSlot'[j][s]]]
    BY DEF objectSlot
  <2> QED BY <1>4, <1>12, <2>1
<1>15. objectRoots' \in SUBSET (C!Live \cup {i})
  <2>1. RegisterCells' = RegisterCells
    BY <1>3 DEF RegisterCells
  <2>2. objectRoots' = {mem'[q].id : q \in RegisterCells \cup stack \cup {heap}}
    BY <1>3, <2>1, RootsThen DEF RootsOfCells
  <2>3. \A q \in RegisterCells \cup stack : mem[q].id \in C!Live /\ q \in Used
    BY <1>5, RootsSeen, InReach
  <2> QED BY <1>6, <2>2, <2>3
<1> HIDE DEF x
<1>16. C!Create
  BY <1>4, <1>11, <1>13, <1>14, <1>15 DEF C!Create, C!SlotNames, C!SlotsOf, SlotNames, SlotsOf
<1> QED BY <1>3, <1>16

(* A collection ends: what was out of reach is let go of, and no more. *)
LEMMA Collects ==
    ASSUME IInv, IInv', Reached, EndCollection
    PROVE  C!Collect /\ Objects' = C!Live /\ ~Collecting'
<1>1. /\ UNCHANGED <<heap, org, end, regs, stack>> /\ Collecting /\ ~Collecting'
      /\ pc = "free"
      /\ mem' = [c \in Cells |-> IF c \in Used THEN mem[c] ELSE Junk]
  BY DEF EndCollection, space, Collecting
<1>2. Used' = Used /\ Here' = Used /\ Used \subseteq Cells
  <2>1. Used' = Used /\ Used \subseteq Cells
    BY <1>1, Spaces DEF Used, IInv
  <2> QED BY <1>1, <2>1 DEF Here
<1>3. \A c \in Used : mem'[c] = mem[c]
  BY <1>1, <1>2
<1>4. Seen' /\ C!Live = {mem[u].id : u \in Used}
  BY SeesThen, Left
<1>5. Objects' = C!Live
  BY <1>2, <1>3, <1>4 DEF Seen
<1>6. NIL \notin Used
  BY <1>2, NilAssumption
<1>7. ASSUME NEW i \in Ids
      PROVE  /\ objectType'[i] = IF i \in C!Live THEN objectType[i] ELSE FREE
             /\ \A s \in SlotNames :
                  objectSlot'[i][s] = IF i \in C!Live THEN objectSlot[i][s] ELSE NIL
  <2>1. CASE i \in C!Live
    <3>1. PICK u \in Used : mem[u].id = i
      BY <1>4, <2>1
    <3>2. objectType[i] = mem[u].type
          /\ \A s \in SlotNames : objectSlot[i][s] = Object(mem[u].slot[s])
      BY <3>1, UsedSeen
    <3>3. objectType'[i] = mem[u].type
          /\ \A s \in SlotNames : objectSlot'[i][s] = ObjectIn(mem', mem[u].slot[s])
      BY <1>2, <1>3, <1>4, <3>1 DEF Seen, Object, ObjectIn
    <3>4. ASSUME NEW s \in SlotNames PROVE mem[u].slot[s] \in Used \cup {NIL}
      <4>1. CASE s \in SlotsOf(mem[u].type)
        BY <1>1, <4>1 DEF IInv, NoStrayPointers, Passed
      <4>2. CASE s \notin SlotsOf(mem[u].type)
        BY <4>2 DEF IInv, Blank
      <4> QED BY <4>1, <4>2
    <3>5. \A s \in SlotNames : ObjectIn(mem', mem[u].slot[s]) = Object(mem[u].slot[s])
      BY <1>3, <1>6, <3>4 DEF Object, ObjectIn
    <3> QED BY <2>1, <3>2, <3>3, <3>5
  <2>2. CASE i \notin C!Live
    BY <1>4, <1>5, <2>2 DEF Seen
  <2> QED BY <2>1, <2>2
<1>8. objectType' = [i \in Ids |-> IF i \in C!Live THEN objectType[i] ELSE FREE]
  <2>1. objectType' = [i \in Ids |-> objectType'[i]]
    BY DEF objectType
  <2> QED BY <1>7, <2>1
<1>9. objectSlot' = [i \in Ids |-> IF i \in C!Live THEN objectSlot[i]
                                   ELSE [s \in SlotNames |-> NIL]]
  <2>1. /\ objectSlot' = [i \in Ids |-> [s \in SlotNames |-> objectSlot'[i][s]]]
        /\ objectSlot = [i \in Ids |-> [s \in SlotNames |-> objectSlot[i][s]]]
    BY DEF objectSlot
  <2>2. ASSUME NEW i \in Ids
        PROVE  [s \in SlotNames |-> objectSlot'[i][s]] =
                 IF i \in C!Live THEN objectSlot[i] ELSE [s \in SlotNames |-> NIL]
    <3>1. CASE i \in C!Live
      <4>1. objectSlot[i] = [s \in SlotNames |-> objectSlot[i][s]]
        BY <2>1
      <4> QED BY <1>7, <3>1, <4>1
    <3>2. CASE i \notin C!Live
      BY <1>7, <3>2
    <3> QED BY <3>1, <3>2
  <2> QED BY <2>1, <2>2
<1>10. objectRoots' = objectRoots
  <2>1. RegisterCells' = RegisterCells /\ RegisterCells \cup stack \subseteq Used
    <3>1. stack \subseteq Used /\ \A r \in Registers : regs[r] \in Used \cup {NIL}
      BY <1>1 DEF IInv, NoStrayPointers
    <3> QED BY <1>1, <3>1 DEF RegisterCells
  <2>2. objectRoots = {mem[q].id : q \in RegisterCells \cup stack}
    BY RootsSeen
  <2>3. objectRoots' = {mem'[q].id : q \in RegisterCells \cup stack}
    BY <1>1, <2>1, RootsThen DEF RootsOfCells
  <2> QED BY <1>3, <2>1, <2>2, <2>3
<1>11. C!Reachable(objectRoots \cup {}, objectType, objectSlot) = C!Live
  BY DEF C!Live, C!Reachable
<1>12. C!Collect
  <2>1. {} \in SUBSET {i \in Ids : objectType[i] # FREE}
    OBVIOUS
  <2>2. SlotNames = C!SlotNames
    BY DEF C!SlotNames, C!SlotsOf, SlotNames, SlotsOf
  <2> HIDE DEF C!Live
  <2> QED BY <1>8, <1>9, <1>10, <1>11, <2>1, <2>2 DEF C!Collect
<1> QED BY <1>1, <1>5, <1>12

-----------------------------------------------------------------------------
LEMMA Begins == Init => C!Init /\ Reached
<1> SUFFICES ASSUME Init PROVE C!Init /\ Reached
  OBVIOUS
<1>1. Used = {} /\ ~Collecting /\ Objects = {}
  BY DEF Init, Used, Collecting, Objects
<1>2. objectRoots = {}
  BY DEF Init, objectRoots, RegisterCells
<1>3. SlotNames = C!SlotNames
  BY DEF C!SlotNames, C!SlotsOf, SlotNames, SlotsOf
<1> QED BY <1>1, <1>2, <1>3 DEF C!Init, objectType, objectSlot, Reached

(* Every step is a step of the abstract collector, or shows nothing. *)
LEMMA Simulates ==
    ASSUME NoStructs, IInv, Reached, [Next]_vars
    PROVE  /\ [C!Next]_C!vars /\ Reached'
           /\ EndCollection => Objects' = C!Live
<1>0. IInv'
  BY Steps
<1>1. CASE \/ Read \/ StartCollection \/ EndRegisters \/ ScanNext \/ EndScan \/ FreeCell
           \/ UNCHANGED vars
  <2>1. UNCHANGED C!vars /\ Reached'
    BY <1>0, <1>1, OthersSeeNothing DEF C!vars
  <2>2. EndCollection => Objects' = C!Live
    BY <1>0, Collects
  <2> QED BY <2>1, <2>2
<1>2. CASE \/ \E r \in Registers : ScanRegister(r)
           \/ \E s \in SlotNames : ScanWord(s)
  <2>1. UNCHANGED C!vars /\ Reached'
    BY <1>0, <1>2, ScanSeesNothing DEF C!vars
  <2>2. EndCollection => Objects' = C!Live
    BY <1>0, Collects
  <2> QED BY <2>1, <2>2
<1>3. CASE EndEvaluation \/ Evaluate
  <2>1. C!Next /\ ~Collecting'
    BY <1>0, <1>3, Moves, Writes, Creates DEF Evaluate, C!Next
  <2>2. EndCollection => Objects' = C!Live
    BY <1>0, Collects
  <2> QED BY <2>1, <2>2 DEF Reached
<1>4. CASE EndCollection
  <2>1. C!Collect /\ Objects' = C!Live /\ ~Collecting'
    BY <1>0, <1>4, Collects
  <2> QED BY <2>1 DEF C!Next, Reached
<1> QED
  BY <1>1, <1>2, <1>3, <1>4 DEF Next, CollectorStep

(* The stop-and-copy collector keeps the promise of Collector: objects do  *)
(* not change, nor become one another, by moving, and what the program can *)
(* reach is never let go of.                                               *)
THEOREM Refinement == NoStructs => (Spec => ImplementsCollector)
<1> SUFFICES ASSUME NoStructs PROVE Spec => ImplementsCollector
  OBVIOUS
<1>1. IInv /\ Reached /\ [Next]_vars => [C!Next]_C!vars /\ IInv' /\ Reached'
  BY Simulates, Steps
<1>2. Init => IInv /\ Reached /\ C!Init
  BY Starts, Begins
<1> QED BY <1>1, <1>2, PTL DEF Spec, ImplementsCollector, C!Spec

(* A collection keeps no more than that: unlike mark-and-sweep, which      *)
(* takes any stale word of the C stack for a pointer.                      *)
THEOREM ExactlyTheLive == NoStructs => (Spec => Exact)
<1> SUFFICES ASSUME NoStructs PROVE Spec => Exact
  OBVIOUS
<1>1. IInv /\ Reached /\ [Next]_vars =>
        [EndCollection => Objects' = C!Live]_vars /\ IInv' /\ Reached'
  BY Simulates, Steps
<1>2. Init => IInv /\ Reached
  BY Starts, Begins
<1> QED BY <1>1, <1>2, PTL DEF Spec, Exact
=============================================================================
