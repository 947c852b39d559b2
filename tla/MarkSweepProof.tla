--------------------------- MODULE MarkSweepProof ---------------------------
(***************************************************************************)
(* Proofs about MarkSweep, for any heap, any number of protected           *)
(* locations and any depth of hooks.                                       *)
(***************************************************************************)
EXTENDS MarkSweep, FiniteSetTheorems, SequenceTheorems, TLAPS

-----------------------------------------------------------------------------
(* Type correctness. *)

LEMMA WordsTyped ==
    ASSUME TypeOK, NEW t
    PROVE  Words(t) \subseteq [SlotNames -> Word]
BY DEF Words, TypeOK, Word

LEMMA FramesTyped ==
    ASSUME NEW S, NEW fs \in Seq(S), NEW n \in 0..Len(fs)
    PROVE  SubSeq(fs, 1, n) \in Seq(S)
<1>1. \A i \in 1..n : fs[i] \in S
  OBVIOUS
<1> QED BY <1>1, SubSeqProperties

(* Where a collection is, and who waits for it (see Phases): the values of *)
(* a suspended NEWCELL are there when it is resumed.                       *)
LEMMA PhasesStep == ASSUME TypeOK, Phases, [Next]_vars PROVE Phases'
<1> USE DEF Phases
<1>1. CASE Mutate
  BY <1>1 DEF Mutate, Load, LoadRegister, StoreRegister, Store, Drop, Trace, Untrace,
              Retype, Unwind, NewCell, Take, collector
<1>2. CASE \E stale \in SUBSET Cells :
              UserGc(stale) \/ \E t \in Constructed : NewCellGc(t, stale)
  <2>1. CASE \E stale \in SUBSET Cells : UserGc(stale)
    BY <1>2, <2>1 DEF UserGc, StartMark
  <2>2. CASE \E stale \in SUBSET Cells, t \in Constructed : NewCellGc(t, stale)
    <3>1. \E f : frames' = Append(frames, f)
      BY <2>2 DEF NewCellGc
    <3>2. frames' # <<>>
      BY <3>1 DEF TypeOK
    <3> QED BY <2>2, <3>2 DEF NewCellGc, StartMark
  <2> QED BY <1>2, <2>1, <2>2
<1>3. CASE \E c \in Cells : MarkStep(c)
  BY <1>3 DEF MarkStep, mutator
<1>4. CASE Sweep
  BY <1>4 DEF Sweep
<1>5. CASE UserGcReturns \/ AfterSweep
  BY <1>5 DEF UserGcReturns, AfterSweep, EmptyGrow, OutOfStorage, EnoughFree, FewFree,
              mutator
<1>6. CASE HookReturns \/ Resume \/ AllocateHeap
  BY <1>6 DEF HookReturns, Resume, AllocateHeap, mutator, collector
<1>7. CASE UNCHANGED vars
  BY <1>7 DEF vars
<1> QED
  BY <1>1, <1>2, <1>3, <1>4, <1>5, <1>6, <1>7 DEF Next, Collect

(* TypeOK needs Phases to be inductive: Resume takes the last frame. *)
LEMMA TypeStep == ASSUME TypeOK, Phases, [Next]_vars PROVE TypeOK'
<1> USE TypesAssumption, FreeAssumption, HeapAssumption DEF TypeOK, Word
<1>1. ASSUME NEW c \in Cells, NEW s \in SlotNames, Load(c, s) PROVE TypeOK'
  BY <1>1 DEF Load, collector
<1>2. ASSUME NEW r \in Registers, LoadRegister(r) PROVE TypeOK'
  BY <1>2 DEF LoadRegister, collector
<1>3. ASSUME NEW r \in Registers, NEW v \in Word, StoreRegister(r, v) PROVE TypeOK'
  BY <1>3 DEF StoreRegister, collector
<1>4. ASSUME NEW c \in Cells, NEW s \in SlotNames, NEW v \in Word, Store(c, s, v)
      PROVE  TypeOK'
  BY <1>4 DEF Store, collector
<1>5. ASSUME NEW c \in Cells, Drop(c) PROVE TypeOK'
  BY <1>5 DEF Drop, collector
<1>6. ASSUME NEW c \in Cells, Trace(c) \/ Untrace(c) PROVE TypeOK'
  <2>1. PICK to \in Types : type' = [type EXCEPT ![c] = to]
    BY <1>6 DEF Trace, Untrace, Retype
  <2> QED BY <1>6, <2>1 DEF Trace, Untrace, Retype, collector
<1>7. ASSUME NEW n \in 0..MaxNest, Unwind(n) PROVE TypeOK'
  <2>1. n \in 0..Len(frames)
    BY <1>7 DEF Unwind
  <2>2. frames' \in Seq([type : Types, words : [SlotNames -> Word]])
    BY <1>7, <2>1, FramesTyped DEF Unwind
  <2> QED BY <1>7, <2>2 DEF Unwind, collector
<1>8. ASSUME NEW c \in Cells, NEW t \in Constructed, NewCell(c, t) PROVE TypeOK'
  BY <1>8, WordsTyped DEF NewCell, Take, Constructed, collector
<1>9. ASSUME NEW stale \in SUBSET Cells, UserGc(stale) PROVE TypeOK'
  BY <1>9 DEF UserGc, StartMark, ScannedRoots, RegisterCells, NonFree
<1>10. ASSUME NEW stale \in SUBSET Cells, NEW t \in Constructed, NewCellGc(t, stale)
       PROVE  TypeOK'
  <2>1. PICK w \in Words(t) : frames' = Append(frames, [type |-> t, words |-> w])
    BY <1>10 DEF NewCellGc
  <2>2. [type |-> t, words |-> w] \in [type : Types, words : [SlotNames -> Word]]
    BY WordsTyped DEF Constructed
  <2>3. frames' \in Seq([type : Types, words : [SlotNames -> Word]])
    BY <2>1, <2>2
  <2> QED
    BY <1>10, <2>3 DEF NewCellGc, StartMark, ScannedRoots, RegisterCells, NonFree
<1>11. ASSUME NEW c \in Cells, MarkStep(c) PROVE TypeOK'
  <2>1. {slot[c][s] : s \in FollowedSlots(type[c])} \ {NIL} \subseteq Cells
    <3>1. FollowedSlots(type[c]) \subseteq SlotNames
      BY DEF FollowedSlots, SlotsOf, SlotNames, AllTypes
    <3> QED BY <3>1
  <2> QED BY <1>11, <2>1 DEF MarkStep, mutator
<1>12. ASSUME Sweep PROVE TypeOK'
  BY <1>12 DEF Sweep, Allocated, NoWords
<1>13. ASSUME UserGcReturns PROVE TypeOK'
  BY <1>13 DEF UserGcReturns, mutator
<1>14. ASSUME AfterSweep PROVE TypeOK'
  <2> DEFINE Frames == [type : Types, words : [SlotNames -> Word]]
  <2> DEFINE Ok == /\ freelist' \subseteq Cells /\ heaps' \in 1..NHeaps
                   /\ pc' \in {"run", "resume"}
                   /\ stack' \subseteq Cells /\ frames' \in Seq(Frames)
                   /\ UNCHANGED <<type, slot, regs>>
  <2>1. GrowHeap /\ heaps < NHeaps => freelist' \subseteq Cells /\ heaps' \in 1..NHeaps
    BY DEF GrowHeap
  <2>2. ASSUME EmptyGrow PROVE Ok
    BY <2>1, <2>2 DEF EmptyGrow, mutator
  <2>3. ASSUME OutOfStorage PROVE Ok
    BY <2>3 DEF OutOfStorage
  <2>4. ASSUME EnoughFree PROVE Ok
    BY <2>4 DEF EnoughFree, mutator
  <2>5. ASSUME FewFree PROVE Ok
    BY <2>1, <2>5 DEF FewFree, mutator
  <2>6. Ok
    BY <1>14, <2>2, <2>3, <2>4, <2>5 DEF AfterSweep
  <2>7. gcFor' = "none" /\ UNCHANGED <<marked, grey, pinned>>
    BY <1>14 DEF AfterSweep
  <2> QED BY <2>6, <2>7
<1>15. ASSUME HookReturns PROVE TypeOK'
  BY <1>15 DEF HookReturns, mutator, collector
<1>16. ASSUME Resume PROVE TypeOK'
  <2> DEFINE f == frames[Len(frames)]
  <2>1. Len(frames) \in Nat /\ Len(frames) >= 1
    <3>1. frames # <<>> /\ frames \in Seq([type : Types, words : [SlotNames -> Word]])
      BY <1>16 DEF Resume, Phases
    <3> QED BY <3>1, EmptySeq, LenProperties
  <2>2. f \in [type : Types, words : [SlotNames -> Word]]
    <3>1. Len(frames) \in 1..Len(frames)
      BY <2>1
    <3>2. \A S : frames \in Seq(S) => f \in S
      BY <3>1, ElementOfSeq
    <3> QED BY <3>2
  <2>3. SubSeq(frames, 1, Len(frames) - 1)
            \in Seq([type : Types, words : [SlotNames -> Word]])
    <3>1. Len(frames) - 1 \in 0..Len(frames)
      BY <2>1
    <3> QED BY <3>1, FramesTyped
  <2> HIDE DEF f
  <2>4. ASSUME NEW c \in freelist, Take(c, f.type, f.words)
        PROVE  /\ type' \in [Cells -> Types \cup {FREE}]
               /\ slot' \in [Cells -> [SlotNames -> Word]]
               /\ stack' \subseteq Cells /\ freelist' \subseteq Cells
    BY <2>2, <2>4 DEF Take
  <2>5. CASE freelist # {}
    <3>1. PICK c \in freelist : Take(c, f.type, f.words)
      BY <1>16, <2>5 DEF Resume, f
    <3> QED
      BY <1>16, <2>3, <2>4, <2>5, <3>1 DEF Resume, collector
  <2>6. CASE freelist = {}
    BY <1>16, <2>6 DEF Resume, collector
  <2> QED BY <2>5, <2>6
<1>17. ASSUME AllocateHeap PROVE TypeOK'
  BY <1>17 DEF AllocateHeap, GrowHeap, mutator, collector
<1>18. ASSUME UNCHANGED vars PROVE TypeOK'
  BY <1>18 DEF vars
<1> QED
  BY <1>1, <1>2, <1>3, <1>4, <1>5, <1>6, <1>7, <1>8, <1>9, <1>10, <1>11, <1>12,
     <1>13, <1>14, <1>15, <1>16, <1>17, <1>18 DEF Next, Mutate, Collect

(* Every state of the storage manager is well typed. *)
THEOREM TypeCorrect == Spec => []TypeOK
<1>1. Init => TypeOK /\ Phases
  BY HeapAssumption DEF Init, TypeOK, Phases, Word, NoWords
<1>2. TypeOK /\ Phases /\ [Next]_vars => (TypeOK /\ Phases)'
  BY TypeStep, PhasesStep
<1> QED
  BY <1>1, <1>2, PTL DEF Spec

-----------------------------------------------------------------------------
(* Storage safety. *)

(* A program whose types are fully marked has no traced closure, and what  *)
(* gc_mark follows is then every slot.                                     *)
LEMMA FullSlots ==
    ASSUME FullyMarked
    PROVE  /\ "closure_traced" \notin Types
           /\ \A t \in Types \cup {FREE} : FollowedSlots(t) = SlotsOf(t)
           /\ \A t \in Types \cup {FREE} : SlotsOf(t) \subseteq SlotNames
           /\ SlotsOf(FREE) = {}
           /\ FREE \notin Types
<1>1. FREE \notin AllTypes /\ Types \subseteq AllTypes
  BY FreeAssumption, TypesAssumption
<1>2. FollowedSlots("closure_traced") # SlotsOf("closure_traced")
  <2>1. FollowedSlots("closure_traced") = {"code"}
    BY DEF FollowedSlots
  <2>2. "env" \in SlotsOf("closure_traced")
    BY DEF SlotsOf
  <2> QED BY <2>1, <2>2
<1>3. SlotsOf(FREE) = {}
  BY <1>1 DEF AllTypes, SlotsOf
<1>4. FollowedSlots(FREE) = SlotsOf(FREE)
  BY <1>1 DEF AllTypes, FollowedSlots
<1>5. "closure_traced" \notin Types
  BY <1>2 DEF FullyMarked
<1> QED
  BY <1>1, <1>3, <1>4, <1>5 DEF FullyMarked, SlotNames

(* The values of the suspended NEWCELLs, after one more is suspended and   *)
(* after the last ones are gone.                                           *)
LEMMA FrameCellsAppend ==
    ASSUME TypeOK, NEW t \in Types, NEW w \in [SlotNames -> Word],
           frames' = Append(frames, [type |-> t, words |-> w])
    PROVE  FrameCells' = FrameCells \cup {c \in Cells : \E s \in SlotNames : w[s] = c}
<1> DEFINE n == Len(frames)
<1>1. frames \in Seq([type : Types, words : [SlotNames -> Word]])
  BY DEF TypeOK
<1>2. n \in Nat /\ DOMAIN frames = 1..n /\ DOMAIN frames' = 1..(n + 1)
  BY <1>1
<1>3. \A i \in 1..n : frames'[i] = frames[i]
  BY <1>1
<1>4. frames'[n + 1].words = w
  BY <1>1
<1>5. DOMAIN frames' = DOMAIN frames \cup {n + 1}
  BY <1>2
<1> QED
  BY <1>2, <1>3, <1>4, <1>5 DEF FrameCells

LEMMA FrameCellsCut ==
    ASSUME TypeOK, NEW n \in 0..Len(frames), frames' = SubSeq(frames, 1, n)
    PROVE  FrameCells' \subseteq FrameCells
<1>1. frames \in Seq([type : Types, words : [SlotNames -> Word]])
  BY DEF TypeOK
<1>2. n \in Nat /\ Len(frames) \in Nat /\ n <= Len(frames)
  BY <1>1
<1>3. DOMAIN frames' = 1..n /\ \A i \in 1..n : frames'[i] = frames[i]
  BY <1>1, <1>2
<1>4. DOMAIN frames = 1..Len(frames)
  BY <1>1
<1> QED
  BY <1>2, <1>3, <1>4 DEF FrameCells

(* Outside the mark phase there are no marks, and nothing to say of them. *)
LEMMA NoMarks ==
    ASSUME Phases', pc' # "mark"
    PROVE  TriColour' /\ MarksNeeded'
BY DEF Phases, TriColour, MarksNeeded

LEMMA NoTrace ==
    ASSUME FullyMarked, TypeOK, NEW c \in Cells
    PROVE  ~Trace(c) /\ ~Untrace(c)
<1>1. "closure_traced" \notin Types /\ type[c] \in Types \cup {FREE}
  BY FullSlots DEF TypeOK
<1>2. "closure_traced" # FREE
  BY FreeAssumption DEF AllTypes
<1> QED
  BY <1>1, <1>2 DEF Trace, Untrace, Retype

(* Steps of the interpreter that take no cell: it can only get hold of     *)
(* what it could reach.                                                    *)
LEMMA MutatorStep ==
    ASSUME FullyMarked, IInv, Phases', Mutate,
           ~ \E c \in Cells, t \in Constructed : NewCell(c, t)
    PROVE  TypeOK' => IInv'
<1> USE DEF IInv
<1>1. type' = type /\ freelist' = freelist /\ heaps' = heaps /\ pc' # "mark"
  <2>1. ASSUME NEW c \in Cells, Trace(c) \/ Untrace(c) PROVE FALSE
    BY <2>1, NoTrace
  <2> QED
    BY <2>1 DEF Mutate, Load, Store, Drop, LoadRegister, StoreRegister, Unwind
<1>2. Allocated' = Allocated /\ NonFree' = NonFree /\ FreeListExact'
  BY <1>1 DEF FreeListExact, Allocated, NonFree
<1>3. BeyondFree'
  <2>1. \A c \in Cells \ Allocated : c \notin stack
    BY DEF BeyondFree, NoDangling, NonFree, Roots
  <2>2. \A c \in Cells \ stack : slot'[c] = slot[c]
    BY <1>1 DEF Mutate, Load, Store, Drop, LoadRegister, StoreRegister, Unwind, Trace,
                Untrace, Retype, TypeOK
  <2> QED BY <1>1, <1>2, <2>1, <2>2 DEF BeyondFree
<1>4. NoDangling'
  <2> USE <1>2 DEF NoDangling, Roots, RegisterCells
  <2>1. ASSUME NEW c \in Cells, NEW s \in SlotNames, Load(c, s) PROVE NoDangling'
    BY <2>1 DEF Load, FrameCells
  <2>2. ASSUME NEW c \in Cells, NEW s \in SlotNames, NEW v \in Word, Store(c, s, v)
        PROVE  NoDangling'
    BY <2>2 DEF Store, FrameCells, TypeOK
  <2>3. ASSUME NEW c \in Cells, Drop(c) PROVE NoDangling'
    BY <2>3 DEF Drop, FrameCells
  <2>4. ASSUME NEW c \in Cells, Trace(c) \/ Untrace(c) PROVE NoDangling'
    BY <2>4, NoTrace
  <2>5. ASSUME NEW r \in Registers, LoadRegister(r) PROVE NoDangling'
    BY <2>5 DEF LoadRegister, FrameCells
  <2>6. ASSUME NEW r \in Registers, NEW v \in Word, StoreRegister(r, v) PROVE NoDangling'
    BY <2>6 DEF StoreRegister, FrameCells, TypeOK
  <2>7. ASSUME NEW n \in 0..MaxNest, Unwind(n) PROVE NoDangling'
    <3>1. n \in 0..Len(frames) /\ frames' = SubSeq(frames, 1, n)
      BY <2>7 DEF Unwind, TypeOK
    <3>2. FrameCells' \subseteq FrameCells
      BY <3>1, FrameCellsCut
    <3> QED BY <2>7, <3>2 DEF Unwind
  <2> QED
    BY <2>1, <2>2, <2>3, <2>4, <2>5, <2>6, <2>7 DEF Mutate
<1>5. TriColour' /\ MarksNeeded'
  BY <1>1, NoMarks
<1> QED
  BY <1>2, <1>3, <1>4, <1>5

(* A cell taken from the free list was free, so nothing pointed to it, and *)
(* it is given words that point to cells in use.                           *)
LEMMA TakeStep ==
    ASSUME FullyMarked, IInv, NEW c \in Cells, NEW t \in Types,
           NEW w \in [SlotNames -> NonFree \cup {NIL}], Take(c, t, w),
           heaps' = heaps, regs' = regs, FrameCells' \subseteq FrameCells
    PROVE  /\ FreeListExact'
           /\ BeyondFree'
           /\ NoDangling'
<1> USE DEF IInv
<1>1. FREE \notin Types /\ SlotsOf(FREE) = {}
  BY FullSlots
<1>2. type[c] = FREE /\ c \in Allocated /\ Allocated' = Allocated
  BY DEF Take, FreeListExact, Allocated
<1>3. \A d \in Cells : type'[d] = IF d = c THEN t ELSE type[d]
  BY DEF Take, TypeOK
<1>4. FreeListExact'
  BY <1>1, <1>2, <1>3 DEF FreeListExact, Take, TypeOK
<1>5. BeyondFree'
  BY <1>2, <1>3 DEF BeyondFree, Take, TypeOK
<1>6. NonFree' = NonFree \cup {c} /\ c \notin NonFree
  BY <1>1, <1>2, <1>3 DEF NonFree
<1>7. Roots' \subseteq NonFree'
  BY <1>6 DEF Roots, RegisterCells, NoDangling, Take
<1>8. ASSUME NEW d \in NonFree', NEW s \in SlotsOf(type'[d])
      PROVE  slot'[d][s] \in NonFree' \cup {NIL}
  <2>1. CASE d = c
    <3>1. s \in SlotNames
      BY <1>3, <1>8, <2>1, FullSlots
    <3> QED BY <1>6, <2>1, <3>1 DEF Take, TypeOK
  <2>2. CASE d # c
    BY <1>3, <1>6, <1>8, <2>2 DEF Take, TypeOK, NoDangling
  <2> QED BY <2>1, <2>2
<1>9. NoDangling'
  BY <1>7, <1>8 DEF NoDangling
<1> QED BY <1>4, <1>5, <1>9

LEMMA NewCellStep ==
    ASSUME FullyMarked, IInv, TypeOK', Phases', NEW c \in Cells, NEW t \in Constructed,
           NewCell(c, t)
    PROVE  IInv'
<1>1. PICK w \in Words(t) : Take(c, t, w)
  BY DEF NewCell
<1>2. w \in [SlotNames -> NonFree \cup {NIL}]
  <2>1. stack \subseteq NonFree
    BY DEF IInv, NoDangling, Roots
  <2> QED BY <2>1 DEF Words
<1>3. heaps' = heaps /\ regs' = regs /\ FrameCells' = FrameCells /\ pc' # "mark"
  BY DEF NewCell, FrameCells
<1>4. TriColour' /\ MarksNeeded'
  BY <1>3, NoMarks
<1> QED
  BY <1>1, <1>2, <1>3, <1>4, TakeStep DEF IInv, Constructed

LEMMA ResumeWords ==
    ASSUME IInv, pc = "resume"
    PROVE  LET n == Len(frames)
               f == frames[n]
           IN  /\ n \in Nat /\ n >= 1
               /\ f \in [type : Types, words : [SlotNames -> Word]]
               /\ f.words \in [SlotNames -> FrameCells \cup {NIL}]
               /\ FrameCells \subseteq NonFree
<1> DEFINE n == Len(frames)
           f == frames[n]
<1>1. n \in Nat /\ n >= 1 /\ n \in DOMAIN frames
      /\ f \in [type : Types, words : [SlotNames -> Word]]
  <2>1. frames # <<>> /\ frames \in Seq([type : Types, words : [SlotNames -> Word]])
    BY DEF IInv, Phases, TypeOK
  <2>2. n \in Nat /\ n >= 1
    BY <2>1, EmptySeq, LenProperties
  <2>3. n \in 1..n
    BY <2>2
  <2>4. \A S : frames \in Seq(S) => DOMAIN frames = 1..n
    BY LenProperties
  <2>5. \A S : frames \in Seq(S) => f \in S
    BY <2>3, ElementOfSeq
  <2> QED BY <2>1, <2>2, <2>3, <2>4, <2>5
<1>2. f.words \in [SlotNames -> FrameCells \cup {NIL}]
  <2>1. ASSUME NEW s \in SlotNames PROVE f.words[s] \in FrameCells \cup {NIL}
    BY <1>1 DEF FrameCells, Word
  <2> QED BY <1>1, <2>1
<1>3. FrameCells \subseteq NonFree
  BY DEF IInv, NoDangling, Roots
<1> QED BY <1>1, <1>2, <1>3

LEMMA ResumeStep ==
    ASSUME FullyMarked, IInv, TypeOK', Phases', Resume
    PROVE  IInv'
<1> DEFINE n == Len(frames)
           f == frames[n]
<1>1. n \in Nat /\ n >= 1 /\ f \in [type : Types, words : [SlotNames -> Word]]
  BY ResumeWords DEF Resume
<1>2. f.words \in [SlotNames -> NonFree \cup {NIL}]
  BY ResumeWords DEF Resume
<1>3. heaps' = heaps /\ regs' = regs /\ pc' # "mark"
  BY DEF Resume, collector
<1>4. TriColour' /\ MarksNeeded'
  BY <1>3, NoMarks
<1>5. CASE freelist # {}
  <2>1. PICK c \in freelist : Take(c, f.type, f.words)
    BY <1>5 DEF Resume
  <2>2. FrameCells' \subseteq FrameCells
    <3>1. frames' = SubSeq(frames, 1, n - 1) /\ n - 1 \in 0..n
      BY <1>1, <1>5 DEF Resume
    <3> QED BY <3>1, FrameCellsCut DEF IInv
  <2>3. c \in Cells /\ f.type \in Types
    BY <1>1 DEF IInv, TypeOK
  <2> HIDE DEF f
  <2> QED
    BY <1>2, <1>3, <1>4, <2>1, <2>2, <2>3, TakeStep DEF IInv
<1>6. CASE freelist = {}
  <2>1. UNCHANGED <<type, slot, stack, frames, freelist, regs, heaps>>
    BY <1>6 DEF Resume, collector
  <2> QED
    BY <1>4, <2>1 DEF IInv, FreeListExact, BeyondFree, Allocated, NoDangling, NonFree, Roots,
                      RegisterCells, FrameCells
<1> QED BY <1>5, <1>6

-----------------------------------------------------------------------------
(* The collector's steps. *)

(* A NEWCELL that starts a collection holds no more than its caller did. *)
LEMMA SuspendedWords ==
    ASSUME TypeOK, NEW t \in Constructed, NEW w \in Words(t),
           frames' = Append(frames, [type |-> t, words |-> w])
    PROVE  FrameCells \subseteq FrameCells' /\ FrameCells' \subseteq FrameCells \cup stack
<1>1. w \in [SlotNames -> Word] /\ t \in Types
  BY WordsTyped DEF Constructed
<1>2. \A s \in SlotNames : w[s] \in stack \cup {NIL}
  BY DEF Words
<1>3. FrameCells' = FrameCells \cup {c \in Cells : \E s \in SlotNames : w[s] = c}
  BY <1>1, FrameCellsAppend
<1> QED BY <1>2, <1>3, NilAssumption

LEMMA StartMarkStep ==
    ASSUME FullyMarked, IInv, TypeOK', Phases', NEW why, NEW stale \in SUBSET Cells,
           pc = "run", StartMark(why, stale),
           \/ frames' = frames
           \/ \E t \in Constructed : \E w \in Words(t) :
                 frames' = Append(frames, [type |-> t, words |-> w])
    PROVE  IInv'
<1> USE DEF IInv, StartMark
<1>1. NonFree' = NonFree /\ RegisterCells' = RegisterCells /\ Allocated' = Allocated
  BY DEF NonFree, RegisterCells, Allocated
<1>2. FrameCells \subseteq FrameCells' /\ FrameCells' \subseteq FrameCells \cup stack
  <2>1. CASE frames' = frames
    BY <2>1 DEF FrameCells
  <2>2. CASE \E t \in Constructed : \E w \in Words(t) :
                 frames' = Append(frames, [type |-> t, words |-> w])
    BY <2>2, SuspendedWords
  <2> QED BY <2>1, <2>2
<1>3. Roots' = Roots /\ Roots \subseteq NonFree
  BY <1>1, <1>2 DEF Roots, NoDangling
<1>4. FreeListExact' /\ BeyondFree' /\ NoDangling'
  BY <1>1, <1>3 DEF FreeListExact, BeyondFree, NoDangling
<1>5. marked' = {} /\ grey' = Roots' \cup pinned' /\ pinned' \subseteq NonFree
  <2>1. ScannedRoots = RegisterCells \cup stack \cup FrameCells
    BY <1>3 DEF ScannedRoots, Roots
  <2> QED BY <1>2, <1>3, <2>1 DEF Phases, Roots
<1>6. ScannedRoots' \subseteq Roots'
  BY DEF ScannedRoots, Roots
<1>7. TriColour'
  BY <1>5, <1>6 DEF TriColour
<1>8. MarksNeeded'
  BY <1>1, <1>3, <1>5 DEF MarksNeeded
<1> QED BY <1>4, <1>7, <1>8

LEMMA MarkStepStep ==
    ASSUME FullyMarked, IInv, TypeOK', Phases', NEW c \in Cells, MarkStep(c)
    PROVE  IInv'
<1> USE DEF IInv, MarkStep, mutator
<1>1. /\ NonFree' = NonFree /\ ScannedRoots' = ScannedRoots /\ Roots' = Roots
      /\ Allocated' = Allocated
  BY DEF NonFree, ScannedRoots, RegisterCells, FrameCells, Roots, Allocated
<1>2. FreeListExact' /\ BeyondFree' /\ NoDangling'
  BY <1>1 DEF FreeListExact, BeyondFree, NoDangling
<1> DEFINE out == {slot[c][s] : s \in FollowedSlots(type[c])} \ {NIL}
<1>3. c \in NonFree /\ type[c] \in Types \cup {FREE}
  BY DEF MarksNeeded, TypeOK
<1>4. FollowedSlots(type[c]) = SlotsOf(type[c])
  BY <1>3, FullSlots
<1>5. out \subseteq NonFree
  BY <1>3, <1>4 DEF NoDangling
<1>6. \/ c \in marked /\ marked' = marked /\ grey' = grey \ {c}
      \/ c \notin marked /\ marked' = marked \cup {c} /\ grey' = (grey \ {c}) \cup out
  OBVIOUS
<1>7. marked \cup grey \subseteq marked' \cup grey' /\ c \in marked'
  BY <1>6
<1>8. TriColour'
  <2>1. (ScannedRoots \cup pinned \subseteq marked \cup grey)'
    BY <1>1, <1>7 DEF TriColour
  <2>2. ASSUME NEW d \in marked', NEW s \in FollowedSlots(type'[d])
        PROVE  slot'[d][s] \in marked' \cup grey' \cup {NIL}
    <3>1. CASE d \in marked
      BY <1>7, <2>2, <3>1 DEF TriColour
    <3>2. CASE d \notin marked
      <4>1. d = c /\ grey' = (grey \ {c}) \cup out
        BY <1>6, <3>2
      <4> QED BY <2>2, <4>1
    <3> QED BY <3>1, <3>2
  <2> QED BY <2>1, <2>2 DEF TriColour
<1>9. MarksNeeded'
  <2>1. (marked \cup grey \cup pinned \subseteq NonFree)'
    BY <1>1, <1>3, <1>5, <1>6 DEF MarksNeeded
  <2>2. ASSUME NEW S \in SUBSET Cells, Roots \cup pinned \subseteq S, Closed(S, type, slot)
        PROVE  marked' \cup grey' \subseteq S
    <3>1. marked \cup grey \subseteq S
      BY <2>2 DEF MarksNeeded
    <3>2. out \subseteq S
      BY <1>4, <2>2, <3>1 DEF Closed
    <3> QED BY <1>6, <3>1, <3>2
  <2>3. type' = type /\ slot' = slot /\ pinned' = pinned
    OBVIOUS
  <2> QED BY <1>1, <2>1, <2>2, <2>3 DEF MarksNeeded
<1> QED BY <1>2, <1>8, <1>9

(* When nothing is left to look at, the marked cells hold the roots, the   *)
(* stale words and all they lead to: sweeping the others strands nobody.   *)
LEMMA SweepStep ==
    ASSUME FullyMarked, IInv, TypeOK', Phases', Sweep
    PROVE  IInv'
<1> USE DEF IInv, Sweep
<1>1. /\ FREE \notin Types /\ SlotsOf(FREE) = {}
      /\ \A t \in Types \cup {FREE} : FollowedSlots(t) = SlotsOf(t)
  BY FullSlots
<1>2. Allocated' = Allocated
  BY DEF Allocated
<1>3. marked \subseteq NonFree /\ NonFree \subseteq Allocated
  BY DEF MarksNeeded, NonFree, BeyondFree
<1>4. \A c \in Cells : type'[c] = IF c \in marked \/ c \notin Allocated
                                    THEN type[c] ELSE FREE
  OBVIOUS
<1>5. FreeListExact'
  <2>1. \A c \in Allocated : c \in Cells /\ (type'[c] = FREE <=> c \notin marked)
    BY <1>3, <1>4 DEF NonFree, Allocated
  <2>2. freelist' = {c \in Allocated : type'[c] = FREE}
    BY <2>1
  <2> QED BY <1>2, <2>2 DEF FreeListExact
<1>6. BeyondFree'
  BY <1>2, <1>4 DEF BeyondFree
<1>7. NonFree' = marked
  <2>1. \A c \in marked : c \in Cells /\ type'[c] # FREE
    BY <1>3, <1>4 DEF NonFree
  <2>2. \A c \in Cells \ marked : type'[c] = FREE
    BY <1>4 DEF BeyondFree
  <2> QED BY <2>1, <2>2 DEF NonFree
<1>8. Roots' \subseteq marked
  <2>1. ScannedRoots \subseteq marked
    BY DEF TriColour
  <2>2. Roots' = Roots /\ Roots \subseteq NonFree
    BY DEF Roots, RegisterCells, FrameCells, NoDangling
  <2> QED BY <2>1, <2>2 DEF Roots, ScannedRoots
<1>9. ASSUME NEW c \in marked, NEW s \in SlotsOf(type'[c])
      PROVE  slot'[c][s] \in marked \cup {NIL}
  <2>1. type'[c] = type[c] /\ slot'[c] = slot[c] /\ type[c] \in Types \cup {FREE}
    BY <1>4 DEF TypeOK
  <2>2. s \in FollowedSlots(type[c])
    BY <1>1, <1>9, <2>1
  <2> QED BY <2>1, <2>2 DEF TriColour
<1>10. NoDangling'
  BY <1>7, <1>8, <1>9 DEF NoDangling
<1>11. TriColour' /\ MarksNeeded'
  BY NoMarks
<1> QED BY <1>5, <1>6, <1>10, <1>11

(* The other steps touch neither the cells in use nor the marks.           *)
LEMMA QuietStep ==
    ASSUME FullyMarked, IInv, TypeOK', Phases', pc' # "mark",
           type' = type, slot' = slot, regs' = regs,
           stack' \subseteq stack, FrameCells' \subseteq FrameCells,
           \/ heaps' = heaps /\ freelist' = freelist
           \/ heaps < NHeaps /\ GrowHeap
    PROVE  IInv'
<1> USE DEF IInv
<1>1. FreeListExact' /\ BeyondFree'
  <2>1. CASE heaps' = heaps /\ freelist' = freelist
    BY <2>1 DEF FreeListExact, BeyondFree, Allocated
  <2>2. CASE heaps < NHeaps /\ GrowHeap
    <3> DEFINE new == {c \in Cells : HeapOf[c] = heaps + 1}
    <3>1. Allocated' = Allocated \cup new
      BY <2>2, HeapAssumption DEF Allocated, GrowHeap, TypeOK
    <3>2. new \cap Allocated = {}
      BY HeapAssumption DEF Allocated, TypeOK
    <3>3. freelist' = freelist \cup new /\ \A c \in new : type[c] = FREE
      BY <2>2, <3>2 DEF GrowHeap, BeyondFree
    <3> QED BY <3>1, <3>3 DEF FreeListExact, BeyondFree
  <2> QED BY <2>1, <2>2
<1>2. NoDangling'
  BY DEF NoDangling, NonFree, Roots, RegisterCells
<1>3. TriColour' /\ MarksNeeded'
  BY NoMarks
<1> QED BY <1>1, <1>2, <1>3

(* IInv is inductive. *)
LEMMA SafeStep == ASSUME FullyMarked, IInv, [Next]_vars PROVE IInv'
<1> USE DEF IInv
<1>1. TypeOK' /\ Phases'
  BY TypeStep, PhasesStep
<1>2. CASE Mutate
  <2>1. CASE \E c \in Cells, t \in Constructed : NewCell(c, t)
    BY <1>1, <2>1, NewCellStep
  <2>2. CASE ~ \E c \in Cells, t \in Constructed : NewCell(c, t)
    BY <1>1, <1>2, <2>2, MutatorStep
  <2> QED BY <2>1, <2>2
<1>3. ASSUME NEW stale \in SUBSET Cells,
             UserGc(stale) \/ \E t \in Constructed : NewCellGc(t, stale)
      PROVE  IInv'
  <2>1. CASE UserGc(stale)
    BY <1>1, <2>1, StartMarkStep DEF UserGc
  <2>2. ASSUME NEW t \in Constructed, NewCellGc(t, stale) PROVE IInv'
    <3>1. \E w \in Words(t) : frames' = Append(frames, [type |-> t, words |-> w])
      BY <2>2 DEF NewCellGc
    <3> QED BY <1>1, <2>2, <3>1, StartMarkStep DEF NewCellGc
  <2> QED BY <1>3, <2>1, <2>2
<1>4. CASE \E c \in Cells : MarkStep(c)
  BY <1>1, <1>4, MarkStepStep
<1>5. CASE Sweep
  BY <1>1, <1>5, SweepStep
<1>6. CASE UserGcReturns
  BY <1>1, <1>6, QuietStep DEF UserGcReturns, mutator, FrameCells
<1>7. CASE AfterSweep
  <2>1. type' = type /\ slot' = slot /\ regs' = regs /\ pc' # "mark"
    BY <1>7 DEF AfterSweep, EmptyGrow, OutOfStorage, EnoughFree, FewFree, mutator
  <2>2. stack' \subseteq stack /\ FrameCells' \subseteq FrameCells
    <3>1. CASE OutOfStorage
      BY <3>1 DEF OutOfStorage, FrameCells
    <3>2. CASE ~OutOfStorage
      <4>1. stack' = stack /\ frames' = frames
        BY <1>7, <3>2 DEF AfterSweep, EmptyGrow, EnoughFree, FewFree, mutator
      <4> QED BY <4>1 DEF FrameCells
    <3> QED BY <3>1, <3>2
  <2>3. \/ heaps' = heaps /\ freelist' = freelist
        \/ heaps < NHeaps /\ GrowHeap
    BY <1>7 DEF AfterSweep, EmptyGrow, OutOfStorage, EnoughFree, FewFree
  <2> QED BY <1>1, <2>1, <2>2, <2>3, QuietStep
<1>8. CASE HookReturns
  BY <1>1, <1>8, QuietStep DEF HookReturns, mutator, FrameCells
<1>9. CASE Resume
  BY <1>1, <1>9, ResumeStep
<1>10. CASE AllocateHeap
  BY <1>1, <1>10, QuietStep DEF AllocateHeap, mutator, FrameCells
<1>11. CASE UNCHANGED vars
  BY <1>1, <1>11 DEF vars, FreeListExact, BeyondFree, Allocated, NoDangling, NonFree, Roots,
     RegisterCells, FrameCells, TriColour, ScannedRoots, MarksNeeded
<1> QED
  BY <1>2, <1>3, <1>4, <1>5, <1>6, <1>7, <1>8, <1>9, <1>10, <1>11 DEF Next, Collect

LEMMA SafeInit == Init => IInv
<1> SUFFICES ASSUME Init PROVE IInv
  OBVIOUS
<1>1. TypeOK /\ Phases
  BY HeapAssumption DEF Init, TypeOK, Phases, Word, NoWords
<1>2. FreeListExact /\ BeyondFree
  BY HeapAssumption DEF Init, FreeListExact, BeyondFree, Allocated
<1>3. Roots = {} /\ NonFree = {}
  BY DEF Init, Roots, RegisterCells, FrameCells, NonFree
<1>4. NoDangling /\ TriColour /\ MarksNeeded
  BY <1>3 DEF Init, NoDangling, TriColour, MarksNeeded
<1> QED BY <1>1, <1>2, <1>4 DEF IInv

(* IInv holds throughout in a program whose types are all fully marked:    *)
(* what gc_mark, gc_sweep and NEWCELL keep between them.                   *)
THEOREM Invariance == FullyMarked => (Spec => []IInv)
<1> SUFFICES ASSUME FullyMarked PROVE Spec => []IInv
  OBVIOUS
<1>1. IInv /\ [Next]_vars => IInv'
  BY SafeStep
<1> QED
  BY <1>1, SafeInit, PTL DEF Spec

(* In such a program nothing that can be named is ever on the free list:   *)
(* gc_sweep reclaims only what gc_mark could not reach.                    *)
THEOREM StorageSafe == FullyMarked => (Spec => []NoDangling)
<1> SUFFICES ASSUME FullyMarked PROVE Spec => []NoDangling
  OBVIOUS
<1>1. IInv => NoDangling
  BY DEF IInv
<1> QED BY <1>1, Invariance, PTL

(* And the free list holds every free cell and no other, between a NEWCELL *)
(* and the hook that used up the cells it waited for as well.              *)
THEOREM FreeListKept == FullyMarked => (Spec => []FreeListExact)
<1> SUFFICES ASSUME FullyMarked PROVE Spec => []FreeListExact
  OBVIOUS
<1>1. IInv => FreeListExact
  BY DEF IInv
<1> QED BY <1>1, Invariance, PTL

(* What a collection begins with is what the scan of the registers and of  *)
(* the C stack finds, the frame of the NEWCELL that waits for it included. *)
LEMMA ScanIsComplete ==
    ASSUME TypeOK, NEW why, NEW stale \in SUBSET Cells, StartMark(why, stale),
           \/ frames' = frames
           \/ \E t \in Constructed : \E w \in Words(t) :
                 frames' = Append(frames, [type |-> t, words |-> w])
    PROVE  ScannedRoots' \cup pinned' \subseteq grey'
<1> USE DEF StartMark
<1>1. NonFree' = NonFree /\ RegisterCells' = RegisterCells
  BY DEF NonFree, RegisterCells
<1>2. FrameCells' \subseteq FrameCells \cup stack
  BY SuspendedWords DEF FrameCells
<1> QED BY <1>1, <1>2 DEF ScannedRoots

(* gc_mark loses no pointer that it follows, whatever the types: traced    *)
(* closures, of which it follows one word too few, are among them.         *)
LEMMA ColourStep == ASSUME TypeOK, Phases, TriColour, [Next]_vars PROVE TriColour'
<1>1. TypeOK' /\ Phases'
  BY TypeStep, PhasesStep
<1>2. CASE pc' # "mark"
  BY <1>1, <1>2, NoMarks
<1>3. CASE \E stale \in SUBSET Cells : \/ UserGc(stale)
                                       \/ \E t \in Constructed : NewCellGc(t, stale)
  <2>1. marked = {}
    BY <1>3 DEF Phases, UserGc, NewCellGc
  <2>2. ScannedRoots' \cup pinned' \subseteq grey'
    BY <1>3, ScanIsComplete DEF UserGc, NewCellGc
  <2>3. marked' = marked
    BY <1>3 DEF UserGc, NewCellGc, StartMark
  <2> QED BY <2>1, <2>2, <2>3 DEF TriColour
<1>4. ASSUME NEW c \in Cells, MarkStep(c) PROVE TriColour'
  <2> USE <1>4 DEF MarkStep, mutator
  <2> DEFINE out == {slot[c][s] : s \in FollowedSlots(type[c])} \ {NIL}
  <2>1. ScannedRoots' = ScannedRoots
    BY DEF NonFree, ScannedRoots, RegisterCells, FrameCells
  <2>2. \/ c \in marked /\ marked' = marked /\ grey' = grey \ {c}
        \/ c \notin marked /\ marked' = marked \cup {c} /\ grey' = (grey \ {c}) \cup out
    OBVIOUS
  <2>3. marked \cup grey \subseteq marked' \cup grey' /\ c \in marked' /\ pc = "mark"
    BY <2>2
  <2>4. (ScannedRoots \cup pinned \subseteq marked \cup grey)'
    BY <2>1, <2>3 DEF TriColour
  <2>5. ASSUME NEW d \in marked', NEW s \in FollowedSlots(type'[d])
        PROVE  slot'[d][s] \in marked' \cup grey' \cup {NIL}
    <3>1. CASE d \in marked
      BY <2>3, <2>5, <3>1 DEF TriColour
    <3>2. CASE d \notin marked
      <4>1. d = c /\ grey' = (grey \ {c}) \cup out
        BY <2>2, <3>2
      <4> QED BY <2>5, <4>1
    <3> QED BY <3>1, <3>2
  <2> QED BY <2>4, <2>5 DEF TriColour
<1>5. CASE UNCHANGED vars
  BY <1>5 DEF vars, mutator, collector, TriColour, ScannedRoots, RegisterCells, FrameCells, NonFree
<1>6. CASE Mutate
  <2>1. pc' = pc /\ pc = "run"
    BY <1>6 DEF Mutate, Load, LoadRegister, StoreRegister, Store, Drop, Trace, Untrace, Retype,
                Unwind, NewCell
  <2> QED BY <1>2, <2>1
<1>7. CASE Sweep \/ UserGcReturns \/ HookReturns \/ Resume \/ AllocateHeap
  <2>1. pc' # "mark"
    BY <1>7 DEF Sweep, UserGcReturns, HookReturns, Resume, AllocateHeap
  <2> QED BY <1>2, <2>1
<1>8. CASE AfterSweep
  <2>1. pc' # "mark"
    BY <1>8 DEF AfterSweep, EmptyGrow, OutOfStorage, EnoughFree, FewFree
  <2> QED BY <1>2, <2>1
<1> QED BY <1>2, <1>3, <1>4, <1>5, <1>6, <1>7, <1>8 DEF Next, Collect

(* While gc_mark runs, every root and every word that it follows of a      *)
(* marked cell is marked or still before it, for any types.                *)
THEOREM NoPointerLost == Spec => []TriColour
<1>1. Init => TypeOK /\ Phases /\ TriColour
  BY HeapAssumption DEF Init, TypeOK, Phases, Word, NoWords, TriColour
<1>2. TypeOK /\ Phases /\ TriColour /\ [Next]_vars => (TypeOK /\ Phases /\ TriColour)'
  BY TypeStep, PhasesStep, ColourStep
<1> QED BY <1>1, <1>2, PTL DEF Spec

-----------------------------------------------------------------------------
(* NEWCELL without a hook. *)

HookFree ==
    /\ pc # "crash"
    /\ pc = "resume" => freelist # {}
    /\ pc = "run" \/ gcFor = "user" => frames = <<>>
    /\ Len(frames) <= 1

LEMMA HookFreeStep ==
    ASSUME ~AfterGcHook, TypeOK, Phases, HookFree, [Next]_vars
    PROVE  HookFree'
<1> USE DEF HookFree
<1>1. CASE Mutate
  <2>1. ~ \E n \in 0..MaxNest : Unwind(n)
    BY DEF Unwind
  <2> QED
    BY <1>1, <2>1 DEF Mutate, Load, LoadRegister, StoreRegister, Store, Drop, Trace,
       Untrace, Retype, NewCell, Take, collector
<1>2. ASSUME NEW stale \in SUBSET Cells,
             UserGc(stale) \/ \E t \in Constructed : NewCellGc(t, stale)
      PROVE  HookFree'
  <2>1. CASE UserGc(stale)
    BY <2>1 DEF UserGc, StartMark
  <2>2. CASE \E t \in Constructed : NewCellGc(t, stale)
    <3>1. frames = <<>> /\ \E f : frames' = Append(frames, f)
      BY <2>2 DEF NewCellGc
    <3>2. Len(frames') <= 1
      BY <3>1
    <3> QED BY <2>2, <3>2 DEF NewCellGc, StartMark
  <2> QED BY <1>2, <2>1, <2>2
<1>3. CASE \E c \in Cells : MarkStep(c)
  BY <1>3 DEF MarkStep, mutator
<1>4. CASE Sweep
  BY <1>4 DEF Sweep
<1>5. CASE UserGcReturns
  BY <1>5 DEF UserGcReturns, mutator
<1>6. CASE AfterSweep
  <2>1. heaps < NHeaps /\ GrowHeap => freelist' # {}
    <3>1. heaps < NHeaps => heaps + 1 \in 1..NHeaps
      BY HeapAssumption DEF TypeOK
    <3> QED BY <3>1, HeapAssumption DEF GrowHeap
  <2>2. Cardinality(freelist) >= LowWater => freelist # {}
    BY FS_EmptySet, LowWaterAssumption
  <2>3. CASE EmptyGrow
    BY <1>6, <2>1, <2>3 DEF AfterSweep, EmptyGrow, mutator
  <2>4. CASE OutOfStorage
    BY <1>6, <2>4 DEF AfterSweep, OutOfStorage
  <2>5. CASE EnoughFree
    BY <1>6, <2>2, <2>5 DEF AfterSweep, EnoughFree, mutator
  <2>6. CASE FewFree
    BY <1>6, <2>1, <2>6 DEF AfterSweep, FewFree, mutator
  <2> QED BY <1>6, <2>3, <2>4, <2>5, <2>6 DEF AfterSweep
<1>7. CASE HookReturns
  BY <1>7 DEF HookReturns
<1>8. CASE Resume
  <2>1. Len(frames) = 1
    <3>1. frames # <<>> /\ frames \in Seq([type : Types, words : [SlotNames -> Word]])
      BY <1>8 DEF Resume, Phases, TypeOK
    <3> DEFINE n == Len(frames)
    <3>2. n \in Nat \ {0} /\ n <= 1
      BY <3>1, EmptySeq
    <3> HIDE DEF n
    <3>3. n = 1
      BY <3>2
    <3> QED BY <3>3 DEF n
  <2>2. SubSeq(frames, 1, 0) = <<>>
    <3>1. 1 \in Int /\ 0 \in Int /\ 0 < 1
      OBVIOUS
    <3> QED BY <3>1, SubSeqEmpty, Zenon
  <2>3. frames' = SubSeq(frames, 1, Len(frames) - 1) /\ pc' = "run" /\ gcFor' = gcFor
    BY <1>8 DEF Resume, collector
  <2>4. frames' = <<>> /\ Len(<<>>) = 0
    BY <2>1, <2>2, <2>3
  <2> QED BY <2>3, <2>4
<1>9. CASE AllocateHeap
  BY <1>9 DEF AllocateHeap, GrowHeap, mutator, collector
<1>10. CASE UNCHANGED vars
  BY <1>10 DEF vars
<1> QED
  BY <1>1, <1>2, <1>3, <1>4, <1>5, <1>6, <1>7, <1>8, <1>9, <1>10 DEF Next, Collect

(* As long as the program leaves *after-gc* alone, a NEWCELL that had to   *)
(* collect either gets a cell or gives up with an error: it never takes    *)
(* the null pointer for a cell.                                            *)
THEOREM NeverNull == ~AfterGcHook => (Spec => []NewCellNeverNull)
<1> SUFFICES ASSUME ~AfterGcHook PROVE Spec => []NewCellNeverNull
  OBVIOUS
<1>1. Init => TypeOK /\ Phases /\ HookFree
  BY HeapAssumption DEF Init, TypeOK, Phases, HookFree, Word, NoWords
<1>2. TypeOK /\ Phases /\ HookFree /\ [Next]_vars => (TypeOK /\ Phases /\ HookFree)'
  BY TypeStep, PhasesStep, HookFreeStep
<1>3. HookFree => NewCellNeverNull
  BY DEF HookFree, NewCellNeverNull
<1> QED
  BY <1>1, <1>2, <1>3, PTL DEF Spec

-----------------------------------------------------------------------------
(* Refinement of the abstract collector. *)

LEMMA ReachesRoots ==
    ASSUME NEW R \in SUBSET Cells, NEW ty, NEW sl
    PROVE  R \subseteq Reachable(R, ty, sl)
BY DEF Reachable

LEMMA ReachesOn ==
    ASSUME NEW R, NEW ty, NEW sl, NEW c \in Reachable(R, ty, sl),
           NEW s \in SlotsOf(ty[c]), sl[c][s] \in Cells
    PROVE  sl[c][s] \in Reachable(R, ty, sl)
BY NilAssumption DEF Reachable, Closed

(* What gc_sweep keeps is what the roots and the stale words reach. *)
LEMMA MarkedIsReachable ==
    ASSUME FullyMarked, IInv, pc = "mark", grey = {}
    PROVE  marked = Reachable(Roots \cup pinned, type, slot)
<1> USE DEF IInv
<1>1. marked \subseteq Reachable(Roots \cup pinned, type, slot)
  BY DEF MarksNeeded, Reachable, TypeOK
<1>2. Roots \cup pinned \subseteq marked
  BY DEF TriColour, ScannedRoots, Roots, NoDangling
<1>3. Closed(marked, type, slot)
  <2>1. ASSUME NEW c \in marked, NEW s \in SlotsOf(type[c])
        PROVE  slot[c][s] \in marked \cup {NIL}
    <3>1. type[c] \in Types \cup {FREE}
      BY DEF TypeOK
    <3>2. s \in FollowedSlots(type[c])
      BY <2>1, <3>1, FullSlots
    <3> QED BY <3>2 DEF TriColour
  <2> QED BY <2>1 DEF Closed
<1>4. Reachable(Roots \cup pinned, type, slot) \subseteq marked
  BY <1>2, <1>3 DEF Reachable, TypeOK
<1> QED BY <1>1, <1>4

(* Taking a cell is creating one, for whoever holds its words. *)
LEMMA TakeCreates ==
    ASSUME FullyMarked, IInv, NEW c \in freelist, NEW t \in Types,
           NEW w \in [SlotNames -> Roots \cup {NIL}], Take(c, t, w),
           regs' = regs, FrameCells' \subseteq FrameCells
    PROVE  Abstract!Create
<1>1. c \in Cells /\ type[c] = FREE
  BY DEF IInv, FreeListExact, Allocated
<1>2. Roots \subseteq Reachable(Roots, type, slot)
  BY ReachesRoots DEF IInv, TypeOK, Roots, RegisterCells, FrameCells, Word
<1>3. Roots' \subseteq Reachable(Roots, type, slot) \cup {c}
  BY <1>2 DEF Take, Roots, RegisterCells
<1>4. w \in [SlotNames -> Reachable(Roots, type, slot) \cup {NIL}]
  BY <1>2
<1>5. type' = [type EXCEPT ![c] = t] /\ slot' = [slot EXCEPT ![c] = w]
  BY DEF Take
<1>6. Abstract!Live = Reachable(Roots, type, slot)
  BY DEF Abstract!Live, Abstract!Reachable, Reachable, Abstract!Closed, Closed,
         Abstract!SlotsOf, SlotsOf
<1>7. Abstract!SlotNames = SlotNames
  BY DEF Abstract!SlotNames, SlotNames, Abstract!SlotsOf, SlotsOf
<1> QED
  BY <1>1, <1>3, <1>4, <1>5, <1>6, <1>7 DEF Abstract!Create

(* Every step of the storage manager is a step of the abstract collector,  *)
(* or leaves its variables alone.                                          *)
LEMMA RefinesStep ==
    ASSUME FullyMarked, IInv, IInv', [Next]_vars
    PROVE  [Abstract!Next]_Abstract!vars
<1> USE DEF IInv
<1> DEFINE R == Reachable(Roots, type, slot)
<1>a. R \subseteq Cells /\ Roots \subseteq R
  BY ReachesRoots DEF Reachable, TypeOK, Roots, RegisterCells, FrameCells, Word
<1>b. Abstract!Live = R
  BY DEF Abstract!Live, Abstract!Reachable, Reachable, Abstract!Closed, Closed,
         Abstract!SlotsOf, SlotsOf
<1>c. Abstract!SlotNames = SlotNames
  BY DEF Abstract!SlotNames, SlotNames, Abstract!SlotsOf, SlotsOf
<1>d. ASSUME Roots' \subseteq R, type' = type, slot' = slot
      PROVE  Abstract!Next
  BY <1>b, <1>d DEF Abstract!Next, Abstract!Move
<1>e. ASSUME Roots' = Roots, type' = type, slot' = slot
      PROVE  UNCHANGED Abstract!vars
  BY <1>e DEF Abstract!vars
<1> HIDE DEF R
<1>1. ASSUME NEW c \in Cells, NEW s \in SlotNames, Load(c, s)
      PROVE  Abstract!Next
  <2>1. slot[c][s] \in Cells /\ c \in R
    BY <1>1, <1>a DEF Load, TypeOK, Word, Roots
  <2>2. slot[c][s] \in R
    BY <1>1, <2>1, ReachesOn DEF Load, R
  <2>3. Roots' = Roots \cup {slot[c][s]}
    BY <1>1 DEF Load, Roots, RegisterCells, FrameCells
  <2> QED BY <1>1, <1>a, <1>d, <2>2, <2>3 DEF Load
<1>2. ASSUME NEW c \in Cells, NEW s \in SlotNames, NEW v \in Word, Store(c, s, v)
      PROVE  Abstract!Next
  <2>1. c \in R /\ v \in R \cup {NIL} /\ type' = type
    BY <1>2, <1>a DEF Store, Roots
  <2>2. Roots' = Roots
    BY <1>2 DEF Store, Roots, RegisterCells, FrameCells
  <2>3. slot' = [slot EXCEPT ![c][s] = v]
    BY <1>2 DEF Store
  <2> QED BY <1>b, <1>c, <2>1, <2>2, <2>3 DEF Abstract!Next, Abstract!Write
<1>3. ASSUME NEW c \in Cells, Drop(c) PROVE Abstract!Next
  BY <1>3, <1>a, <1>d DEF Drop, Roots, RegisterCells, FrameCells
<1>4. ASSUME NEW r \in Registers, LoadRegister(r) PROVE Abstract!Next
  BY <1>4, <1>a, <1>d DEF LoadRegister, Roots, RegisterCells, FrameCells
<1>5. ASSUME NEW r \in Registers, NEW v \in Word, StoreRegister(r, v)
      PROVE  Abstract!Next
  <2>1. RegisterCells' \subseteq RegisterCells \cup stack
    BY <1>5 DEF StoreRegister, RegisterCells, TypeOK
  <2> QED BY <1>5, <1>a, <1>d, <2>1 DEF StoreRegister, Roots, FrameCells
<1>6. ASSUME NEW n \in 0..MaxNest, Unwind(n) PROVE Abstract!Next
  <2>1. n \in 0..Len(frames) /\ frames' = SubSeq(frames, 1, n)
    BY <1>6 DEF Unwind, TypeOK
  <2>2. FrameCells' \subseteq FrameCells
    BY <2>1, FrameCellsCut
  <2> QED BY <1>6, <1>a, <1>d, <2>2 DEF Unwind, Roots, RegisterCells
<1>7. ASSUME NEW c \in Cells, NEW t \in Constructed, NewCell(c, t)
      PROVE  Abstract!Next
  <2>1. PICK w \in Words(t) : Take(c, t, w)
    BY <1>7 DEF NewCell
  <2>2. w \in [SlotNames -> Roots \cup {NIL}]
    BY DEF Words, Roots
  <2>3. regs' = regs /\ FrameCells' = FrameCells /\ c \in freelist
    BY <1>7, <2>1 DEF NewCell, FrameCells, Take
  <2> QED
    BY <2>1, <2>2, <2>3, TakeCreates DEF Abstract!Next, Constructed
<1>8. ASSUME NEW stale \in SUBSET Cells,
             UserGc(stale) \/ \E t \in Constructed : NewCellGc(t, stale)
      PROVE  UNCHANGED Abstract!vars
  <2>1. FrameCells \subseteq FrameCells' /\ FrameCells' \subseteq FrameCells \cup stack
    <3>1. CASE UserGc(stale)
      BY <3>1 DEF UserGc, FrameCells
    <3>2. CASE \E t \in Constructed : NewCellGc(t, stale)
      BY <3>2, SuspendedWords DEF NewCellGc
    <3> QED BY <1>8, <3>1, <3>2
  <2>2. UNCHANGED <<type, slot, regs, stack>>
    BY <1>8 DEF UserGc, NewCellGc, StartMark
  <2> QED BY <1>e, <2>1, <2>2 DEF Roots, RegisterCells
<1>9. CASE Sweep
  <2>1. marked = Reachable(Roots \cup pinned, type, slot)
    BY <1>9, MarkedIsReachable DEF Sweep
  <2>2. Reachable(Roots \cup pinned, type, slot)
          = Abstract!Reachable(Roots \cup pinned, type, slot)
    BY DEF Abstract!Reachable, Reachable, Abstract!Closed, Closed,
           Abstract!SlotsOf, SlotsOf
  <2>3. pinned \in SUBSET {c \in Cells : type[c] # FREE}
    BY DEF MarksNeeded, NonFree
  <2>4. type' = [c \in Cells |-> IF c \in marked THEN type[c] ELSE FREE]
    <3>1. \A c \in Cells : (IF c \in Allocated \ marked THEN FREE ELSE type[c])
                           = (IF c \in marked THEN type[c] ELSE FREE)
      BY DEF BeyondFree
    <3> QED BY <1>9, <3>1 DEF Sweep
  <2>5. slot' = [c \in Cells |-> IF c \in marked THEN slot[c] ELSE NoWords]
    <3>1. \A c \in Cells : (IF c \in Allocated \ marked THEN NoWords ELSE slot[c])
                           = (IF c \in marked THEN slot[c] ELSE NoWords)
      BY DEF BeyondFree
    <3> QED BY <1>9, <3>1 DEF Sweep
  <2>6. Roots' = Roots
    BY <1>9 DEF Sweep, Roots, RegisterCells, FrameCells
  <2> QED
    BY <1>c, <2>1, <2>2, <2>3, <2>4, <2>5, <2>6 DEF Abstract!Next, Abstract!Collect, NoWords
<1>10. CASE AfterSweep
  <2>1. UNCHANGED <<type, slot, regs>>
    BY <1>10 DEF AfterSweep, EmptyGrow, OutOfStorage, EnoughFree, FewFree, mutator
  <2>2. CASE OutOfStorage
    <3>1. Roots' \subseteq Roots
      BY <2>1, <2>2 DEF OutOfStorage, Roots, RegisterCells, FrameCells
    <3> QED BY <1>a, <1>d, <2>1, <3>1
  <2>3. CASE ~OutOfStorage
    <3>1. UNCHANGED <<stack, frames>>
      BY <1>10, <2>3 DEF AfterSweep, EmptyGrow, EnoughFree, FewFree, mutator
    <3> QED BY <1>e, <2>1, <3>1 DEF Roots, RegisterCells, FrameCells
  <2> QED BY <2>2, <2>3
<1>11. CASE Resume
  <2> DEFINE n == Len(frames)
             f == frames[n]
  <2>1. /\ n \in Nat /\ n >= 1
        /\ f \in [type : Types, words : [SlotNames -> Word]]
        /\ f.words \in [SlotNames -> FrameCells \cup {NIL}]
    BY <1>11, ResumeWords DEF Resume
  <2>2. f.type \in Types /\ f.words \in [SlotNames -> Roots \cup {NIL}]
    BY <2>1 DEF Roots
  <2>3. regs' = regs
    BY <1>11 DEF Resume
  <2>4. CASE freelist # {}
    <3>1. PICK c \in freelist : Take(c, f.type, f.words)
      BY <1>11, <2>4 DEF Resume
    <3>2. frames' = SubSeq(frames, 1, n - 1) /\ n - 1 \in 0..n
      BY <1>11, <2>1, <2>4 DEF Resume
    <3>3. FrameCells' \subseteq FrameCells
      BY <3>2, FrameCellsCut
    <3> HIDE DEF f
    <3> QED BY <2>2, <2>3, <3>1, <3>3, TakeCreates DEF Abstract!Next
  <2>5. CASE freelist = {}
    <3>1. UNCHANGED <<type, slot, stack, frames>>
      BY <1>11, <2>5 DEF Resume
    <3> QED BY <1>e, <2>3, <3>1 DEF Roots, RegisterCells, FrameCells
  <2> QED BY <2>4, <2>5
<1>12. ASSUME \/ \E c \in Cells : MarkStep(c)
              \/ UserGcReturns \/ HookReturns \/ AllocateHeap \/ UNCHANGED vars
       PROVE  UNCHANGED Abstract!vars
  <2>1. UNCHANGED mutator
    BY <1>12 DEF MarkStep, UserGcReturns, HookReturns, AllocateHeap, vars, mutator
  <2> QED BY <1>e, <2>1 DEF mutator, Roots, RegisterCells, FrameCells
<1>13. ASSUME NEW c \in Cells PROVE ~Trace(c) /\ ~Untrace(c)
  BY NoTrace
<1> QED
  BY <1>1, <1>2, <1>3, <1>4, <1>5, <1>6, <1>7, <1>8, <1>9, <1>10, <1>11, <1>12, <1>13
  DEF Next, Mutate, Collect

(* The storage manager implements the abstract collector: it frees what    *)
(* neither the program nor a stale word can reach, all of it, at once, and *)
(* touches nothing else.                                                   *)
THEOREM Refinement == FullyMarked => (Spec => Implements)
<1> SUFFICES ASSUME FullyMarked PROVE Spec => Implements
  OBVIOUS
<1>1. Init => Abstract!Init
  <2>1. Abstract!SlotNames = SlotNames
    BY DEF Abstract!SlotNames, SlotNames, Abstract!SlotsOf, SlotsOf
  <2> QED
    BY <2>1 DEF Init, Abstract!Init, Roots, RegisterCells, FrameCells, NoWords
<1>2. IInv /\ [Next]_vars => IInv'
  BY SafeStep
<1>3. IInv /\ IInv' /\ [Next]_vars => [Abstract!Next]_Abstract!vars
  BY RefinesStep
<1> QED
  BY <1>1, <1>2, <1>3, SafeInit, PTL DEF Spec, Implements, Abstract!Spec
=============================================================================
