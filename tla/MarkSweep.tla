------------------------------ MODULE MarkSweep ------------------------------
(***************************************************************************)
(* The mark-and-sweep storage manager (slib.c, siodp.h): NEWCELL and the   *)
(* free list, gc_for_newcell with its heap growth and its after-gc hook,   *)
(* user_gc, the mark phase with its conservative scan of the C stack, and  *)
(* the sweep.  The interpreter is the mutator: it moves cells between the  *)
(* protected locations, its C stack and the slots of other cells.          *)
(*                                                                         *)
(* A cell's words are its slots; the words of a free cell are NIL (only    *)
(* its CDR, the free list's link, has a meaning, and the free list is the  *)
(* set of the cells on it).  A NEWCELL that found the free list empty is   *)
(* suspended while the collection, and the *after-gc* hook, run: frames is *)
(* the stack of the suspended ones, with the values they will store.       *)
(***************************************************************************)
EXTENDS CellGraph, Sequences

CONSTANTS
    FREE,           \* tc_free_cell
    Registers,      \* the locations given to gc_protect
    NHeaps,         \* nheaps (-h)
    HeapOf,         \* the heap each cell lies in
    LowWater,       \* free cells that make gc_for_newcell run the hook: 100
    AfterGcHook,    \* has the program set *after-gc*?
    MaxNest,        \* bound: suspended NEWCELLs at a time
    MaxStale        \* bound: stale stack words a collection meets

ASSUME FreeAssumption == FREE \notin AllTypes
ASSUME HeapAssumption == /\ NHeaps \in Nat \ {0}
                         /\ HeapOf \in [Cells -> 1..NHeaps]
                         /\ \A h \in 1..NHeaps : \E c \in Cells : HeapOf[c] = h
ASSUME LowWaterAssumption == LowWater \in Nat \ {0}
ASSUME BoundAssumption == AfterGcHook \in BOOLEAN /\ MaxNest \in Nat \ {0} /\ MaxStale \in Nat

VARIABLES
    type,       \* (*ptr).type
    slot,       \* the words of the cells
    regs,       \* contents of the protected locations
    stack,      \* cells whose address a live word of the C stack holds
    frames,     \* suspended NEWCELLs, innermost last
    freelist,   \* the cells on the free list
    heaps,      \* number of heaps allocated
    marked,     \* the cells with gc_mark = 1
    grey,       \* pointers gc_mark has been given and not yet looked at
    pinned,     \* cells stale words of the C stack seem to point to
    gcFor,      \* what asked for the collection
    pc          \* where the storage manager is

mutator == <<type, slot, regs, stack, frames>>
collector == <<marked, grey, pinned, gcFor>>
vars == <<type, slot, regs, stack, frames, freelist, heaps,
          marked, grey, pinned, gcFor, pc>>

NoWords == [s \in SlotNames |-> NIL]
NonFree == {c \in Cells : type[c] # FREE}
Allocated == {c \in Cells : HeapOf[c] <= heaps}

(* The values a suspended NEWCELL will store are in its caller's frame. *)
FrameCells == {c \in Cells : \E i \in DOMAIN frames, s \in SlotNames :
                                 frames[i].words[s] = c}
RegisterCells == {regs[r] : r \in Registers} \ {NIL}
Roots == RegisterCells \cup stack \cup FrameCells

(* Faulty variants of the next definition, each leaving one call of        *)
(* gc_mark_and_sweep out: mark_protected_registers, the scan of the saved  *)
(* registers, the scan of the stack.                                       *)
ScannedRootsNoRegisters == (stack \cup FrameCells) \cap NonFree
ScannedRootsNoFrames == RegisterCells \cup (stack \cap NonFree)
ScannedRootsNoStack == RegisterCells \cup (FrameCells \cap NonFree)

(* What a collection starts from: of the C stack's words, only those that  *)
(* point to cells not free (looks_pointerp).                               *)
ScannedRoots == RegisterCells \cup ((stack \cup FrameCells) \cap NonFree)

-----------------------------------------------------------------------------
Init ==
    /\ type = [c \in Cells |-> FREE]
    /\ slot = [c \in Cells |-> NoWords]
    /\ regs = [r \in Registers |-> NIL]
    /\ stack = {}
    /\ frames = <<>>
    /\ heaps = 1
    /\ freelist = {c \in Cells : HeapOf[c] = 1}
    /\ marked = {} /\ grey = {} /\ pinned = {}
    /\ gcFor = "none"
    /\ pc = "run"

-----------------------------------------------------------------------------
(* The mutator.  It runs between collections, and inside the hook.         *)

(* car, cdr, symbol values, array elements: a word of a cell is fetched. *)
Load(c, s) ==
    /\ pc = "run"
    /\ c \in stack /\ s \in SlotsOf(type[c]) /\ slot[c][s] # NIL
    /\ stack' = stack \cup {slot[c][s]}
    /\ UNCHANGED <<type, slot, regs, frames, freelist, heaps, collector, pc>>

LoadRegister(r) ==
    /\ pc = "run"
    /\ regs[r] # NIL
    /\ stack' = stack \cup {regs[r]}
    /\ UNCHANGED <<type, slot, regs, frames, freelist, heaps, collector, pc>>

StoreRegister(r, v) ==
    /\ pc = "run"
    /\ v \in stack \cup {NIL}
    /\ regs' = [regs EXCEPT ![r] = v]
    /\ UNCHANGED <<type, slot, stack, frames, freelist, heaps, collector, pc>>

(* setcar, setcdr, setvar, aset1, set_field.  A struct definition and an   *)
(* instance's link to it are written once, by their constructors.          *)
FixedSlots == {"struct_def_obj", "field_name_strs", "next"}

Store(c, s, v) ==
    /\ pc = "run"
    /\ c \in stack /\ s \in SlotsOf(type[c]) \ FixedSlots
    /\ v \in stack \cup {NIL}
    /\ slot' = [slot EXCEPT ![c][s] = v]
    /\ UNCHANGED <<type, regs, stack, frames, freelist, heaps, collector, pc>>

(* A word of the C stack dies: a local goes out of scope. *)
Drop(c) ==
    /\ pc = "run"
    /\ c \in stack
    /\ stack' = stack \ {c}
    /\ UNCHANGED <<type, slot, regs, frames, freelist, heaps, collector, pc>>

(* trace and untrace overwrite the type of a closure in place. *)
Retype(c, from, to) ==
    /\ pc = "run"
    /\ c \in stack /\ type[c] = from
    /\ to \in Types
    /\ type' = [type EXCEPT ![c] = to]
    /\ UNCHANGED <<slot, regs, stack, frames, freelist, heaps, collector, pc>>

Trace(c) == Retype(c, "closure", "closure_traced")
Untrace(c) == Retype(c, "closure_traced", "closure")

(* err to the top level, or *throw to a catch frame: the C frames above    *)
(* the target are gone, suspended NEWCELLs among them.                     *)
Unwind(n) ==
    /\ pc = "run"
    /\ n \in 0..(Len(frames) - 1)
    /\ frames' = SubSeq(frames, 1, n)
    /\ \E keep \in SUBSET stack : stack' = keep
    /\ UNCHANGED <<type, slot, regs, freelist, heaps, collector, pc>>

-----------------------------------------------------------------------------
(* NEWCELL and what its callers store into the new cell.                   *)

(* The words a constructor stores: values it holds.  new_struct_instance   *)
(* has a struct definition for its argument; a new definition is alone.    *)
Words(t) == {w \in [SlotNames -> stack \cup {NIL}] :
               /\ \A s \in SlotNames \ SlotsOf(t) : w[s] = NIL
               /\ t = "struct_instance" =>
                    w["struct_def_obj"] \in {c \in stack : type[c] = "struct_def"}
               /\ t = "struct_def" => w["next"] = NIL}

(* A constructor of a traced closure there is none: only trace makes one. *)
Constructed == Types \ {"closure_traced"}

Take(c, t, w) ==
    /\ c \in freelist
    /\ freelist' = freelist \ {c}
    /\ type' = [type EXCEPT ![c] = t]
    /\ slot' = [slot EXCEPT ![c] = w]
    /\ stack' = stack \cup {c}

NewCell(c, t) ==
    /\ pc = "run"
    /\ \E w \in Words(t) : Take(c, t, w)
    /\ UNCHANGED <<regs, frames, heaps, collector, pc>>

(* A collection starts, with the protected locations, the saved registers  *)
(* and the C stack, stale words in it included.                            *)
StartMark(why, stale) ==
    /\ gcFor' = why
    /\ pinned' = stale \cap NonFree
    /\ grey' = ScannedRoots \cup (stale \cap NonFree)
    /\ pc' = "mark"
    /\ UNCHANGED <<type, slot, regs, stack, freelist, heaps, marked>>

(* NEWCELL finds the free list empty and calls gc_for_newcell. *)
NewCellGc(t, stale) ==
    /\ pc = "run"
    /\ freelist = {}
    /\ Len(frames) < MaxNest
    /\ \E w \in Words(t) : frames' = Append(frames, [type |-> t, words |-> w])
    /\ StartMark("newcell", stale)

UserGc(stale) ==
    /\ pc = "run"
    /\ StartMark("user", stale)
    /\ UNCHANGED frames

(* The rest of a suspended NEWCELL: the head of the free list becomes the  *)
(* new cell, whatever it is by now.                                        *)
Resume ==
    /\ pc = "resume"
    /\ LET f == frames[Len(frames)]
       IN  \/ /\ freelist # {}
              /\ \E c \in freelist : Take(c, f.type, f.words)
              /\ frames' = SubSeq(frames, 1, Len(frames) - 1)
              /\ pc' = "run"
           \/ /\ freelist = {}
              /\ pc' = "crash"      \* (*_into).gc_mark = 0 with _into NULL
              /\ UNCHANGED <<type, slot, stack, frames, freelist>>
    /\ UNCHANGED <<regs, heaps, collector>>

-----------------------------------------------------------------------------
(* The collector.                                                          *)

(* Faulty: without gc_mark's early return for a marked cell. *)
MarkStepAgain(c) ==
    /\ pc = "mark"
    /\ c \in grey
    /\ marked' = marked \cup {c}
    /\ grey' = (grey \ {c}) \cup ({slot[c][s] : s \in FollowedSlots(type[c])} \ {NIL})
    /\ UNCHANGED <<mutator, freelist, heaps, pinned, gcFor, pc>>

(* Faulty: going round the loop forgets the callers of gc_mark. *)
MarkStepForgets(c) ==
    /\ pc = "mark"
    /\ c \in grey
    /\ marked' = marked \cup {c}
    /\ grey' = {slot[c][s] : s \in FollowedSlots(type[c])} \ (marked' \cup {NIL})
    /\ UNCHANGED <<mutator, freelist, heaps, pinned, gcFor, pc>>

(* gc_mark looks at one pointer: nothing to do for a marked cell, else its *)
(* followed slots are to be looked at too.                                 *)
MarkStep(c) ==
    /\ pc = "mark"
    /\ c \in grey
    /\ \/ /\ c \in marked
          /\ grey' = grey \ {c}
          /\ UNCHANGED marked
       \/ /\ c \notin marked
          /\ marked' = marked \cup {c}
          /\ grey' = (grey \ {c}) \cup
                     ({slot[c][s] : s \in FollowedSlots(type[c])} \ {NIL})
    /\ UNCHANGED <<mutator, freelist, heaps, pinned, gcFor, pc>>

(* Faulty: the sweep stops one heap short. *)
SweepShort ==
    /\ pc = "mark"
    /\ grey = {}
    /\ freelist' = {c \in Allocated \ marked : HeapOf[c] < NHeaps}
    /\ type' = [c \in Cells |-> IF c \in freelist' THEN FREE ELSE type[c]]
    /\ slot' = [c \in Cells |-> IF c \in freelist' THEN NoWords ELSE slot[c]]
    /\ marked' = {} /\ pinned' = {}
    /\ pc' = "swept"
    /\ UNCHANGED <<regs, stack, frames, heaps, grey, gcFor>>

(* gc_sweep: unmarked cells of the allocated heaps make the new free list, *)
(* marked ones lose their mark.  A marked free cell is on no list.         *)
Sweep ==
    /\ pc = "mark"
    /\ grey = {}
    /\ freelist' = Allocated \ marked
    /\ type' = [c \in Cells |-> IF c \in freelist' THEN FREE ELSE type[c]]
    /\ slot' = [c \in Cells |-> IF c \in freelist' THEN NoWords ELSE slot[c]]
    /\ marked' = {} /\ pinned' = {}
    /\ pc' = "swept"
    /\ UNCHANGED <<regs, stack, frames, heaps, grey, gcFor>>

GrowHeap ==
    /\ heaps' = heaps + 1
    /\ freelist' = freelist \cup {c \in Cells : HeapOf[c] = heaps + 1}

(* allocate-heap called by the program. *)
AllocateHeap ==
    /\ pc = "run"
    /\ heaps < NHeaps
    /\ GrowHeap
    /\ UNCHANGED <<mutator, collector, pc>>

UserGcReturns ==
    /\ pc = "swept" /\ gcFor = "user"
    /\ pc' = "run" /\ gcFor' = "none"
    /\ UNCHANGED <<mutator, freelist, heaps, marked, grey, pinned>>

(* gc_for_newcell after the sweep. *)
EmptyGrow ==
    /\ freelist = {} /\ heaps < NHeaps
    /\ GrowHeap
    /\ pc' = "resume"
    /\ UNCHANGED mutator

OutOfStorage ==         \* err: back to the top level
    /\ freelist = {} /\ heaps = NHeaps
    /\ stack' = {} /\ frames' = <<>>
    /\ pc' = "run"
    /\ UNCHANGED <<type, slot, regs, freelist, heaps>>

EnoughFree ==           \* evaluates *after-gc*
    /\ Cardinality(freelist) >= LowWater
    /\ pc' = IF AfterGcHook THEN "run" ELSE "resume"
    /\ UNCHANGED <<mutator, freelist, heaps>>

(* Faulty variants of the next definition: it answers for an empty free    *)
(* list too; it grows without asking for a heap not allocated yet.         *)
FewFreeOrNone ==
    /\ Cardinality(freelist) < LowWater
    /\ IF heaps < NHeaps THEN GrowHeap ELSE UNCHANGED <<heaps, freelist>>
    /\ pc' = "resume"
    /\ UNCHANGED mutator
FewFreeUnchecked ==
    /\ freelist # {} /\ Cardinality(freelist) < LowWater
    /\ GrowHeap
    /\ pc' = "resume"
    /\ UNCHANGED mutator

FewFree ==              \* allocate_aheap's answer is not looked at
    /\ freelist # {} /\ Cardinality(freelist) < LowWater
    /\ IF heaps < NHeaps THEN GrowHeap ELSE UNCHANGED <<heaps, freelist>>
    /\ pc' = "resume"
    /\ UNCHANGED mutator

(* gc_for_newcell after the sweep.  A control-C that came meanwhile leaves *)
(* it by a longjmp in no_interrupt(flag) instead: to the frames here that  *)
(* is an Unwind, and when it strikes is in module Interrupts.              *)
AfterSweep ==
    /\ pc = "swept" /\ gcFor = "newcell"
    /\ EmptyGrow \/ OutOfStorage \/ EnoughFree \/ FewFree
    /\ gcFor' = "none"
    /\ UNCHANGED <<marked, grey, pinned>>

(* The hook's evaluation is over; gc_for_newcell returns to NEWCELL. *)
HookReturns ==
    /\ pc = "run" /\ frames # <<>>
    /\ pc' = "resume"
    /\ UNCHANGED <<mutator, freelist, heaps, collector>>

-----------------------------------------------------------------------------
Mutate ==
    \/ \E c \in Cells : \/ \E s \in SlotNames : Load(c, s)
                        \/ \E s \in SlotNames, v \in Word : Store(c, s, v)
                        \/ Drop(c) \/ Trace(c) \/ Untrace(c)
    \/ \E r \in Registers : LoadRegister(r) \/ \E v \in Word : StoreRegister(r, v)
    \/ \E n \in 0..MaxNest : Unwind(n)
    \/ \E c \in Cells, t \in Constructed : NewCell(c, t)

Collect ==
    \/ \E stale \in {S \in SUBSET Cells : Cardinality(S) <= MaxStale} :
          \/ UserGc(stale)
          \/ \E t \in Constructed : NewCellGc(t, stale)
    \/ \E c \in Cells : MarkStep(c)
    \/ Sweep \/ UserGcReturns \/ AfterSweep \/ HookReturns
    \/ Resume \/ AllocateHeap

Next == Mutate \/ Collect

(* A collection runs to its end without a break: gc_mark_and_sweep is      *)
(* called with interrupts off and nothing in it waits.                     *)
CollectorStep == (\E c \in Cells : MarkStep(c)) \/ Sweep \/ UserGcReturns
                   \/ AfterSweep \/ Resume

Spec == Init /\ [][Next]_vars
FairSpec == Spec /\ WF_vars(CollectorStep)

-----------------------------------------------------------------------------
TypeOK ==
    /\ type \in [Cells -> Types \cup {FREE}]
    /\ slot \in [Cells -> [SlotNames -> Word]]
    /\ regs \in [Registers -> Word]
    /\ stack \subseteq Cells
    /\ frames \in Seq([type : Types, words : [SlotNames -> Word]])
    /\ freelist \subseteq Cells
    /\ heaps \in 1..NHeaps
    /\ marked \subseteq Cells /\ grey \subseteq Cells /\ pinned \subseteq Cells
    /\ gcFor \in {"none", "user", "newcell"}
    /\ pc \in {"run", "mark", "swept", "resume", "crash"}

(* Where a collection is, who waits for it, and when marks exist. *)
Phases ==
    /\ pc \in {"run", "resume", "crash"} <=> gcFor = "none"
    /\ pc = "resume" \/ gcFor = "newcell" => frames # <<>>
    /\ pc # "mark" => marked = {} /\ grey = {} /\ pinned = {}

(* The free list holds exactly the free cells of the allocated heaps: no   *)
(* cell is lost to it and none on it is in use (NEWCELL, gc_sweep,         *)
(* allocate_aheap).                                                        *)
FreeListExact == freelist = {c \in Allocated : type[c] = FREE}

(* No word of a cell in use, and no root, points to a free cell: nothing   *)
(* the program can still name was reclaimed (gc_mark, gc_sweep).           *)
NoDangling ==
    /\ Roots \subseteq NonFree
    /\ \A c \in NonFree : \A s \in SlotsOf(type[c]) : slot[c][s] \in NonFree \cup {NIL}

(* While marking, every cell a marked cell points to by a followed slot is *)
(* marked or still to be looked at, and so is every root: gc_mark never    *)
(* loses a pointer (slib.c 1764-1849).                                     *)
TriColour ==
    pc = "mark" =>
      /\ ScannedRoots \cup pinned \subseteq marked \cup grey
      /\ \A c \in marked : \A s \in FollowedSlots(type[c]) :
            slot[c][s] \in marked \cup grey \cup {NIL}

(* What is marked or about to be is in use, and reachable from the roots   *)
(* or from a stale word: gc_mark keeps no more than it has to.             *)
MarksNeeded ==
    /\ marked \cup grey \cup pinned \subseteq NonFree
    /\ \A S \in SUBSET Cells :
          (Roots \cup pinned \subseteq S /\ Closed(S, type, slot))
             => marked \cup grey \subseteq S

(* The cells of a heap that is not allocated yet are untouched. *)
BeyondFree == \A c \in Cells \ Allocated : type[c] = FREE /\ slot[c] = NoWords

(* The inductive invariant, for a program whose types are all fully        *)
(* marked.                                                                 *)
IInv == /\ TypeOK
        /\ Phases
        /\ FreeListExact
        /\ BeyondFree
        /\ NoDangling
        /\ TriColour
        /\ MarksNeeded

(* A NEWCELL that waited for a collection gets a cell: it never takes NIL  *)
(* for one (siodp.h 66-72).                                                *)
NewCellNeverNull == pc # "crash"

(* A collection ends, whatever the shape of the heap: gc_mark does not     *)
(* chase a cycle for ever, and the program gets its turn again.            *)
CollectionEnds == (pc \in {"mark", "swept", "resume"}) ~> (pc \in {"run", "crash"})

(* The storage manager implements the collector of module Collector.       *)
Abstract == INSTANCE Collector WITH roots <- Roots
Implements == Abstract!Spec
=============================================================================
