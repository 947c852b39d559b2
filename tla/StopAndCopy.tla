----------------------------- MODULE StopAndCopy -----------------------------
(***************************************************************************)
(* The stop-and-copy storage manager (siod -g1; slib.c, sliba.c, trace.c). *)
(* Cells are taken from the current one of two spaces, one after another;  *)
(* repl collects between two forms, when nothing is held but what the      *)
(* protected locations hold: what they reach is copied to the other space. *)
(*                                                                         *)
(* Addresses are numbers, the two spaces 1..HeapSize and what follows it.  *)
(* A cell is copied as a whole (memcpy), so that the identity each object  *)
(* has from its birth (id, which the program does not have) says which     *)
(* object a cell holds, however often it has moved.                        *)
(***************************************************************************)
EXTENDS CellGraph

CONSTANTS
    HeapSize,       \* heap_size (-h), the cells of a space
    Registers,      \* the locations given to gc_protect
    Ids,            \* the identities of objects
    FREE            \* an identity that no object has, in module Collector

ASSUME SizeAssumption == HeapSize \in Nat \ {0} /\ Cells = 1..(2 * HeapSize)
ASSUME IdsAssumption == /\ IsFiniteSet(Ids) /\ Cardinality(Ids) >= HeapSize
                        /\ NIL \notin Ids
ASSUME FreeAssumption == FREE \notin AllTypes
ASSUME SomeType == Types # {}

VARIABLES
    mem,        \* the cells: what is copied by memcpy
    forward,    \* of the cells with gc_mark = 1, the CAR: where the copy is
    heap,       \* the next cell to take
    org,        \* heap_org: the first cell of the current space
    end,        \* in a collection: the end of what was used of the old space
    regs,       \* contents of the protected locations
    stack,      \* cells made by the evaluation under way
    buffers,    \* the objects whose malloc'ed data has not been freed
    pc,         \* where the storage manager is
    toScan,     \* scan_registers: the locations to come
    ptr,        \* scan_newspace, free_oldspace: the cell looked at
    done        \* scan_newspace: the words of it looked at

space == <<heap, org, end>>
loops == <<toScan, ptr, done>>
vars == <<mem, forward, heap, org, end, regs, stack, buffers, pc,
          toScan, ptr, done>>

(* The types with data from malloc, which array_gc_free gives back. *)
Owners == {"string", "lisp_array"}

(* The words scan_newspace relocates: a traced closure's by ct_gc_scan, an *)
(* array's by array_gc_scan.  Structs have no hooks.                       *)
ScannedSlots(t) == IF t \in {"struct_instance", "struct_def"} THEN {} ELSE SlotsOf(t)

NoWords == [s \in SlotNames |-> NIL]
HeapEnd == org + HeapSize
OtherOrg == IF org = 1 THEN HeapSize + 1 ELSE 1
Used == org..(heap - 1)
RegisterCells == {regs[r] : r \in Registers} \ {NIL}

(* What a cell holds that is not in use: the model does not keep it, for   *)
(* NoStrayPointers says that nobody can come to it.                        *)
Junk == [type |-> CHOOSE t \in Types : TRUE, id |-> CHOOSE i \in Ids : TRUE,
         slot |-> NoWords]

Init == /\ mem = [c \in Cells |-> Junk]
        /\ forward = [c \in Cells |-> NIL]
        /\ heap = 1 /\ org = 1 /\ end = 1
        /\ regs = [r \in Registers |-> NIL]
        /\ stack = {} /\ buffers = {}
        /\ pc = "repl"
        /\ toScan = {} /\ ptr = 1 /\ done = {}

-----------------------------------------------------------------------------
(* repl reads a form and evaluates it, after a collection if the space is  *)
(* used up or the program has asked for one at each form (gc-status).      *)

Read == /\ pc = "repl" /\ heap < HeapEnd
        /\ pc' = "eval"
        /\ UNCHANGED <<mem, forward, space, regs, stack, buffers, loops>>

(* The evaluation ends, with a value or an error (also that of NEWCELL, at *)
(* the end of the space): the C stack is let go.                           *)
EndEvaluation ==
    /\ pc = "eval"
    /\ pc' = "repl" /\ stack' = {}
    /\ UNCHANGED <<mem, forward, space, regs, buffers, loops>>

(* What the program can come to from its variables; in an evaluation it    *)
(* may have any of it in its C stack.                                      *)
Held == {c \in Used : \A S \in SUBSET Used :
            /\ RegisterCells \cup stack \subseteq S
            /\ \A d \in S : \A s \in SlotsOf(mem[d].type) : mem[d].slot[s] \in S \cup {NIL}
            => c \in S}

StoreRegister(r, v) ==
    /\ pc = "eval"
    /\ regs' = [regs EXCEPT ![r] = v]
    /\ UNCHANGED <<mem, forward, space, stack, buffers, pc, loops>>

Store(c, s, v) ==
    /\ pc = "eval"
    /\ s \in SlotsOf(mem[c].type)
    /\ mem' = [mem EXCEPT ![c].slot[s] = v]
    /\ UNCHANGED <<forward, space, regs, stack, buffers, pc, loops>>

(* The words an object is made with: those of an array are NIL. *)
Words(t, held) == {w \in [SlotNames -> held \cup {NIL}] :
               \A s \in SlotNames :
                  (s \notin SlotsOf(t) \/ t \in Owners) => w[s] = NIL}

NewId == CHOOSE i \in Ids : \A c \in Used : mem[c].id # i

(* Faulty: the mark a cell has kept from an earlier collection stays. *)
NewCellMarked(t, w) ==
    /\ pc = "eval" /\ heap < HeapEnd
    /\ mem' = [mem EXCEPT ![heap] = [type |-> t, id |-> NewId, slot |-> w]]
    /\ forward' = forward
    /\ heap' = heap + 1
    /\ stack' = stack \cup {heap}
    /\ buffers' = IF t \in Owners THEN buffers \cup {NewId} ELSE buffers
    /\ UNCHANGED <<org, end, regs, pc, loops>>

(* Faulty: the end of the space is overrun by one. *)
NewCellPastEnd(t, w) ==
    /\ pc = "eval" /\ heap <= HeapEnd
    /\ mem' = [mem EXCEPT ![heap] = [type |-> t, id |-> NewId, slot |-> w]]
    /\ forward' = [forward EXCEPT ![heap] = NIL]
    /\ heap' = heap + 1
    /\ stack' = stack \cup {heap}
    /\ buffers' = IF t \in Owners THEN buffers \cup {NewId} ELSE buffers
    /\ UNCHANGED <<org, end, regs, pc, loops>>

(* NEWCELL and the constructor around it. *)
NewCell(t, w) ==
    /\ pc = "eval" /\ heap < HeapEnd
    /\ mem' = [mem EXCEPT ![heap] = [type |-> t, id |-> NewId, slot |-> w]]
    /\ forward' = [forward EXCEPT ![heap] = NIL]
    /\ heap' = heap + 1
    /\ stack' = stack \cup {heap}
    /\ buffers' = IF t \in Owners THEN buffers \cup {NewId} ELSE buffers
    /\ UNCHANGED <<org, end, regs, pc, loops>>

(* Any of these, with what the program can come to. *)
Evaluate ==
    LET held == Held IN
    \/ \E r \in Registers, v \in held \cup {NIL} : StoreRegister(r, v)
    \/ \E c \in held, s \in SlotNames, v \in held \cup {NIL} : Store(c, s, v)
    \/ \E t \in Types : \E w \in Words(t, held) : NewCell(t, w)

-----------------------------------------------------------------------------
(* gc_stop_and_copy. *)

(* Faulty: scan_registers leaves a location out. *)
StartCollectionShort ==
    /\ pc = "repl"
    /\ pc' = "registers"
    /\ heap' = OtherOrg /\ org' = OtherOrg /\ end' = heap
    /\ toScan' = Registers \ {CHOOSE r \in Registers : TRUE}
    /\ UNCHANGED <<mem, forward, regs, stack, buffers, ptr, done>>

(* get_newspace, and the start of scan_registers. *)
StartCollection ==
    /\ pc = "repl"
    /\ pc' = "registers"
    /\ heap' = OtherOrg /\ org' = OtherOrg /\ end' = heap
    /\ toScan' = Registers
    /\ UNCHANGED <<mem, forward, regs, stack, buffers, ptr, done>>

(* gc_relocate(p): is p copied now, and the address it returns. *)
Copied(p) == p # NIL /\ forward[p] = NIL
Relocated(p) == IF p = NIL THEN NIL ELSE IF Copied(p) THEN heap ELSE forward[p]

(* Faulty: the old cell is not marked, so that it may be copied again. *)
RelocateUnmarked(p) ==
    IF Copied(p)
    THEN heap' = heap + 1 /\ forward' = [forward EXCEPT ![heap] = NIL]
    ELSE UNCHANGED <<heap, forward>>

Relocate(p) ==
    IF Copied(p)
    THEN heap' = heap + 1 /\ forward' = [forward EXCEPT ![heap] = NIL, ![p] = heap]
    ELSE UNCHANGED <<heap, forward>>

(* Faulty: the CAR is overwritten before the cell is copied. *)
CopyLate(p) ==
    IF Copied(p) THEN [mem EXCEPT ![heap] = [mem[p] EXCEPT !.slot["car"] = heap]]
    ELSE mem

(* The cells after it: memcpy. *)
Copy(p) == IF Copied(p) THEN [mem EXCEPT ![heap] = mem[p]] ELSE mem

(* gc_fatal_error in a collection, with errjmp_ok = 0: the program ends. *)
NoRoom(p) == Copied(p) /\ heap >= HeapEnd
Fail == pc' = "fatal" /\ UNCHANGED <<mem, forward, space, regs, stack, buffers, loops>>

(* scan_registers. *)
ScanRegister(r) ==
    /\ pc = "registers" /\ r \in toScan
    /\ IF NoRoom(regs[r]) THEN Fail
       ELSE /\ Relocate(regs[r])
            /\ mem' = Copy(regs[r])
            /\ regs' = [regs EXCEPT ![r] = Relocated(regs[r])]
            /\ toScan' = toScan \ {r}
            /\ UNCHANGED <<org, end, stack, buffers, pc, ptr, done>>

EndRegisters ==
    /\ pc = "registers" /\ toScan = {}
    /\ pc' = "scan" /\ ptr' = org /\ done' = {}
    /\ UNCHANGED <<mem, forward, space, regs, stack, buffers, toScan>>

(* scan_newspace and ct_gc_scan: CAR, a closure's env, before CDR. *)
InOrder(s) == s \in {"cdr", "code"} => {"car", "env"} \cap SlotsOf(mem[ptr].type) \subseteq done

ScanWord(s) ==
    LET p == mem[ptr].slot[s] IN
    /\ pc = "scan" /\ ptr < heap
    /\ s \in ScannedSlots(mem[ptr].type) \ done /\ InOrder(s)
    /\ IF NoRoom(p) THEN Fail
       ELSE /\ Relocate(p)
            /\ mem' = [Copy(p) EXCEPT ![ptr].slot[s] = Relocated(p)]
            /\ done' = done \cup {s}
            /\ UNCHANGED <<org, end, regs, stack, buffers, pc, toScan, ptr>>

ScanNext ==
    /\ pc = "scan" /\ ptr < heap
    /\ ScannedSlots(mem[ptr].type) \subseteq done
    /\ ptr' = ptr + 1 /\ done' = {}
    /\ UNCHANGED <<mem, forward, space, regs, stack, buffers, pc, toScan>>

EndScan ==
    /\ pc = "scan" /\ ptr = heap
    /\ pc' = "free" /\ ptr' = OtherOrg
    /\ UNCHANGED <<mem, forward, space, regs, stack, buffers, toScan, done>>

(* Faulty: the data of every old cell is freed. *)
FreeEveryCell ==
    /\ pc = "free" /\ ptr < end
    /\ buffers' = IF mem[ptr].type \in Owners
                  THEN buffers \ {mem[ptr].id} ELSE buffers
    /\ ptr' = ptr + 1
    /\ UNCHANGED <<mem, forward, space, regs, stack, pc, toScan, done>>

(* Faulty: the loop stays where a cell has been copied. *)
FreeCellStays ==
    /\ pc = "free" /\ ptr < end
    /\ buffers' = IF forward[ptr] = NIL /\ mem[ptr].type \in Owners
                  THEN buffers \ {mem[ptr].id} ELSE buffers
    /\ ptr' = IF forward[ptr] = NIL THEN ptr + 1 ELSE ptr
    /\ UNCHANGED <<mem, forward, space, regs, stack, pc, toScan, done>>

(* free_oldspace, array_gc_free. *)
FreeCell ==
    /\ pc = "free" /\ ptr < end
    /\ buffers' = IF forward[ptr] = NIL /\ mem[ptr].type \in Owners
                  THEN buffers \ {mem[ptr].id} ELSE buffers
    /\ ptr' = ptr + 1
    /\ UNCHANGED <<mem, forward, space, regs, stack, pc, toScan, done>>

(* repl goes on to read a form, even if there is no room for it. *)
EndCollection ==
    /\ pc = "free" /\ ptr = end
    /\ pc' = "eval"
    /\ mem' = [c \in Cells |-> IF c \in Used THEN mem[c] ELSE Junk]
    /\ forward' = [c \in Cells |-> IF forward[c] = NIL THEN NIL ELSE org]
    /\ ptr' = 1 /\ done' = {}
    /\ UNCHANGED <<space, regs, stack, buffers, toScan>>

CollectorStep ==
    \/ \E r \in Registers : ScanRegister(r)
    \/ EndRegisters
    \/ \E s \in SlotNames : ScanWord(s)
    \/ ScanNext \/ EndScan \/ FreeCell \/ EndCollection

Next == \/ Read \/ EndEvaluation
        \/ Evaluate
        \/ StartCollection
        \/ CollectorStep

Spec == Init /\ [][Next]_vars

(* A collection is a run of C code with interrupts off. *)
FairSpec == Spec /\ WF_vars(CollectorStep)

-----------------------------------------------------------------------------
Collecting == pc \in {"registers", "scan", "free"}
Old == OtherOrg..(end - 1)

(* The type invariant. *)
TypeOK ==
    /\ mem \in [Cells -> [type : Types, id : Ids, slot : [SlotNames -> Word]]]
    /\ forward \in [Cells -> Word]
    /\ org \in {1, HeapSize + 1} /\ heap \in org..HeapEnd
    /\ end \in 1..(2 * HeapSize + 1)
    /\ regs \in [Registers -> Word] /\ stack \subseteq Cells
    /\ buffers \subseteq Ids
    /\ pc \in {"repl", "eval", "registers", "scan", "free", "fatal"}
    /\ toScan \subseteq Registers /\ done \subseteq SlotNames
    /\ ptr \in 1..(2 * HeapSize + 1)

(* The copying never runs out of room, which would end the program (the    *)
(* new space is as large as the old one, and no object is copied twice).   *)
NeverFatal == pc # "fatal"

(* The words of copied cells that the scan has passed lead to copies, the  *)
(* others to the old space; outside of a collection nothing leads out of   *)
(* the current space.  A pointer left behind would be to a cell that soon  *)
(* belongs to another object.                                              *)
Passed(c, s) == CASE pc = "registers" -> FALSE
                  [] pc = "scan" -> c < ptr \/ (c = ptr /\ s \in done)
                  [] OTHER -> TRUE
NoStrayPointers ==
    /\ \A r \in Registers :
          regs[r] \in {NIL} \cup (IF pc = "registers" /\ r \in toScan THEN Old ELSE Used)
    /\ stack \subseteq Used
    /\ \A c \in Used : \A s \in SlotsOf(mem[c].type) :
          mem[c].slot[s] \in {NIL} \cup (IF Passed(c, s) THEN Used ELSE Old)

(* The malloc'ed data is that of the objects there are, neither lost nor   *)
(* given back under an object (free_oldspace, array_gc_free): old ones not *)
(* yet come to are still to be looked at.                                  *)
Remaining == IF pc = "free" THEN ptr..(end - 1) ELSE IF Collecting THEN Old ELSE {}
BuffersOwned ==
    buffers = {mem[c].id : c \in {d \in Used : mem[d].type \in Owners}
                  \cup {d \in Remaining : mem[d].type \in Owners /\ forward[d] = NIL}}

(* A collection comes to its end, whatever circles the objects form. *)
CollectionEnds == Collecting ~> pc = "eval"

-----------------------------------------------------------------------------
(* The objects of the program, by identity: those of the current space, or *)
(* in a collection all those of the old one, found in the new one if they  *)
(* have been copied.                                                       *)
Objects == {mem[c].id : c \in IF Collecting THEN Old ELSE Used}
Place(i) == IF \E c \in Used : mem[c].id = i
            THEN CHOOSE c \in Used : mem[c].id = i
            ELSE CHOOSE c \in Old : mem[c].id = i
Object(p) == IF p = NIL THEN NIL ELSE mem[p].id

objectType == [i \in Ids |-> IF i \in Objects THEN mem[Place(i)].type ELSE FREE]
objectSlot == [i \in Ids |-> [s \in SlotNames |->
                 IF i \in Objects THEN Object(mem[Place(i)].slot[s]) ELSE NIL]]
objectRoots == {Object(c) : c \in RegisterCells \cup stack}

C == INSTANCE Collector WITH
        Cells <- Ids, type <- objectType, slot <- objectSlot, roots <- objectRoots

(* The program sees objects with the contents it gave them, and the same   *)
(* object wherever it finds the same pointer: it cannot tell that they     *)
(* move, and a collection shows only when it ends, by what it let go.      *)
ImplementsCollector == C!Spec

(* A collection lets go of exactly what was out of reach. *)
Exact == [][EndCollection => Objects' = C!Live]_vars
===============================================================================
