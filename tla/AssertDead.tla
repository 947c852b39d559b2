----------------------------- MODULE AssertDead ------------------------------
(***************************************************************************)
(* assert-dead (slib.c 140-373, 697-722, 1348-1850, 2185-2253, 2939-3051): *)
(* the program says that an object is garbage from here on; a collection   *)
(* that reaches it remembers the path it came by as an object link; from   *)
(* then on the assignments that make up the path are recorded, one edge of *)
(* the link after the other, in the objects themselves, and every          *)
(* collection that comes along such a path reports it with the lines of    *)
(* the assignments it has.                                                 *)
(*                                                                         *)
(* The mutator stores references and asserts; the collector is the         *)
(* depth-first walk of gc_mark, one call of it a step, with the path it    *)
(* keeps in gc_traced_objs and gc_traced_obj_fields.  The cells are some   *)
(* of the heap's: when the heap runs full (a collection for NEWCELL) is    *)
(* the program's choice.  Struct definitions live in the chains, not in    *)
(* the cells.                                                              *)
(***************************************************************************)
EXTENDS ObjectLinks, FiniteSets

CONSTANTS
    Cells,          \* some cells of the heap
    Symbols,        \* the global variables (cells that are never free)
    NIL,            \* the null pointer
    Classes,        \* names given to define-struct
    Dim,            \* number of fields of a struct: 1 or 2
    Constructors,   \* what the program calls of struct, external, internal
    Assertions,     \* the line numbers of its calls of assert-dead
    Lines,          \* the line numbers of its assignments
    Garbage,        \* what a word of malloc's memory may hold
    GcCauses        \* who calls gc_mark_and_sweep: user, newcell

Objs == Cells \cup Symbols
Slots == {0, 1}
Ref == Objs \cup {NIL}
Causes == {"user", "newcell"}

ASSUME ObjAssumption == Cells \cap Symbols = {} /\ NIL \notin Objs
ASSUME DimAssumption == Dim \in {1, 2}
ASSUME LineAssumption == /\ Assertions \cup Lines \subseteq Nat \ {0}
                         /\ Garbage \subseteq Nat /\ Garbage # {}
ASSUME ChoiceAssumption == /\ Constructors \subseteq {"struct", "external", "internal"}
                           /\ GcCauses \subseteq Causes

VARIABLES
    obj,            \* the objects, flags and recorded lines included
    locals,         \* objects whose address the C stack holds
    links,          \* object_links
    chains,         \* the struct definitions of each class
    callInfo,       \* assert_dead_call_info_table: the stage of each call
    work,           \* the calls gc_mark has yet to make, innermost first
    roots,          \* roots not yet given to gc_mark
    marked,         \* objects with gc_mark = 1
    gcFor,          \* who called for the collection
    pc              \* run, mark; fatal (exit) and crash (a signal) are final

collecting == <<work, roots, marked, gcFor, pc>>
vars == <<obj, locals, links, chains, callInfo, work, roots, marked, gcFor, pc>>

SlotsOf(t) == CASE t = "free" -> {}
                [] t = "symbol" -> {0}
                [] t = "cons" -> {0, 1}
                [] OTHER -> 0..(Dim - 1)

NoRefs == [s \in Slots |-> NIL]
NoSites == [s \in Slots |-> 0]

Kind(o) == [type |-> obj[o].type, cls |-> obj[o].cls]

(* A cons the interpreter made for itself, with no line of its own. *)
IsInternal(o) == o \in Objs /\ obj[o].type = "cons" /\ ~obj[o].external

-----------------------------------------------------------------------------
Blank(t) == [type |-> t, cls |-> NIL, def |-> 0, external |-> FALSE,
             ref |-> NoRefs, site |-> NoSites, recorded |-> FALSE,
             dead |-> "no", at |-> 0]

Init ==
    /\ obj = [o \in Objs |-> Blank(IF o \in Symbols THEN "symbol" ELSE "free")]
    /\ locals = {}
    /\ links = <<>>
    /\ chains = [k \in Classes |-> <<FirstDef>>]
    /\ callInfo = [l \in Assertions |-> "none"]
    /\ work = <<>> /\ roots = {} /\ marked = {}
    /\ gcFor = "user" /\ pc = "run"

-----------------------------------------------------------------------------
(* Recording an assignment.                                                *)

(* try_record_assign_site goes down the cars of internal conses. *)
SkipInternal(v) ==
    LET down[n \in Nat] ==
            IF n = 0 THEN v
            ELSE LET u == down[n - 1]
                 IN  IF IsInternal(u) THEN obj[u].ref[0] ELSE u
    IN  down[Cardinality(Cells)]

KindOrNil(v) == IF v = NIL THEN [type |-> "nil", cls |-> NIL] ELSE Kind(v)

(* What the callers give for the slot: external_cons, setcar_exteral and   *)
(* setcdr_exteral give 1 for the car and 0 for the cdr.                    *)
FieldIndex(t, s) == IF t = "cons" THEN 1 - s ELSE s

(* The lines of an object are where it has room for them: a struct has     *)
(* room for the slots its definition names.                                *)
KeepsLine(o, s) ==
    CASE obj[o].type = "struct_instance" -> FALSE
      [] obj[o].type = "struct_instance_with_rec" ->
            Contains(chains[obj[o].cls][obj[o].def].slots, s)
      [] OTHER -> TRUE

(* judge_ref_pattern looks at the type of an assigned object that is null. *)
RecordingCrashes(d, v, s, ls) ==
    /\ v # NIL /\ SkipInternal(v) = NIL
    /\ \E i \in DOMAIN ls : /\ Watched(ls[i])
                            /\ FieldIndex(d.type, s) = ActiveElement(ls[i]).slot
                            /\ SameKind(d, ActiveElement(ls[i]))

(* The link that has an interest in o.s := v, or 0. *)
Focused(d, s, v, ls) ==
    IF v = NIL THEN 0
    ELSE FocusLink(ls, d, FieldIndex(d.type, s), KindOrNil(SkipInternal(v)))

(* Faulty: the element the assigned object stands for is checked. *)
CheckTarget(ls, f) == [ls EXCEPT ![f].data[ls[f].active + 1].checked = TRUE]

Check(ls, f) == [ls EXCEPT ![f].data[ls[f].active].checked = TRUE]

(* An assignment to slot s of o, with its line: set_field, setcar_exteral, *)
(* setcdr_exteral, leval_define and, when the variable is global,          *)
(* leval_setq.                                                             *)
Assign(o, s, v, ln) ==
    /\ pc = "run"
    /\ s \in SlotsOf(obj[o].type)
    /\ LET f == Focused(Kind(o), s, v, links)
           noted == f # 0 /\ KeepsLine(o, s)
           new == [obj[o] EXCEPT !.ref[s] = v]
       IN  /\ obj' = [obj EXCEPT ![o] =
                        IF noted THEN [new EXCEPT !.site[s] = ln, !.recorded = TRUE]
                        ELSE new]
           /\ links' = IF noted THEN Check(links, f) ELSE links
    /\ pc' = IF RecordingCrashes(Kind(o), v, s, links) THEN "crash" ELSE pc
    /\ UNCHANGED <<locals, chains, callInfo, work, roots, marked, gcFor>>

SetField(c, s, v, ln) ==
    /\ c \in locals /\ obj[c].type \in Structs
    /\ Assign(c, s, v, ln)

SetCarCdr(c, s, v, ln) ==
    /\ c \in locals /\ obj[c].type = "cons"
    /\ Assign(c, s, v, ln)

SetGlobal(g, v, ln) == Assign(g, 0, v, ln)

(* set! of a local variable: leval_setq records it with the symbol of its  *)
(* name, whose value it does not touch; the value goes to a frame.         *)
SetLocal(g, v, ln) ==
    /\ pc = "run"
    /\ LET f == Focused(Kind(g), 0, v, links)
           crashes == RecordingCrashes(Kind(g), v, 0, links)
       IN  /\ f # 0 \/ crashes
           /\ IF f # 0
              THEN /\ obj' = [obj EXCEPT ![g].site[0] = ln, ![g].recorded = TRUE]
                   /\ links' = Check(links, f)
              ELSE UNCHANGED <<obj, links>>
           /\ pc' = IF crashes THEN "crash" ELSE pc
    /\ UNCHANGED <<locals, chains, callInfo, work, roots, marked, gcFor>>

-----------------------------------------------------------------------------
(* The rest of the mutator.                                                *)

Load(o, s) ==
    /\ pc = "run"
    /\ o \in locals \cup Symbols /\ s \in SlotsOf(obj[o].type)
    /\ obj[o].ref[s] # NIL
    /\ locals' = locals \cup {obj[o].ref[s]}
    /\ UNCHANGED <<obj, links, chains, callInfo, collecting>>

Drop(c) ==
    /\ pc = "run"
    /\ c \in locals
    /\ locals' = locals \ {c}
    /\ UNCHANGED <<obj, links, chains, callInfo, collecting>>

(* NEWCELL sets the type and clears the mark: all else is as the last life *)
(* of the cell left it, or as the caller sets it.                          *)
NewCell(c, new) ==
    /\ pc = "run"
    /\ obj[c].type = "free"
    /\ obj' = [obj EXCEPT ![c] = new]
    /\ locals' = locals \cup {c}
    /\ UNCHANGED <<chains, callInfo, work, roots, marked, gcFor>>

(* new_struct_instance: an instance of the active definition.  Of the      *)
(* assign_sites only the first bytes are cleared.                          *)
NewStruct(c, k, sites) ==
    /\ LET d == ActiveDef(chains[k])
           rec == chains[k][d].slots # <<>>
       IN  NewCell(c, [obj[c] EXCEPT
                !.type = IF rec THEN "struct_instance_with_rec" ELSE "struct_instance",
                !.cls = k, !.def = d,
                !.site = IF rec THEN sites ELSE NoSites])
    /\ UNCHANGED <<links, pc>>

(* cons, called by the interpreter: a list it builds for itself. *)
NewInternal(c, x, y) ==
    /\ NewCell(c, [obj[c] EXCEPT !.type = "cons", !.ref = [s \in Slots |-> IF s = 0 THEN x ELSE y]])
    /\ UNCHANGED <<links, pc>>

(* external_cons: the program's (cons x y), whose two words are recorded   *)
(* one after the other.                                                    *)
NewExternal(c, x, y, ln) ==
    LET d == [type |-> "cons", cls |-> NIL]
        forCar == Focused(d, 0, x, links)
        carDone == IF forCar # 0 THEN Check(links, forCar) ELSE links
        forCdr == Focused(d, 1, y, carDone)
    IN  /\ NewCell(c, [obj[c] EXCEPT
                !.type = "cons", !.external = TRUE,
                !.ref = [s \in Slots |-> IF s = 0 THEN x ELSE y],
                !.site = [s \in Slots |-> IF (IF s = 0 THEN forCar ELSE forCdr) # 0
                                          THEN ln ELSE @[s]],
                !.recorded = @ \/ forCar # 0 \/ forCdr # 0])
        /\ links' = IF forCdr # 0 THEN Check(carDone, forCdr) ELSE carDone
        /\ pc' = IF RecordingCrashes(d, x, 0, links) \/ RecordingCrashes(d, y, 1, carDone)
                 THEN "crash" ELSE pc
    
(* Faulty: a call of assert-dead counts every time it is made. *)
AssertDeadAgain(c, ln) ==
    /\ pc = "run"
    /\ c \in locals
    /\ IF obj[c].dead = "no"
       THEN /\ obj' = [obj EXCEPT ![c].dead = "has", ![c].at = ln]
            /\ callInfo' = [callInfo EXCEPT ![ln] = "rough"]
       ELSE UNCHANGED <<obj, callInfo>>
    /\ UNCHANGED <<locals, links, chains, collecting>>

(* assert_dead: a cell that still has a flag, or a call that was made      *)
(* before, is passed over.                                                 *)
AssertDead(c, ln) ==
    /\ pc = "run"
    /\ c \in locals
    /\ IF obj[c].dead = "no" /\ callInfo[ln] = "none"
       THEN /\ obj' = [obj EXCEPT ![c].dead = "has", ![c].at = ln]
            /\ callInfo' = [callInfo EXCEPT ![ln] = "rough"]
       ELSE UNCHANGED <<obj, callInfo>>
    /\ UNCHANGED <<locals, links, chains, collecting>>

-----------------------------------------------------------------------------
(* The collector.                                                          *)

StartGc(cause) ==
    /\ pc = "run"
    /\ roots' = locals \cup Symbols
    /\ gcFor' = cause
    /\ pc' = "mark"
    /\ UNCHANGED <<obj, locals, links, chains, callInfo, work, marked>>

(* The roots come in the order of the registers and of the stack. *)
TakeRoot(r) ==
    /\ pc = "mark" /\ work = <<>>
    /\ r \in roots
    /\ roots' = roots \ {r}
    /\ work' = <<[ptr |-> r, path |-> <<>>, fields |-> <<>>, via |-> 0]>>
    /\ UNCHANGED <<obj, locals, links, chains, callInfo, marked, gcFor, pc>>

KindsOf(path) == [i \in DOMAIN path |-> Kind(path[i])]
Found(path, fields) == FindLink(KindsOf(path), fields, links)

(* Faulty: the car or cdr of an internal cons is noted besides the field   *)
(* of the object before it.                                                *)
FieldsOfAll(w) == IF w.path = <<>> THEN w.fields ELSE Append(w.fields, w.via)

(* A path with the object in hand, and the field that led to it: internal  *)
(* conses do not show, but their car or cdr does, in the place of the      *)
(* field of the object before them.                                        *)
PathTo(w) == IF IsInternal(w.ptr) THEN w.path ELSE Append(w.path, w.ptr)
FieldsTo(w) == IF IsInternal(w.ptr) \/ w.path = <<>> THEN w.fields
               ELSE Append(w.fields, w.via)

(* The calls gc_mark makes for an object: its slots in order, those that   *)
(* are not null.                                                           *)
Child(w, s) ==
    LET p == obj[w.ptr].ref[s]
    IN  IF p = NIL THEN <<>>
        ELSE <<[ptr |-> p, path |-> PathTo(w), fields |-> FieldsTo(w), via |-> s]>>
Children(w) == Child(w, 0) \o Child(w, 1)

(* The active definition of a class is chosen anew when a link that is     *)
(* active on it waits for a line.                                          *)
Changes(k, slots) == slots # <<>>

(* try_update_all_struct_defs.  A new definition needs a cell: newcell     *)
(* with the free list empty ends the program, since errjmp_ok is 0.  In a  *)
(* collection for NEWCELL the free list is empty.                          *)
UpdateAllStructDefs(ls) ==
    \E slots \in {[k \in Classes |-> WantedSlots(ls, k)]} :
       LET changed == {k \in Classes : Changes(k, slots[k])}
           cells == {k \in changed : FindDef(chains[k], slots[k]) = 0}
       IN  \/ /\ cells = {} \/ gcFor = "user"
              /\ chains' = [k \in Classes |-> IF k \in changed THEN UpdateChain(chains[k], slots[k])
                                              ELSE chains[k]]
              /\ pc' = pc
           \/ /\ cells # {}
              /\ pc' = "fatal"
              /\ UNCHANGED chains

CanStageOne(o) == /\ obj[o].dead = "has"
                  /\ callInfo[obj[o].at] = "rough"

(* Faulty: the link that is found starts again from its beginning. *)
StageOneRestarts(o, path, fields) ==
    LET f == Found(path, fields)
    IN  /\ obj' = [obj EXCEPT ![o].dead = "had"]
        /\ callInfo' = [callInfo EXCEPT ![obj[o].at] = "detailed"]
        /\ links' = IF f = 0 THEN Append(links, NewLink(KindsOf(path), fields))
                    ELSE [links EXCEPT ![f].active = 1]
        /\ UpdateAllStructDefs(links')

(* process_assert_dead_stage_one: the link is found or made.  A link of an *)
(* internal cons at a root has no data at all, and is looked into.         *)
StageOne(o, path, fields) ==
    LET new == IF Found(path, fields) = 0
               THEN Append(links, NewLink(KindsOf(path), fields)) ELSE links
    IN  IF path = <<>>
        THEN pc' = "crash" /\ UNCHANGED <<obj, callInfo, links, chains>>
        ELSE /\ obj' = [obj EXCEPT ![o].dead = "had"]
             /\ callInfo' = [callInfo EXCEPT ![obj[o].at] = "detailed"]
             /\ links' = new
             /\ UpdateAllStructDefs(links')

(* Faulty: the definitions are updated before the link moves on. *)
StageTwoLate(path, fields) ==
    LET f == Found(path, fields)
    IN  /\ links' = [links EXCEPT ![f] = Advance(@)]
        /\ UpdateAllStructDefs(links)
        /\ UNCHANGED <<obj, callInfo>>

(* process_assert_dead_stage_two: any object at the end of a path that is  *)
(* a link is reported, and the link moves on.                              *)
StageTwo(path, fields) ==
    LET f == Found(path, fields)
    IN  /\ links' = [links EXCEPT ![f] = Advance(@)]
        /\ UpdateAllStructDefs(links')
        /\ UNCHANGED <<obj, callInfo>>

(* Faulty: the second stage comes before the first. *)
MarkStepTwoFirst ==
    /\ pc = "mark" /\ work # <<>>
    /\ LET w == Head(work)
           o == w.ptr
       IN  IF o \in marked
           THEN /\ work' = Tail(work)
                /\ UNCHANGED <<obj, links, chains, callInfo, marked, pc>>
           ELSE /\ marked' = marked \cup {o}
                /\ work' = Children(w) \o Tail(work)
                /\ IF Found(PathTo(w), FieldsTo(w)) # 0 THEN StageTwo(PathTo(w), FieldsTo(w))
                   ELSE IF CanStageOne(o) THEN StageOne(o, PathTo(w), FieldsTo(w))
                        ELSE UNCHANGED <<obj, links, chains, callInfo, pc>>
    /\ UNCHANGED <<locals, roots, gcFor>>

(* gc_mark looks at an object: nothing for a marked one, else one of the   *)
(* two stages or none, and its slots are to be marked.                     *)
MarkStep ==
    /\ pc = "mark" /\ work # <<>>
    /\ LET w == Head(work)
           o == w.ptr
       IN  IF o \in marked
           THEN /\ work' = Tail(work)
                /\ UNCHANGED <<obj, links, chains, callInfo, marked, pc>>
           ELSE /\ marked' = marked \cup {o}
                /\ work' = Children(w) \o Tail(work)
                /\ IF CanStageOne(o) THEN StageOne(o, PathTo(w), FieldsTo(w))
                   ELSE IF Found(PathTo(w), FieldsTo(w)) # 0
                        THEN StageTwo(PathTo(w), FieldsTo(w))
                        ELSE UNCHANGED <<obj, links, chains, callInfo, pc>>
    /\ UNCHANGED <<locals, roots, gcFor>>

(* gc_sweep, and the return to the program.  The flags, the lines and the  *)
(* kind of a cons survive in the cell; the words of a free cell mean       *)
(* nothing.                                                                *)
Sweep ==
    /\ pc = "mark" /\ work = <<>> /\ roots = {}
    /\ obj' = [o \in Objs |->
                 IF o \in marked THEN obj[o]
                 ELSE [obj[o] EXCEPT !.type = "free", !.cls = NIL, !.def = 0, !.ref = NoRefs]]
    /\ marked' = {}
    /\ pc' = "run"
    /\ gcFor' = "user"
    /\ UNCHANGED <<locals, links, chains, callInfo, work, roots>>

-----------------------------------------------------------------------------
Value == locals \cup {NIL}

Store ==
    \/ \E c \in Cells, s \in Slots, v \in Value, ln \in Lines :
          SetField(c, s, v, ln) \/ SetCarCdr(c, s, v, ln)
    \/ \E g \in Symbols, v \in Value, ln \in Lines :
          SetGlobal(g, v, ln) \/ SetLocal(g, v, ln)

(* The program makes an object, by a line of its text or (0) by none. *)
CreateAt(c, ln) ==
    \/ /\ "struct" \in Constructors /\ ln = 0
       /\ \E k \in Classes, sites \in [Slots -> Garbage] : NewStruct(c, k, sites)
    \/ /\ "internal" \in Constructors /\ ln = 0
       /\ \E x, y \in Value : NewInternal(c, x, y)
    \/ /\ "external" \in Constructors /\ ln # 0
       /\ \E x, y \in Value : NewExternal(c, x, y, ln)

Collect ==
    \/ \E cause \in GcCauses : StartGc(cause)
    \/ \E r \in Objs : TakeRoot(r)
    \/ MarkStep
    \/ Sweep

Other ==
    \/ \E o \in Objs, s \in Slots : Load(o, s)
    \/ \E c \in Cells : Drop(c)
    \/ Collect

Next ==
    \/ Store
    \/ \E c \in Cells, ln \in Lines \cup {0} : CreateAt(c, ln)
    \/ \E c \in Cells, ln \in Assertions : AssertDead(c, ln)
    \/ Other

Spec == Init /\ [][Next]_vars

-----------------------------------------------------------------------------
KindTypes == Structs \cup {"cons", "symbol"}
SiteValues == Lines \cup Garbage \cup {0}

Object == [type : KindTypes \cup {"free"}, cls : Classes \cup {NIL}, def : Nat,
           external : BOOLEAN, ref : [Slots -> Ref], site : [Slots -> SiteValues],
           recorded : BOOLEAN, dead : {"no", "has", "had"}, at : Assertions \cup {0}]
Element == [type : KindTypes, cls : Classes \cup {NIL}, checked : BOOLEAN, slot : Slots]
Link == [active : Nat \ {0}, data : Seq(Element)]
StructDef == [slots : Seq(Slots), active : BOOLEAN]
Call == [ptr : Objs, path : Seq(Objs), fields : Seq(Slots), via : Slots]

TypeOK ==
    /\ obj \in [Objs -> Object]
    /\ locals \subseteq Objs /\ roots \subseteq Objs /\ marked \subseteq Objs
    /\ links \in Seq(Link) /\ \A i \in DOMAIN links : links[i].active \in DOMAIN links[i].data
    /\ chains \in [Classes -> Seq(StructDef)]
    /\ callInfo \in [Assertions -> {"none", "rough", "detailed"}]
    /\ work \in Seq(Call)
    /\ gcFor \in Causes
    /\ pc \in {"run", "mark", "fatal", "crash"}

(* Every instance of a struct belongs to a definition of its class, and    *)
(* has room for lines just when that definition names slots; each class    *)
(* has one active definition at any time (new_struct_instance and          *)
(* get_active_struct_def_obj, which ends the program otherwise).           *)
DefsSound ==
    /\ \A k \in Classes :
          Cardinality({i \in DOMAIN chains[k] : chains[k][i].active}) = 1
    /\ \A o \in Objs : obj[o].type \in Structs =>
          /\ obj[o].def \in DOMAIN chains[obj[o].cls]
          /\ obj[o].type = "struct_instance_with_rec"
               <=> chains[obj[o].cls][obj[o].def].slots # <<>>

(* A link moves on only past elements whose assignment was recorded, and   *)
(* assignments are recorded for no element past the active one             *)
(* (try_update_obj_link_active_info, try_record_assign_site).              *)
Attributed ==
    \A i \in DOMAIN links : \A k \in DOMAIN links[i].data :
       /\ k < links[i].active => links[i].data[k].checked
       /\ links[i].data[k].checked => k <= links[i].active

(* Between collections, the instances made of a class have room for the    *)
(* lines of every slot of it that a link is waiting for: otherwise the     *)
(* link waits for ever (try_update_all_struct_defs).                       *)
Instrumented ==
    pc = "run" =>
      \A k \in Classes :
         LET slots == WantedSlots(links, k)
         IN  slots # <<>> =>
               ToSet(slots) \subseteq ToSet(chains[k][ActiveDef(chains[k])].slots)

(* The flag of a cell and the table of the calls agree, though they are    *)
(* changed at different times and cells come and go: a call is waiting     *)
(* (rough) just when one cell has its flag up.  Both exits of              *)
(* process_assert_dead_stage_one on a missing entry are out of reach.      *)
CallInfoAgrees ==
    \A ln \in Assertions :
      LET flagged(d) == {c \in Cells : obj[c].dead = d /\ obj[c].at = ln}
      IN  /\ pc \in {"run", "mark"} =>
               /\ callInfo[ln] = "rough" <=> Cardinality(flagged("has")) = 1
               /\ callInfo[ln] = "detailed" <=> Cardinality(flagged("had")) = 1
          /\ callInfo[ln] = "none" => flagged("has") \cup flagged("had") = {}

(* A collection misses no assertion: when the marking is over no object    *)
(* that stays still waits for its first report.                            *)
NoneMissed ==
    (pc = "mark" /\ work = <<>> /\ roots = {}) =>
       \A c \in Cells : c \in marked => obj[c].dead # "has"

(* What gc_mark goes through from an object of its path before it comes to *)
(* the next one: sets that hold the internal conses in between.            *)
Passes(S) == \A x \in S : \A s \in SlotsOf(obj[x].type) :
                IsInternal(obj[x].ref[s]) => obj[x].ref[s] \in S

(* p is referred to by slot s of o, or of an internal cons that o leads to *)
(* through internal conses only.                                           *)
Leads(o, s, p) ==
    \A S \in SUBSET Objs : (o \in S /\ Passes(S)) =>
        \E x \in S : s \in SlotsOf(obj[x].type) /\ obj[x].ref[s] = p

(* The two buffers of gc_mark stay in step, for all the internal conses    *)
(* that are no part of a path: there is one field between each two objects *)
(* of it, the slot by which the first leads to the second, or by which the *)
(* last internal cons between them does (gc_mark).                         *)
FieldsLead ==
    \A w \in ToSet(work) :
       LET path == PathTo(w)
           fields == FieldsTo(w)
       IN  /\ Len(fields) = IF path = <<>> THEN 0 ELSE Len(path) - 1
           /\ \A i \in DOMAIN fields : Leads(path[i], fields[i], path[i + 1])

(* The comment's claim: the fields of a path are the slots by which each   *)
(* of its objects refers to the next, "one to one with the elements of     *)
(* gc_traced_objs, records which field points to the next object"          *)
(* (slib.c 160).  It is so only where no internal cons is in between.      *)
PathIsReal ==
    \A w \in ToSet(work) :
       LET path == PathTo(w)
           fields == FieldsTo(w)
       IN  w.ptr \notin marked =>
             \A i \in DOMAIN fields :
                /\ fields[i] \in SlotsOf(obj[path[i]].type)
                /\ obj[path[i]].ref[fields[i]] = path[i + 1]

(* What was learnt is not forgotten: a link stays, moves forward only, by  *)
(* one element at a time, and what was checked stays checked; a call goes  *)
(* from rough to detailed and no other way.                                *)
Learnt ==
    /\ \A i \in DOMAIN links :
          /\ i \in DOMAIN links'
          /\ links'[i].active \in {links[i].active, links[i].active + 1}
          /\ \A k \in DOMAIN links[i].data :
                links[i].data[k].checked => links'[i].data[k].checked
    /\ \A ln \in Assertions :
          <<callInfo[ln], callInfo'[ln]>> \in
             {<<"none", "none">>, <<"none", "rough">>, <<"rough", "rough">>,
              <<"rough", "detailed">>, <<"detailed", "detailed">>}
Learns == [][Learnt]_vars
=============================================================================
