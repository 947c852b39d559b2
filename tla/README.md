# A verification project for SIOD 3.0 with assert-dead

SIOD is a small Scheme interpreter in C; this repository adds to its storage
management the detection of objects that should be dead (`assert-dead`) and a
record of the assignments that keep them alive. This directory holds TLA+
models of the parts whose correctness is hard to test, TLC configurations that
check them on small instances, and TLAPS proofs for instances of any size.

`PROJECT.json` is the index: which definition models which lines (`map`), what
each run checks, one plausible bug per checked property (`mutants`: definitions
marked "Faulty" in the modules), the hazards the properties are for, findings
and theorems.

Run `tlc -config X.cfg M` with the pairs of `runs`, and `tlapm M.tla` on the
modules whose names end in `Proof`.

## The system

One process, one thread, and one signal (SIGINT) that may come between any two
instructions. All components meet in the heap of cells (`struct obj`), a handful
of globals, and the C stack, which the collector scans and which errors and
`*throw` unwind.

| component | state | operations | what makes it correct |
|---|---|---|---|
| mark-and-sweep storage manager (slib.c, siodp.h) | cells and their `gc_mark`, free list, heaps, protected locations | NEWCELL and the constructors, `gc_for_newcell`, `user_gc`, `allocate_aheap`, mark, sweep, after-gc hook | nothing reachable is freed, no cell is lost or listed twice, a NEWCELL gets a cell, a collection ends |
| stop-and-copy storage manager (slib.c, hooks in sliba.c and trace.c) | two spaces, next free cell, forwarding addresses | NEWCELL, the collection of `repl` | objects and sharing survive the move, no room is missing, array data goes with its object |
| assert-dead (slib.c) | flags and lines in objects, `object_links`, table of calls, traced path | `assert_dead`, the two stages of a collection, recording at assignments, reports | every asserted object that stays is found once; a link moves on only past what was recorded; a report names real slots |
| structs (slib.c) | chains of definitions per class, instances | `define_struct`, `new_struct_instance`, `set_field`, `get_field`, new definitions in a collection | instances have room for what links wait for; one definition is active |
| errors, interrupts, top level (slib.c) | `nointerrupt`, `interrupt_differed`, `errjmp_ok`, `errjmp` | `err`, `no_interrupt`, `handle_sigint`, `repl_driver`, `repl` | a control-C never kills the program, never cuts a section short, is always answered |
| catch and throw (slib.c) | chain of `catch_framep` through the C stack | `*catch`, `*throw` | a throw lands in a frame that is still there |
| evaluator, environments (slib.c) | frames: formals and actuals in step | `extend_env`, `envlookup`, `setvar`, `leval_define`, and `leval` around them | lexical lookup, also while a frame is being extended |
| symbol table (slib.c) | `obarray`, `oblistvar`, `tkbuffer` | `gen_intern` | one symbol per name, in the bucket of its name, also when interning collects and the hook interns |
| reader, printer (slib.c) | `tkbuffer` | `lreadr`, `lprin1f` | buffers are not overrun; what is printed can be read |
| arrays, strings (sliba.c) | data from malloc, owned by a cell | `cons_array`, `strcons`, `lfread`, `aset1` and the gc hooks | data is freed once and with its cell |
| hash tables, equality (sliba.c) | lists of pairs in a lisp array | `hset`, `href`, `sxhash`, `equal` | the value last set is found under every equal key, also after a hook inside `hset` |
| fast print and read (sliba.c) | table of symbols already written, next index | `fast_print`, `fast_read` | what is written is read back; an index stands for one symbol |
| files and loading (slib.c) | FILEs owned by cells | `fopen_c`, `fclose_l`, `vload`, `lfread`, `save_forms` | a FILE is closed once, and not under a load |
| traced closures (trace.c) | a user type with hooks | `trace`, `untrace`, the hooks | tracing changes nothing but what is printed |
| numbers, timing, main program | small number cache | | |

How they interact:

- every component allocates with NEWCELL. With mark-and-sweep an allocation may
  collect, and after the collection evaluate the program's `*after-gc*` form:
  the whole interpreter, in the middle of any allocation. Values a constructor
  has not yet stored are kept alive by the scan of the C stack only.
- a collection walks the heap with `gc_mark`, which is also the detector of
  assert-dead: it keeps the path from the root in two buffers, makes links and
  new struct definitions, prints reports, and may itself need a cell.
- sections that must not be interrupted save `nointerrupt`, set it, and put the
  old value back; `err` (and so a control-C) leaves by a longjmp to
  `repl_driver`, `*throw` by a longjmp to a `*catch`, and neither runs the ends
  of the sections in between.

Hard behaviours, each with its line under `hazards` in `PROJECT.json`:
re-entry of the interpreter through the after-gc hook, stale fields of recycled
cells, collections between a constructor's steps, the order of collections and
assignments that a link needs to move on, control-C against sections and
collections, unwinding by longjmp.

## The modules

    CellGraph ── types of cells, their slots, reachability
      ├─ Collector ............ what a storage manager promises (abstract)
      ├─ MarkSweep ............ mark-and-sweep        ── implements Collector
      │    └─ MarkSweepProof    (theorems)
      └─ StopAndCopy .......... stop-and-copy         ── implements Collector
           └─ StopAndCopyProof  (theorems)
    ObjectLinks ── links, definitions of structs, what moves them on
      └─ AssertDead ........... program + collector + links
           ├─ AssertDeadProof     (theorems)
           ├─ AssertDeadHistory   with history variables
           └─ AssertDeadLoop      the program assign_site_test2.scm
    Interrupts ── control-C, errors, sections, catch and throw
      └─ InterruptsProof        (theorems)
    Calls ── C functions re-entered through their own allocations
      ├─ SymbolTable ─┐
      ├─ HashTable ───┴─ Tables   two tables of one program
      │   └ Equality              equal and c_sxhash
      │      └─ TablesProof       (theorems)
      ├─ Env .................. frames, lookup, define
      │    └─ EnvProof            (theorems)
      ├─ Resources ............ malloc'ed data and FILEs
      │    └─ ResourcesProof      (theorems)
      └─ FastIO ............... fast_print and fast_read
           └─ FastIOProof         (theorems)
    MC* ── instances for TLC

**Collector** is the abstract storage manager: the program creates, reads and
writes objects it can reach, and now and then all that cannot be reached becomes
free at once. The two concrete managers implement it under quite different
refinement mappings.

**MarkSweep**. `type` and `slot` are a cell's type and its words, `regs` the
locations given to `gc_protect`, `stack` the cells whose address a live word of
the C stack holds, `frames` the NEWCELLs suspended in a collection (innermost
last) with the words they are going to store. `pc` is the place in
`gc_for_newcell` and `user_gc`: `mark`, `swept`, `resume`, and `run` for the
program, also that of the hook. Actions: the program's loads, stores and
constructors (`Load` … `NewCell`), `NewCellGc` (free list empty), `UserGc`,
`MarkStep` (one call of `gc_mark`), `Sweep`, `AfterSweep` (the three ways
`gc_for_newcell` goes on), `HookReturns`, `AllocateHeap`, `Resume`; `Unwind` is
`*throw` and `OutOfStorage` is `err`. `pinned` stands for stale words of the C
stack which happen to look like pointers. `FollowedSlots` (CellGraph) says what
`gc_mark` follows: not the environment of a traced closure and not the
definition of a struct instance, as in the code; `FullyMarked` says that the
program uses no such type.

**StopAndCopy**. `mem` is the cells, copied as wholes; `forward[c]` is the CAR
of a cell with `gc_mark = 1`. `heap`, `org` are the C variables. Steps of a
collection are one location (`ScanRegister`), one word (`ScanWord`) and one cell
(`FreeCell`) at a time. `repl` collects between two forms, when the C stack
holds nothing, so that an evaluation is modelled by what the program does to the
heap with anything it can reach (`Held`). Every object has an identity (`id`,
part of what memcpy copies), which the program does not have: it says what "the
same object" means after a move, and the refinement mapping to Collector is in
terms of it. A collection's steps are all stuttering steps there, but the last.

**ObjectLinks** is the pure part of assert-dead: matching and finding links,
`FocusLink` (an assignment is what a link waits for), `Advance` (the active
element moves past what has been recorded), and the chains of struct
definitions (`WantedSlots`, `UpdateChain`).

**AssertDead** puts it into a program and a collector. An object has its type,
class and definition, its references and the lines recorded with them, and the
flag and line of its call of `assert-dead`. `Assign` is the whole of
`try_record_assign_site`; `SetField`, `SetCarCdr`, `SetGlobal`, `SetLocal` and
`NewExternal` call it. `MarkStep` is one call of `gc_mark` in the order of the
code's recursion, `work` the calls that are still to be made with the path each
comes by; stage one, stage two and new definitions happen in it. `crash` is a
NULL dereference, `fatal` an exit.

**AssertDeadHistory** adds what the last step assigned and which call of
`assert-dead` a cell saw in its present life, which no guard reads.
**AssertDeadLoop** runs the collector over one program, line by line.

**Interrupts**. The C stack is a sequence of activations: sections (with the
value of `nointerrupt` they will put back and the cells they have yet to
allocate), collections, `*catch` forms, the after-gc hook. `ControlC` is enabled
at every step once `repl_driver` has set the handler. `Restore` is
`no_interrupt` at the end of a section, with the deferred control-C in it;
`Err` is the longjmp of `err` or the end of the program.

**Calls** is what the next modules have in common: a C function that allocates
in the middle of what it does, and is entered again by the after-gc form before
it goes on, or left for good by an error or a `*throw`. `calls` is the stack of
these calls, each a record with the C variables that live across the allocation
(`sl`, `l`, `list`, `index`, `buffer` ...) and the place (`at`) it has reached.
What a function does between two allocations is one step. In `gen_intern`, the
constructors of arrays and `fopen_c`, `fclose_l` and `lfread` nothing comes in
between, since control-C is deferred there. `hset` and the two stores of
`leval_define` change one thing in a step, so that a control-C comes before or
after it and does what `Fail` does. `fast_print` writes many bytes in a step, and
a control-C that leaves some of them unwritten is not in the model.
`Collect` starts the form, `FormEnds` ends it, `Unwind` is `err` or a `*throw`.

**SymbolTable** is `gen_intern`: symbols are numbers in the order made,
`obarray` and `oblistvar` lists of them, which are never changed in place. The
bucket is read before `symcons` and stored after `cons`. Where the form has
interned in between, the store drops what it put there: the history variable
`overtaken` has the buckets in which that happened. `known` is what gen_intern
has returned, the symbols the program can compare by eq.

**HashTable** is `href` and `hset` over pairs that all lists share, **Equality**
the two recursive functions below it, over a heap of keys. `dict` says what
each key was last set to, `late` the indices at which a call of `hset` stored a
list that the form had changed. **Tables** is a program that uses both tables.

**Env** has frames of two lists. `Envlookup` is the loop of `envlookup`, with
its errors where formals and actuals are out of step; `Define` → `StoreFormals`
→ `StoreActuals` is the extension of a frame, an allocation before each store.
`scope` is what each frame's variables should be, by lexical scope, and `spoilt`
the frames that were used, or left, between the two stores.

**Resources** follows what lives outside of the heap. Its key variable is
`word`, the second word of every cell: the data of an array, `car_assign_site` in
a cons. NEWCELL does not clear it, `cons` does not set it, and the sweep of an
array frees the data and leaves the pointer. So an array whose `must_malloc` fails after the type has been set owns
what its cell's former life left there. Such cells are `torn`, as are those
whose data a torn cell has freed; `lost` are buffers in the C variables of calls
that were left, `shut` FILEs the form closed under `array_fast_read`. `crash`
stops at the first undefined behaviour, with the cells that led to it.

**FastIO** writes objects to a stream of opcodes (`Items` is the order in which
`fast_print` goes through an object) and reads the stream back (`FastRead`).
`Hset` and `Store` are the two allocations of `fast_print_table`, with the
table and the index it read before. A symbol whose name is too long leaves its
opcode in the stream with neither length nor name (`LoneSymbol`), since
`fast_print` looks at the length after it has put the opcode: the reader takes
what follows for them and is out of step from there on. `whole`, `cut` and `doubtful` record which
prints were cut short or cut into, which symbols have an index but no name in
the stream, and from which index on two prints had the same next one.

## The runs

| run | instance | what it shows |
|---|---|---|
| MarkSweep_safety | 3 cells of one word, 2 heaps, 1 location, hook, 1 suspended NEWCELL, 1 stale word | `NoDangling`, `FreeListExact`, the inductive invariant `IInv`, and that the manager implements Collector |
| MarkSweep_trace | 2 cells of two words, 2 heaps; closures, traced closures, struct definitions and instances; no hook | `TriColour`, `NewCellNeverNull`, a collection ends (`CollectionEnds`) |
| StopAndCopy_all | 2 spaces of 2 cells; conses and arrays | `NeverFatal`, `NoStrayPointers`, `BuffersOwned`, Collector implemented, `Exact`, `CollectionEnds` |
| AssertDead_all | 2 cells, a global, one class with one field, external and internal conses, two calls of `assert-dead`, collections of both causes; see the bounds | `Attributed`, `Instrumented`, `DefsSound`, `FieldsLead`, `CallInfoAgrees`, `NoneMissed`, `Learns` |
| AssertDead_loop | assign_site_test2.scm: 3 classes, 6 cells, 4 rounds, two words malloc may leave | `OneStepARound` |
| Interrupts_all | 2 tags, 6 activations, sections of up to 2 cells | `NeverKilled`, `StrikesBetween`, `CatchesLive`, `Answered` |
| Tables_all | 3 names in 2 buckets, 3 keys (two of them equal) in a table of 2, 3 calls and forms nested, 3 symbols and pairs | `OneSymbolPerName`, `InOwnBucket`, `LastSet`, `NoShadows`, and as an assumption evaluated before them `EqualKeys` |
| Env_all | lambda lists (x) and (x . y), 2 frames, 3 calls and forms nested | `Lexical` |
| Resources_all | 3 cells, 3 buffers, 1 file, lisp arrays and strings, 3 calls and forms nested, one stale word per cell | `OnlyTornFrees`, `BuffersOwned`, `FilesOwned` |
| FastIO_all | 3 symbols (one too long to print), a number, a closure, 8 lists and an array; 3 prints | `FetchesMeant`, `RoundTrip` |

Each property has a mutant, a faulty variant of one definition, which breaks it
under the same configuration.

Two more runs end in a violation, where the code does not do what the
repository says of it (`findings`):

- AssertDead_recycled violates `AlarmDeserved`: NEWCELL does not reset the flag
  `assert_dead` of the object that had the cell before. The trace ends where an
  object has the flag that nobody asserted; the alarm is raised by the next
  collection that finds it.
- AssertDead_paths violates `PathIsReal`, which is the comment at slib.c:160: the
  fields of a path are said to be one to one with its objects, each the slot by
  which an object refers to the next. An internal cons is no object of a path,
  but its own car or cdr is what is noted in the place of the object before it.
  What does hold with internal conses, and is checked and proved, is
  `FieldsLead`: the buffers stay in step, and the field is that of the last
  internal cons of the way.

TLC also finds that the models have the following behaviours of the code, about
which no document says anything and which are therefore assumptions of the runs
and proofs instead:

- with an after-gc hook, `NewCellNeverNull` fails: the hook can take the last
  free cell, and the waiting NEWCELL then dereferences NULL;
- with traced closures, `NoDangling` fails: their environment is not marked;
- with two classes, `CheckedTrue` fails: they are not told apart when an
  assignment is matched;
- `OneSymbolPerName`, `LastSet`, `Lexical`, `FetchesMeant`, `RoundTrip` and
  `OnlyTornFrees` except what the history variables of their modules record, and
  `FetchesMeant` what comes after a lone opcode (`InStep`). Without the
  exception each of them fails: a form that interns in the middle of an intern
  makes two symbols of one name, and so on. The properties say that nothing else
  goes wrong, and that what went wrong stays in the one bucket, index, frame,
  symbol or cell.

### Bounds

- The bounds of `MarkSweep`, `StopAndCopy`, `AssertDead`, `Interrupts`, `Tables`,
  `Env` and `Resources` are those of the runs only: the theorems have none.
- Cells (2 or 3; 6 in the loop). A lost pointer, a shared object, a cycle, a
  cell listed twice and a recycled cell need two or three cells. In
  `StopAndCopy` two cells make cycles, sharing by the two words of a cons, and
  full spaces.
- `MaxNest` (suspended NEWCELLs) 1: a NEWCELL in the hook of another one is
  reached by the hook allocating from the free list; deeper nesting is proved.
- `MaxStale` (stale words) 1.
- `LowWater` 1 or 2 stands for the code's 100 free cells: below, at and above it
  are all reached.
- `AssertDead_all`: a heap and a link have at most a struct and a cons each and
  collections are asked for; or the program has made no conses, and they may have
  two structs, in collections of both causes; or it has made no structs and
  assigns no symbol, and they may have two conses, with two calls of
  `assert-dead` (`FewKinds`, a CONSTRAINT). The second call is what a missed
  assertion needs: an object asserted by it comes to the path that the first
  one's object had. A global and two conses, or a cons and two structs along one
  link, are too many states for TLC. The view leaves out the lines kept in
  objects, which no guard and no property of the run reads, but for their type
  (`WithoutLines`); the cells are interchangeable. `Dim` (fields of a struct) is
  1, and 2 in the loop.
- `MaxDepth` 6 activations: a section that collects, whose hook catches, runs a
  section and collects again. `MaxCells` 2: a second allocation in the same
  section after the collection of the first (gen_intern makes three cells).
- `MaxDepth` 3 in the modules over `Calls`: a call, the form in it, and a second
  call, which is what overtakes the first (a form in that one is the same again;
  the theorems have no bound). `MaxMade` 3 symbols and pairs: two of one name or
  key and one beside them in the list. Names share a bucket two to one, and two
  keys are equal that differ in memory (lists with 0.0 and -0.0 in them).
- `Env`: `MaxFrames` 2 (a frame and one around it), `MaxActuals` 2 (a missing
  argument, one each, one for the rest), `MaxCells` 4, of which two defines.
- `Resources`: a torn cell, the owner of the data it names, and a file or a cons
  need three cells. `Kinds` has lisp arrays, whose data a mark phase walks, and
  strings, which `array_fast_read` fills from the FILE it looked up before. The
  constructor of strings waits for its cell only while nothing is torn or lost
  and there are no lisp arrays, and a torn string comes beside a torn lisp array
  only (`StringsApart`, a CONSTRAINT).
- `FastIO`: `MaxPrints` 3, one for a symbol's first occurrence, one in the middle
  of it and one that fetches.
- `Lines`, `Assertions`, `Garbage` are as small as lets lines and calls differ
  from none; in the loop `Garbage` has 0 and a number that is no line of the
  program, which a report must never print.

`CHECK_DEADLOCK FALSE` is set where the program may stop: after a crash or an
exit, with nothing left that it could do (`MarkSweep`), or where a bound on what
is made or printed has been reached (`Tables`, `Env`, `FastIO`).

### Fairness

- `MarkSweep`, `StopAndCopy`: weak fairness of the collector's steps. A
  collection is a run of C code with interrupts off, which waits for nothing.
- `Interrupts`: weak fairness of `repl_driver`'s steps and of the ends of
  sections and collections, which are finite pieces of C (`f_getc` waits for
  input, which is assumed to come); and, as an assumption about the program, that
  an after-gc hook ends (strong fairness of `Return` inside it).
- Nothing else is assumed to be fair: the program may do what it likes.

`Answered` also assumes a hook that does not `*throw` past itself (`HookThrows =
FALSE`). With `TRUE` TLC finds that a throw out of a hook in the middle of a
section leaves interrupts off, so that a control-C is never answered; safety
does not depend on it.

## The proofs

From the assumptions on the constants in the modules, each a fact about the
configuration (for instance at least one heap, cells that are not NIL, lambda
lists of symbols). Every proof module has its argument in its first comment.
An action property or invariant is proved from an invariant `IInv` that is
inductive: `Init` implies it, each action keeps it (one lemma per action), and
it implies the property.

The two storage managers:

- `MarkSweepProof!TypeCorrect`: `TypeOK`, for any number of cells, heaps,
  locations, suspended NEWCELLs and stale words; `NoPointerLost`: `TriColour`, for
  any types, those that are not fully marked included.
- `MarkSweepProof!StorageSafe`, `FreeListKept`, `Invariance`: for a program of fully
  marked types, `NoDangling`, `FreeListExact` and the inductive invariant itself.
  `NoDangling` is not inductive: that a sweep frees nothing reachable needs the
  tri-colour property of the marks, which needs to know in which phases marks
  exist (`Phases`), that marked cells are in use (`MarksNeeded`), that the values
  of suspended NEWCELLs are scanned, and that heaps not yet allocated are
  untouched (`BeyondFree`).
- `MarkSweepProof!NeverNull`: without a hook, a NEWCELL that comes back from a
  collection finds a cell.
- `MarkSweepProof!Refinement`: each step is a step of `Collector` or leaves it
  unchanged. The sweep is the abstract collection; that it frees all that is
  unreachable, not only nothing else, is `MarksNeeded`.
- `StopAndCopyProof!TypeCorrect`, `RoomForAll`, `NothingStrays`, `BuffersKept`:
  `TypeOK`, `NeverFatal`, `NoStrayPointers` and `BuffersOwned`, for any size of
  the spaces, locations and shapes of the heap, and any types with relocation
  hooks (`NoStructs`). In a collection every copied cell has a twin at its
  forwarding address, with the same identity and type, whose words are the same
  objects (`Twins`); every cell of the new space is the twin of one; and there
  are as many copied cells as cells taken (`Forwarding`), which is why there is
  room for one more. The old cells that are not copied keep their words, and
  those lead to old cells (`OldWords`).
- `StopAndCopyProof!Refinement`, `ExactlyTheLive`: `ImplementsCollector` and
  `Exact`. What is seen of an object can be read off either twin, so that the
  steps of a collection show nothing; what has been copied is in reach
  (`Reached`), and at the end it is closed and holds the roots, so that it is
  all that is in reach. That step is the abstract collection, with nothing
  pinned.

`FullyMarked` cannot be dropped from `StorageSafe`: with traced closures among
the types TLC finds `NoDangling` violated. Nor can `NoStructs` be from
`NothingStrays`: the words of a struct instance are not relocated.

assert-dead (`AssertDeadProof`), for any cells, classes, globals, lines and number
of calls:

- `TypeCorrect`, `LinksAttributed`, `DefinitionsSound` (`TypeOK`, `Attributed`,
  `DefsSound`) are inductive together. What each operator of `ObjectLinks` does to
  one link or one chain is a lemma (`CheckKeeps`, `AdvanceKeeps`, `NewLinkGood`,
  `UpdateChainIs`), and `Learning` (`Learns`) follows from the same lemmas: a later
  state of a link never takes back what an earlier one said.
- `NoAssertionMissed` (`NoneMissed`) and `CallsAgree` (`CallInfoAgrees`) need the
  marking: `Heap` says in which phases there are marks, that references lead to
  cells in use, and that what a marked object refers to is marked or still to
  come. Then an object with its flag up cannot be passed by (`Reported`), and the
  sweep frees none with its flag up that is in use, which keeps the table of
  calls and the flags together (`Flags`).
- `ClassesInstrumented` (`Instrumented`): a report moves a link on, so that a
  class may want other slots than its definition names, and the end of the
  marking makes the new definitions. `Ready` says when it is so, and
  `NotedWanted` that recording alone does not change what a class wants.
- `FieldsLeadOn` (`FieldsLead`) has no hypothesis: internal conses may be anywhere
  in the heap, as frames and code are. For each call of `gc_mark` to come, its
  path is followed element by element, with the internal conses between two
  objects as a set that references stay in (`Paths`, `Fits`).

`InterruptsProof!TypeCorrect`, `Survives`, `Undisturbed`, `ThrowsLand`: `TypeOK`,
`NeverKilled`, `StrikesBetween` and `CatchesLive` for any tags, depth and hooks,
throwing ones included. The invariant relates the flags to the whole stack: the
flag a section or collection will put back is right for what lies below it, and
errors are caught wherever no collection is under way.

`TablesProof` and `ResourcesProof` begin with the same lemmas about `Calls`: what is
true of every call stays true of those that remain when one begins, goes on,
ends or is left, and the form is never inside of itself without a call around it.

- `TablesProof!NamesAreUnique`, `BucketsAreOwn`: `OneSymbolPerName` and
  `InOwnBucket`, for any names, buckets and depth. Neither is inductive. A
  symbol on its way from `symcons` to the bucket is in no list yet, and that no
  other call has it, that its name is the call's own, and that the list the call
  holds lacks the name, is part of `NameInv`. So is what remains true of an
  overtaken bucket: the list stored back is an old one, which may lack symbols
  but has none twice.
- `TablesProof!ValuesAreKept`, `NoneShadowed`: `LastSet` and `NoShadows`. They
  have `EqualKeys` as a hypothesis: `equal` and `c_sxhash` are recursive, and what
  they compute is evaluated by Tables_all only (`KeysAgree`), on keys of most
  kinds. `NoShadows` has no exception for overtaken indices, since the list
  stored back had no pair for the key when the call began.
- `EnvProof!ScopeIsLexical`: `Lexical`, for any lambda lists, arguments, frames and
  depth. What a frame says of a variable is compared with what scope means by
  it, frame by frame: the same in frames that are whole (`InStep`), the same but
  for the new variable in frames between the two stores (`HalfStep`). For that a
  cons must be in one frame only (`Owned`), the formals alone must decide which
  frame a variable is found in, in spoilt frames as well (`Named`, `Lacking`), and
  what was put before a list of formals that a call has read must be new names
  (`NamesNew`, `Nested`). That a chain of frames, a recursive function, goes
  outward step by step is by induction over the number of frames.
- `ResourcesProof!FilesAreOwned`: `FilesOwned`. A load's cell is in no list of the
  program, so that nothing but the load closes it; that takes that no two loads
  have one cell, that no call that reads has the cell of a load, that `f` and
  `cell` of a call agree, and that a cell the calls hold is kept by the mark
  phase.
- `ResourcesProof!BuffersAreOwned`, `TornAlone`: `BuffersOwned` and `OnlyTornFrees`.
  No buffer is at two places, among the whole arrays, the FILEs, the calls that
  fill one and the lost ones (`Owning`), though cells that are not whole may
  name it as well; `AllSourced` follows the FILEs that calls read from while they
  wait for a cell. So what a sweep frees twice or walks wrongly started at a
  constructor that failed between its two stores.

- `FastIOProof!FetchesStandForTheirSymbols`: `FetchesMeant`, for any objects without
  cycles. `IInv` says that an index that is not doubtful is stored once, that a
  call with one is the only call and has the next index (`Once`, `Alone`), and
  that what is in the table, or in the list a call has read of it, has its index
  and name in the stream, or a call about to write them, or is excused. A lone
  opcode is a token of its own kind, which changes none of this for the fetches
  before it; of what comes after it the theorem says nothing (`InStep`).
- `FastIOProof!WhatWasPrintedIsReadBack`: `RoundTrip`. `WholeInv` is added to `IInv`:
  as long as every print was whole, the stream stands for the objects that were
  printed, token by token (`Rendered`), and for the part of its items that the
  call on the stack has done; its list `rest` is the others. It remains that
  `FastRead` makes of what stands for `Items[a]` the object `Canon[a]` (`ReadsBack`),
  for atoms, arrays and the three opcodes of lists. `Spine`, `Items`, `Canon` and
  `FastRead` are recursive functions, of objects and of places: that each is the
  function its equation describes is proved first (`Recursion`), from a rank in
  which parts are below what they are parts of, which finite objects without
  cycles have (`Ranked`).

`NoCycles`, an assumption of `FastIO`, is what the code needs as well: `fast_print`
of a cyclic list does not end.

Induction over data is done without the library's induction theorems, whose
operator parameter the provers cannot instantiate: a set of numbers that holds 0
and the successors of its members holds them all (lemmas `Induction` in
`EnvProof`, `AssertDeadProof` and `FastIOProof`), which is enough for chains of
frames, for the fold over links in `WantedSlots` and, through ranks
(`RankInduction`), for objects and their parts.

Only model-checked: `OneStepARound` of `AssertDeadLoop`, which is about one
program, and liveness (`CollectionEnds`,
`Answered`), since fairness and ENABLED are out of TLAPS's reach. What `equal` and
`c_sxhash` compute is evaluated on the keys of Tables_all.

## Not modelled, and abstractions

- Memory from malloc for heaps is taken as zero where the code reads it before
  writing it; malloc of heaps and link data does not fail, except that
  `MarkSweep` runs out of heaps.
- The scan of the C stack sees the live words, and any `MaxStale` stale ones; C
  variables of the interpreter are live words. Roots are never internal conses,
  and cycles of internal conses through their cars do not occur (a program
  cannot build them without an external cons).
- `AssertDead`: struct definitions live in chains, not in cells; recording at
  closures and at frames of local definitions, and redefinition of a class, are
  left out. `AssertDeadLoop` has no stale words and free cells left at `(gc)`.
- Cases the model has, which no property of a passing run is about: a collection
  for NEWCELL that itself needs a cell ends the program; a `set!` of a local
  variable records its line in the symbol; the last definition of a chain is never found again,
  so that it is made anew; car and cdr are numbered one way in recording and the
  other way in paths; an assertion on a recycled cell that still has its flag is
  dropped.
- `StopAndCopy`: the data of a lisp array is modelled in its cell, though the old
  and the new cell share it (nobody reads the old one after the copy). What an
  idle space holds is forgotten, but not that its cells are marked. Structs have
  no relocation hooks; the run leaves them out, and `NoStrayPointers` fails with
  them.
- `Interrupts`: a section is what it allocates and how it ends; SIGFPE, the
  check of the stack limit and an embedding program with its own driver are left
  out.
- `Tables`: keys do not change while they are in a table (setcar on one would
  lose it by design). The interpreter's other uses of symbols are not there.
- `Env`: the dispatch of `leval` over forms and subrs, and macros, are an
  interpreter of whole programs, which TLC cannot enumerate; what they do to
  environments is all in `ExtendEnv`, `Setvar` and `Define`.
- `Resources`: lfread into a string the program passes, the contents of files,
  `save_forms` (which opens and closes a file in one call) and the indices of
  aref and aset are left out. Arrays of numbers own their data as strings do.
- `FastIO`: arrays of numbers are left out, whose printed length is in bytes and
  is read as a number of elements, so that they are never read back; the hash
  table of the printing side is one list.
- Reader and printer: parsing and formatting, character by character, of
  unbounded text; the only state that lasts is `tkbuffer`, which is in
  `SymbolTable`. `lreadstring` has the same hazard and is listed.
- Numbers (`flocons` with its small-number cache) are pure functions of doubles;
  timing, statistics and the main program read clocks and print; uthash and
  utarray are vendored containers, used as a map and as sequences.

## Plan

Done: CellGraph, Collector, MarkSweep, StopAndCopy, ObjectLinks, AssertDead,
Interrupts, Calls, the tables, Env, Resources and FastIO with proofs; the two
extensions of AssertDead.

Next, in order:

1. `EqualKeys` as a theorem: what `equal` and `c_sxhash` compute, by the technique
   of `FastIOProof`.
2. `Reader`: the bounds of `tkbuffer` and the readers of strings.
3. control-C as a step of `AssertDead`; chains of links over `ObjectLinks`.
