------------------------------- MODULE Resources ------------------------------
(***************************************************************************)
(* What cells own outside of the heap: the data of strings and arrays,     *)
(* from malloc, and open FILEs with the copies of their names.  The        *)
(* constructors, the loader and the hooks gc_free that gc_sweep calls,     *)
(* with mark-and-sweep collections, their after-gc form, failing mallocs   *)
(* and failing opens.                                                      *)
(*                                                                         *)
(* The pointer to the data of an array, and to the name of a file, is the  *)
(* second word of the cell, which cons and NEWCELL leave as it is, as does *)
(* the sweep of an array: `word' is that word in each cell, whatever the   *)
(* cell is used for.                                                       *)
(***************************************************************************)
EXTENDS Calls, FiniteSets

CONSTANTS
    Cells,
    Buffers,        \* what malloc can return
    Files,          \* what fopen can return
    NULL,
    Other,          \* a word that is no pointer from malloc
    Kinds           \* what arrays are made of: "string", "lisp_array" or both

ASSUME KindsAssumption == Kinds \subseteq {"string", "lisp_array"}
ASSUME NullAssumption == NULL \notin Cells \cup Buffers \cup Files

(* Arrays of numbers are like strings: nothing follows their data. *)
Owners == {"string", "lisp_array", "c_file"}

VARIABLES
    type, word,     \* of each cell
    file,           \* the FILE of a cell of type c_file
    held,           \* the cells the program can reach
    malloced,       \* the buffers that are not free
    opened,         \* the FILEs that are not closed
    torn,           \* history: the cells whose data is not theirs
    lost,           \* history: the buffers nobody can free any more
    shut,           \* history: the FILEs closed under a call that reads them
    crash           \* [at, cells]: undefined behaviour

cellVars == <<type, word, file>>
poolVars == <<malloced, opened>>
historyVars == <<torn, lost, shut>>
resourceVars == <<cellVars, held, poolVars, historyVars, crash>>
vars == <<calls, resourceVars>>

No == [at |-> "nowhere", cells |-> {}]

Init == /\ calls = <<>>
        /\ type = [c \in Cells |-> "free"]
        /\ word = [c \in Cells |-> NULL]
        /\ file = [c \in Cells |-> NULL]
        /\ held = {} /\ malloced = {} /\ opened = {}
        /\ torn = {} /\ lost = {} /\ shut = {} /\ crash = No

Free == {c \in Cells : type[c] = "free"}

(* What the C variables of the calls under way hold. *)
InCalls(v) == {calls[i][v] : i \in {j \in DOMAIN calls : v \in DOMAIN calls[j]}}

-----------------------------------------------------------------------------
(* The hook of arrays frees the data and leaves the pointer; that of files *)
(* closes and frees what is there and leaves NULL.  Neither knows what the *)
(* pointer is worth: a cell that others' data is freed by is torn as well. *)
Data(cells) == {word[c] : c \in {d \in cells : type[d] \in Owners}} \ {NULL}
FILEs(cells) == {file[c] : c \in {d \in cells : type[d] = "c_file"}} \ {NULL}

BadFrees(cells) ==
    {c \in cells : /\ type[c] \in Owners /\ word[c] # NULL
                   /\ \/ word[c] \notin malloced \ (lost \cup InCalls("buffer"))
                      \/ word[c] \in Data(cells \ {c})}

Cleared(field, cells) ==
    [c \in Cells |-> IF c \in cells /\ type[c] = "c_file" THEN NULL ELSE field[c]]

(* Faulty: the file hook leaves the FILE, as that of arrays does the data. *)
GcFreeLeaves(cells) ==
    /\ malloced' = malloced \ Data(cells)
    /\ opened' = opened \ FILEs(cells)
    /\ word' = Cleared(word, cells) /\ UNCHANGED file

GcFree(cells) ==
    /\ malloced' = malloced \ Data(cells)
    /\ opened' = opened \ FILEs(cells)
    /\ word' = Cleared(word, cells) /\ file' = Cleared(file, cells)

Crashes(at, cells) ==
    crash' = IF crash = No /\ cells # {} THEN [at |-> at, cells |-> cells] ELSE crash

Torn(cells) == torn' = {c \in Cells : \/ c \in torn \ cells
                                      \/ crash' # No /\ c \in torn
                                      \/ /\ c \notin cells /\ type[c] \in Owners
                                         /\ word[c] \in Data(cells)}

(* A mark phase goes through the data of lisp arrays.  It keeps what the   *)
(* program and the calls reach and what old words on the stack point to.   *)
BadMarks(kept) ==
    {c \in kept : type[c] = "lisp_array" /\ word[c] # NULL /\ word[c] \notin malloced}

(* Faulty: a call that reads keeps the FILE only. *)
RootsOfLoads == held \cup {calls[i].cell : i \in {j \in DOMAIN calls : calls[j].proc = "vload"}}

Roots == held \cup (InCalls("cell") \ {NULL})

MarkAndSweep ==
    \E stale \in SUBSET (Cells \ (Free \cup Roots)) :
        LET kept == Roots \cup stale
            swept == (Cells \ Free) \ kept
        IN  /\ type' = [c \in Cells |-> IF c \in kept THEN type[c] ELSE "free"]
            /\ GcFree(swept)
            /\ IF BadMarks(kept) # {} THEN Crashes("mark", BadMarks(kept))
               ELSE Crashes("free", BadFrees(swept))
            /\ Torn(swept)
            /\ UNCHANGED <<held, lost, shut>>

-----------------------------------------------------------------------------
(* Every constructor takes one cell.  With none on the freelist it waits   *)
(* for a collection, and goes on when the form has ended.                  *)
Asks(call) == Free = {} /\ Begin(call) /\ UNCHANGED resourceVars

Gets(call, c) == /\ c \in Free
                 /\ IF Evaluating THEN UNCHANGED calls
                    ELSE [Innermost EXCEPT !.gc = FALSE] = call /\ Finish

(* err, on the way: nothing of what the calls hold is released. *)
Errs(call) == /\ IF Evaluating THEN TRUE ELSE [Innermost EXCEPT !.gc = FALSE] = call
              /\ calls' = <<>>
              /\ lost' = lost \cup InCalls("buffer")

(* strcons, cons_array and array_fast_read, which looks the FILE of the    *)
(* cell `source' up before it asks for its own cell, and reads from it: of *)
(* a lisp array fast_read reads the elements, which looks it up again, and *)
(* is an error when it is closed.                                          *)
Array(kind, source) == [proc |-> "array", at |-> "cell", gc |-> FALSE, kind |-> kind,
                        cell |-> source,
                        f |-> IF source \in Cells /\ kind = "string" THEN file[source] ELSE NULL]
Sources == {NULL} \cup {c \in held : type[c] = "c_file" /\ file[c] # NULL}

MakeArray(call, c) ==
    /\ Gets(call, c)
    /\ type' = [type EXCEPT ![c] = call.kind]
    /\ \E b \in Buffers \ malloced :
          /\ malloced' = malloced \cup {b}
          /\ word' = [word EXCEPT ![c] = b]
    /\ held' = held \cup {c}
    /\ Crashes("fread", IF call.f \in opened \cup {NULL} THEN {} ELSE {c})
    /\ UNCHANGED <<file, opened, historyVars>>

(* The type is set before the data is there: when must_malloc fails, the   *)
(* cell stays an array whose data is the word of its former life.          *)
MakeArrayFails(call, c) ==
    /\ c \in Free /\ Errs(call)
    /\ type' = [type EXCEPT ![c] = call.kind]
    /\ torn' = IF word[c] = NULL THEN torn ELSE torn \cup {c}
    /\ UNCHANGED <<word, file, held, poolVars, shut, crash>>

(* Any other cell; some have a word of their own where arrays have data.   *)
MakePlain(c) ==
    /\ Evaluating /\ c \in Free
    /\ type' = [type EXCEPT ![c] = "cons"]
    /\ \E w \in {word[c], Other} : word' = [word EXCEPT ![c] = w]
    /\ held' = held \cup {c}
    /\ UNCHANGED <<calls, file, poolVars, historyVars, crash>>

(* lfread: a buffer, what the file holds into it, and then a string that   *)
(* takes the buffer (whole) or a copy of the part that was read.           *)
Fread(whole, b) == [proc |-> "lfread", at |-> "cell", gc |-> FALSE, kind |-> "string",
                    whole |-> whole, buffer |-> b]

BeginFread(whole, b) ==
    /\ Sources # {NULL} /\ b \in Buffers \ malloced
    /\ Begin(Fread(whole, b))
    /\ malloced' = malloced \cup {b}
    /\ UNCHANGED <<cellVars, held, opened, historyVars, crash>>

(* Faulty: the buffer is freed though the string has it. *)
EndFreadFrees(whole, b, c) ==
    /\ ~Evaluating /\ Gets(Fread(whole, b), c)
    /\ type' = [type EXCEPT ![c] = "string"]
    /\ word' = [word EXCEPT ![c] = b]
    /\ malloced' = malloced \ {b}
    /\ held' = held \cup {c}
    /\ UNCHANGED <<file, opened, historyVars, crash>>

EndFread(whole, b, c) ==
    /\ ~Evaluating /\ Gets(Fread(whole, b), c)
    /\ type' = [type EXCEPT ![c] = "string"]
    /\ \/ /\ whole
          /\ word' = [word EXCEPT ![c] = b] /\ UNCHANGED malloced
       \/ /\ ~whole
          /\ \E copy \in Buffers \ malloced :
                /\ word' = [word EXCEPT ![c] = copy]
                /\ malloced' = (malloced \ {b}) \cup {copy}
    /\ held' = held \cup {c}
    /\ UNCHANGED <<file, opened, historyVars, crash>>

-----------------------------------------------------------------------------
(* fopen_c: the fields are NULL before anything can fail.  loading: it is  *)
(* vload that opens the file, and evaluates the forms in it while no list  *)
(* of the program has the cell.                                            *)
Open(loading) == [proc |-> "fopen", at |-> "cell", gc |-> FALSE, loading |-> loading]
Load(c) == [proc |-> "vload", at |-> "forms", gc |-> TRUE, cell |-> c]
Outside == IF Evaluating THEN calls ELSE Outer

Fopen(loading, c, f, b) ==
    /\ c \in Free /\ f \in Files \ opened /\ b \in Buffers \ malloced
    /\ IF Evaluating THEN TRUE ELSE [Innermost EXCEPT !.gc = FALSE] = Open(loading)
    /\ IF loading
       THEN /\ Len(Outside) + 2 <= MaxDepth
            /\ calls' = Outside \o <<Load(c), AfterGc>> /\ UNCHANGED held
       ELSE calls' = Outside /\ held' = held \cup {c}
    /\ type' = [type EXCEPT ![c] = "c_file"]
    /\ word' = [word EXCEPT ![c] = b] /\ malloced' = malloced \cup {b}
    /\ file' = [file EXCEPT ![c] = f] /\ opened' = opened \cup {f}
    /\ UNCHANGED <<historyVars, crash>>

(* No such file, or no memory for the name. *)
FopenFails(loading, c) ==
    /\ c \in Free /\ Errs(Open(loading))
    /\ type' = [type EXCEPT ![c] = "c_file"]
    /\ word' = [word EXCEPT ![c] = NULL]
    /\ \E f \in {NULL} \cup (Files \ opened) :
          file' = [file EXCEPT ![c] = f] /\ opened' = opened \cup ({f} \ {NULL})
    /\ UNCHANGED <<held, malloced, torn, shut, crash>>

(* fclose_l, by the program, and at the end of vload. *)
Fclose(c) ==
    /\ Evaluating /\ c \in held /\ type[c] = "c_file"
    /\ GcFree({c}) /\ Crashes("free", BadFrees({c})) /\ Torn({c})
    /\ shut' = shut \cup (FILEs({c}) \cap InCalls("f"))
    /\ UNCHANGED <<calls, type, held, lost>>

EndLoad ==
    /\ Innermost.proc = "vload" /\ Finish
    /\ LET lf == {Innermost.cell}
       IN  GcFree(lf) /\ Crashes("free", BadFrees(lf)) /\ Torn(lf)
    /\ UNCHANGED <<type, held, lost, shut>>

Drop(c) ==
    /\ Evaluating /\ c \in held /\ held' = held \ {c}
    /\ UNCHANGED <<calls, cellVars, poolVars, historyVars, crash>>

-----------------------------------------------------------------------------
GcForNewcell == Free = {} /\ Collect /\ MarkAndSweep
UserGc == Evaluating /\ UNCHANGED calls /\ MarkAndSweep
FormEndsHere == FormEnds /\ UNCHANGED resourceVars

(* The buffers of the calls that are left are lost. *)
Leave == /\ Unwind
         /\ lost' = lost \cup {calls[i].buffer : i \in
                       {j \in DOMAIN calls : j > Len(calls') /\ "buffer" \in DOMAIN calls[j]}}
         /\ UNCHANGED <<cellVars, held, poolVars, torn, shut, crash>>

ArrayCalls == IF Evaluating THEN {Array(k, s) : k \in Kinds, s \in Sources}
              ELSE IF Innermost.proc = "array" THEN {[Innermost EXCEPT !.gc = FALSE]} ELSE {}
FreadCalls == IF Innermost.proc = "lfread" THEN {[Innermost EXCEPT !.gc = FALSE]} ELSE {}
PartCalls == {call \in FreadCalls : ~call.whole}       \* a whole buffer needs no malloc

Next ==
    /\ crash = No
    /\ \/ \E k \in Kinds, s \in Sources : Asks(Array(k, s))
       \/ \E l \in BOOLEAN : Asks(Open(l))
       \/ \E c \in Cells :
             \/ \E call \in ArrayCalls : MakeArray(call, c)
             \/ \E call \in ArrayCalls \cup PartCalls : MakeArrayFails(call, c)
             \/ \E call \in FreadCalls : EndFread(call.whole, call.buffer, c)
             \/ MakePlain(c)
             \/ \E l \in BOOLEAN, f \in Files, b \in Buffers : Fopen(l, c, f, b)
             \/ \E l \in BOOLEAN : FopenFails(l, c)
             \/ Fclose(c)
             \/ Drop(c)
       \/ \E whole \in BOOLEAN, b \in Buffers : BeginFread(whole, b)
       \/ EndLoad
       \/ GcForNewcell
       \/ UserGc
       \/ FormEndsHere
       \/ Leave

Spec == Init /\ [][Next]_vars

-----------------------------------------------------------------------------
(* What a collection frees or walks is what the cell was given, once, but  *)
(* for a cell that a failed malloc left as an array without data, or one   *)
(* whose data such a cell has freed; and a FILE that is read is open, but  *)
(* for one the after-gc form has closed meanwhile.                         *)
OnlyTornFrees ==
    /\ crash.at \in {"free", "mark"} => crash.cells \cap torn # {}
    /\ crash.at = "fread" => shut # {}

(* The data of an array, but of a torn one, is allocated and of no other   *)
(* cell; and no buffer leaks, but those that lfread had when it was left.  *)
Sound == {c \in Cells : type[c] \in Owners /\ word[c] # NULL} \ torn
BuffersOwned ==
    crash = No =>
        /\ \A c \in Sound : word[c] \in malloced \ (lost \cup InCalls("buffer"))
        /\ \A c, d \in Sound : word[c] = word[d] => c = d
        /\ malloced \subseteq Data(Cells) \cup InCalls("buffer") \cup lost

(* Every open FILE is that of one cell, which will close it, whatever has  *)
(* failed, and the file that a load has open is open.                      *)
FilesOwned ==
    /\ opened = FILEs(Cells)
    /\ \A c, d \in Cells : file[c] = file[d] /\ file[c] # NULL => c = d
    /\ \A i \in DOMAIN calls : calls[i].proc = "vload" => file[calls[i].cell] \in opened
===============================================================================
