--------------------------- MODULE AssertDeadLoop ----------------------------
(***************************************************************************)
(* assert-dead at work on the program assign_site_test2.scm: four rounds,  *)
(* in each of which a global a gets an A whose field1 is a B whose field2  *)
(* is a C; the C is asserted dead and the storage is collected.            *)
(*                                                                         *)
(* The collections are AssertDead's.  When (gc) is called, no word of the  *)
(* C stack points into the structure: what the program does not name, the  *)
(* stack does not either.                                                  *)
(***************************************************************************)
EXTENDS AssertDead

CONSTANTS a, A, B, C,   \* the global and the three classes
          Rounds        \* number of rounds: 4

ASSUME ProgramAssumption == /\ Symbols = {a} /\ Classes = {A, B, C}
                            /\ Dim = 2 /\ "struct" \in Constructors
                            /\ Lines = {21, 25, 26} /\ Assertions = {27}
                            /\ Cardinality(Cells) >= 6
ASSUME RoundsAssumption == Rounds \in Nat

field1 == 0
field2 == 1

VARIABLES
    at,         \* the expression of the program that comes next
    let,        \* the objects of this round, by the class
    round,      \* rounds done
    seen        \* <<step of the path, line>> printed in reports so far

lvars == <<vars, at, let, round, seen>>

LInit == /\ Init
         /\ at = "new A"
         /\ let = [k \in Classes |-> NIL]
         /\ round = 0
         /\ seen = {}

Goes(from, to) == at = from /\ at' = to /\ UNCHANGED <<round, seen>>

New(k, from, to) ==
    /\ Goes(from, to)
    /\ \E c \in Cells, sites \in [Slots -> Garbage] :
          NewStruct(c, k, sites) /\ let' = [let EXCEPT ![k] = c]

SetA == /\ Goes("set! a", "new B")
        /\ SetGlobal(a, let[A], 21)
        /\ UNCHANGED let

SetFields ==
    /\ \/ Goes("field1", "field2") /\ SetField(let[A], field1, let[B], 25)
       \/ Goes("field2", "assert-dead") /\ SetField(let[B], field2, let[C], 26)
    /\ UNCHANGED let

CallAssertDead == /\ Goes("assert-dead", "end of let")
          /\ AssertDead(let[C], 27)
          /\ UNCHANGED let

Leave == /\ Goes("end of let", "gc")
         /\ locals' = {}
         /\ let' = [k \in Classes |-> NIL]
         /\ UNCHANGED <<obj, links, chains, callInfo, collecting>>

Gc == /\ Goes("gc", "collecting")
      /\ StartGc("user")
      /\ UNCHANGED let

(* What the report of an object at the end of a link prints: for each step *)
(* of the path the lines the object at its start has for it.               *)
Report(w) ==
    UNION {LET o == PathTo(w)[i]
           IN  {<<i, obj[o].site[s]>> :
                  s \in {s \in SlotsOf(obj[o].type) :
                           /\ obj[o].ref[s] = PathTo(w)[i + 1]
                           /\ obj[o].recorded /\ KeepsLine(o, s)
                           /\ obj[o].site[s] # 0}} : i \in DOMAIN FieldsTo(w)}

Collecting ==
    /\ at = "collecting"
    /\ \/ /\ \/ \E r \in Objs : TakeRoot(r)
             \/ MarkStep
          /\ pc' # "fatal"          \* there are free cells when (gc) is called
          /\ seen' = IF work # <<>> /\ Head(work).ptr \notin marked
                        /\ ~CanStageOne(Head(work).ptr)
                        /\ Found(PathTo(Head(work)), FieldsTo(Head(work))) # 0
                     THEN seen \cup Report(Head(work)) ELSE seen
          /\ UNCHANGED <<at, round>>
       \/ /\ Sweep
          /\ round' = round + 1
          /\ at' = IF round' = Rounds THEN "end" ELSE "new A"
          /\ UNCHANGED seen
    /\ UNCHANGED let

End == at = "end" /\ UNCHANGED lvars

LNext == \/ New(A, "new A", "set! a") \/ SetA
         \/ New(B, "new B", "new C") \/ New(C, "new C", "field1")
         \/ SetFields \/ CallAssertDead \/ Leave \/ Gc \/ Collecting \/ End

LSpec == LInit /\ [][LNext]_lvars

-----------------------------------------------------------------------------
Attribution == {<<1, 21>>, <<2, 25>>, <<3, 26>>}

(* The first round finds the path and makes its link; every round after it *)
(* explains one more step of the path: by then the reports have printed,   *)
(* for that step, the line of the program that made it, and no other line; *)
(* and after four rounds all of the path is explained.                     *)
OneStepARound ==
    at \in {"new A", "end"} =>
       /\ seen = {x \in Attribution : x[1] < round}
       /\ round > 0 => Len(links) = 1 /\ links[1].active = round
=============================================================================
