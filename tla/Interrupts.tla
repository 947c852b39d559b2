------------------------------ MODULE Interrupts ------------------------------
(***************************************************************************)
(* Control-C, errors, *throw and the sections of code that must not be     *)
(* interrupted: no_interrupt, handle_sigint, err, repl_driver, *catch,     *)
(* *throw, and the collections in the middle of all of them.               *)
(*                                                                         *)
(* The C stack is a sequence of activations, the innermost one last.  The  *)
(* evaluator runs the program's code when the stack is empty (the top      *)
(* level), or when its last activation is a *catch or the after-gc hook.   *)
(* A section saves the old value of nointerrupt and puts it back when it   *)
(* ends; err leaves all of them by a longjmp to repl_driver.               *)
(***************************************************************************)
EXTENDS Naturals, Sequences

CONSTANTS
    Tags,           \* the tags of *catch forms
    HookThrows,     \* may the after-gc hook *throw past itself?
    MaxDepth,       \* bound: activations on the stack
    MaxCells        \* cells a section makes (gen_intern: three)

ASSUME ConstantsAssumption ==
    HookThrows \in BOOLEAN /\ MaxDepth \in Nat /\ MaxCells \in Nat

VARIABLES
    stack,          \* the activations
    nointerrupt,    \* is a control-C to be deferred?
    differed,       \* interrupt_differed: has one been?
    errjmpOk,       \* errjmp_ok: may err go back to repl_driver?
    catchFramep,    \* catch_framep: the depth of a *catch, 0 for none
    pc,             \* where control is outside of evaluation
    pending         \* has a control-C come since the last restart?

vars == <<stack, nointerrupt, differed, errjmpOk, catchFramep, pc, pending>>

Section(flag, n) == [kind |-> "section", flag |-> flag, cells |-> n]
Collection(flag, why) == [kind |-> "gc", flag |-> flag, why |-> why]
Catch(tag, next) == [kind |-> "catch", tag |-> tag, next |-> next]
Hook == [kind |-> "hook"]
Allocation == [kind |-> "allocation"]

TopLevel == [kind |-> "top level"]

Top == IF stack = <<>> THEN TopLevel ELSE stack[Len(stack)]
Below == SubSeq(stack, 1, Len(stack) - 1)
On(kinds) == pc = "run" /\ Top.kind \in kinds
Evaluating == On({"top level", "catch", "hook"})
RoomFor(n) == Len(stack) + n <= MaxDepth

Init == /\ stack = <<>> /\ catchFramep = 0
        /\ nointerrupt = TRUE /\ differed = FALSE /\ errjmpOk = FALSE
        /\ pc = "start" /\ pending = FALSE

-----------------------------------------------------------------------------
(* Faulty: err does not unwind the stack. *)
ErrStays(why, ok) ==
    /\ nointerrupt' = TRUE
    /\ stack' = stack
    /\ pc' = IF ok THEN "driver"
             ELSE IF why = "interrupt" THEN "killed" ELSE "fatal"

(* err: back to repl_driver, or the end of the program when that may not   *)
(* be; ok is the value of errjmp_ok.                                       *)
Err(why, ok) ==
    /\ nointerrupt' = TRUE
    /\ stack' = <<>>
    /\ pc' = IF ok THEN "driver"
             ELSE IF why = "interrupt" THEN "killed" ELSE "fatal"

(* Faulty: a deferred control-C waits for the next section. *)
RestoreOnly(flag, rest, ok) ==
    nointerrupt' = flag /\ stack' = rest /\ UNCHANGED <<differed, pc>>

(* no_interrupt(flag) at the end of a section or a collection, after which *)
(* rest is on the stack: a deferred control-C strikes once none is under   *)
(* way.                                                                    *)
Restore(flag, rest, ok) ==
    IF ~flag /\ differed
    THEN differed' = FALSE /\ Err("interrupt", ok)
    ELSE nointerrupt' = flag /\ stack' = rest /\ UNCHANGED <<differed, pc>>

-----------------------------------------------------------------------------
(* repl_driver: the handler is set, then the flags, nointerrupt last; the  *)
(* first thing the loop does is to print its prompt.                       *)
SetHandler ==
    /\ pc = "start" /\ pc' = "driver"
    /\ UNCHANGED <<stack, nointerrupt, differed, errjmpOk, catchFramep, pending>>

Reset ==
    /\ pc = "driver" /\ pc' = "reset"
    /\ catchFramep' = 0 /\ errjmpOk' = TRUE /\ differed' = FALSE
    /\ pending' = FALSE
    /\ UNCHANGED <<stack, nointerrupt>>

Enable ==
    /\ pc = "reset" /\ pc' = "prompt"
    /\ nointerrupt' = FALSE
    /\ UNCHANGED <<stack, differed, errjmpOk, catchFramep, pending>>

Prompt ==
    /\ pc = "prompt" /\ pc' = "run"
    /\ stack' = <<Section(nointerrupt, 0)>> /\ nointerrupt' = TRUE
    /\ UNCHANGED <<differed, errjmpOk, catchFramep, pending>>

(* handle_sigint, which may run between any two steps. *)
ControlC ==
    /\ pc \notin {"start", "fatal", "killed"}
    /\ pending' = TRUE
    /\ IF nointerrupt THEN differed' = TRUE /\ UNCHANGED <<stack, nointerrupt, pc>>
       ELSE Err("interrupt", errjmpOk) /\ UNCHANGED differed
    /\ UNCHANGED <<errjmpOk, catchFramep>>

-----------------------------------------------------------------------------
(* The program's code calls something that enters a section: intern, read, *)
(* print, a file or array operation.                                       *)
EnterSection ==
    /\ Evaluating /\ RoomFor(1)
    /\ \E n \in 0..MaxCells : stack' = Append(stack, Section(nointerrupt, n))
    /\ nointerrupt' = TRUE
    /\ UNCHANGED <<differed, errjmpOk, catchFramep, pc, pending>>

(* Faulty: the section ends by letting interrupts in, whoever called it. *)
EndSectionOpen ==
    /\ On({"section"})
    /\ Restore(FALSE, Below, errjmpOk)
    /\ UNCHANGED <<errjmpOk, catchFramep, pending>>

EndSection ==
    /\ On({"section"})
    /\ Restore(Top.flag, Below, errjmpOk)
    /\ UNCHANGED <<errjmpOk, catchFramep, pending>>

(* An error in the program's code, or in a section (no storage from        *)
(* malloc, not a file, no such file) or in a collection.                   *)
Error ==
    /\ pc = "run"
    /\ Err("error", errjmpOk)
    /\ UNCHANGED <<differed, errjmpOk, catchFramep, pending>>

(* NEWCELL finds no cell, in the program's code or in a section            *)
(* (gc_for_newcell); or the program calls gc (user_gc).                    *)
StartCollection(why) ==
    /\ RoomFor(1)
    /\ \/ /\ Evaluating
          /\ stack' = Append(stack, Collection(nointerrupt, why))
       \/ /\ why = "newcell" /\ On({"section"}) /\ Top.cells > 0
          /\ stack' = Append(Append(Below, Section(Top.flag, Top.cells - 1)),
                             Collection(nointerrupt, why))
    /\ nointerrupt' = TRUE /\ errjmpOk' = FALSE
    /\ UNCHANGED <<differed, catchFramep, pc, pending>>

(* What gc_for_newcell does once it has collected: it runs the hook or     *)
(* allocates a heap, or there is none to allocate.                         *)
AfterCollection ==
    IF Top.why = "user" THEN {Below}
    ELSE {Below, Append(Below, Hook), Append(Below, Allocation)}

(* Faulty: interrupts are let in before errors are caught again. *)
EndCollectionEarly ==
    /\ On({"gc"})
    /\ errjmpOk' = TRUE
    /\ \E rest \in AfterCollection : Restore(Top.flag, rest, errjmpOk)
    /\ UNCHANGED <<catchFramep, pending>>

EndCollection ==
    /\ On({"gc"})
    /\ errjmpOk' = TRUE
    /\ \E rest \in AfterCollection : Restore(Top.flag, rest, TRUE)
    /\ UNCHANGED <<catchFramep, pending>>

(* allocate_aheap is a section of its own. *)
AllocateHeap ==
    /\ On({"allocation"})
    /\ stack' = Append(Below, Section(nointerrupt, 0))
    /\ nointerrupt' = TRUE
    /\ UNCHANGED <<differed, errjmpOk, catchFramep, pc, pending>>

-----------------------------------------------------------------------------
(* *catch: the frame is linked in when its tag has been evaluated. *)
EnterCatch(tag) ==
    /\ Evaluating /\ RoomFor(1)
    /\ stack' = Append(stack, Catch(tag, catchFramep))
    /\ catchFramep' = Len(stack')
    /\ UNCHANGED <<nointerrupt, differed, errjmpOk, pc, pending>>

(* The body of a *catch ends (leval_catch_1), or the hook returns. *)
Return ==
    /\ On({"catch", "hook"})
    /\ stack' = Below
    /\ catchFramep' = IF Top.kind = "catch" THEN stack[catchFramep].next ELSE catchFramep
    /\ UNCHANGED <<nointerrupt, differed, errjmpOk, pc, pending>>

(* The *catch a *throw goes to: the first on the chain with the tag. *)
Target(tag) ==
    LET seek[d \in 0..Len(stack)] ==
          IF d = 0 THEN 0 ELSE IF stack[d].tag = tag THEN d ELSE seek[stack[d].next]
    IN  seek[catchFramep]

Frames == {i \in DOMAIN stack : stack[i].kind = "catch"}
LeavesHook(d) == \E i \in d..Len(stack) : stack[i].kind = "hook"

(* Faulty: the frame that caught a value stays on the chain. *)
ThrowKeepsFrame(tag) ==
    /\ Evaluating
    /\ \E d \in {0} \cup Frames :
         /\ d = Target(tag)
         /\ \/ d = 0 /\ Err("error", errjmpOk) /\ UNCHANGED catchFramep
            \/ /\ d > 0 /\ (LeavesHook(d) => HookThrows)
               /\ stack' = SubSeq(stack, 1, d - 1)
               /\ catchFramep' = d
               /\ UNCHANGED <<nointerrupt, pc>>
    /\ UNCHANGED <<differed, errjmpOk, pending>>

(* *throw: nothing is done for the sections it leaves. *)
Throw(tag) ==
    /\ Evaluating
    /\ \E d \in {0} \cup Frames :
         /\ d = Target(tag)
         /\ \/ d = 0 /\ Err("error", errjmpOk) /\ UNCHANGED catchFramep
            \/ /\ d > 0 /\ (LeavesHook(d) => HookThrows)
               /\ stack' = SubSeq(stack, 1, d - 1)
               /\ catchFramep' = stack[d].next
               /\ UNCHANGED <<nointerrupt, pc>>
    /\ UNCHANGED <<differed, errjmpOk, pending>>

Next == \/ SetHandler \/ Reset \/ Enable \/ Prompt
        \/ ControlC
        \/ EnterSection \/ EndSection \/ Error
        \/ \E why \in {"newcell", "user"} : StartCollection(why)
        \/ EndCollection \/ AllocateHeap
        \/ \E tag \in Tags : EnterCatch(tag) \/ Throw(tag)
        \/ Return

Spec == Init /\ [][Next]_vars

(* Sections and collections are finite pieces of C (in f_getc, if somebody *)
(* types on), and repl_driver runs on; the hook is code of the program, of *)
(* which it is assumed that it ends: nothing at any depth of it comes back *)
(* to its end for ever.                                                    *)
Fairness == /\ WF_vars(SetHandler \/ Reset \/ Enable \/ Prompt)
            /\ WF_vars(EndSection \/ EndCollection \/ AllocateHeap)
            /\ \A d \in 1..MaxDepth :
                  SF_vars(Len(stack) = d /\ LeavesHook(1) /\ Return)

FairSpec == Spec /\ Fairness

-----------------------------------------------------------------------------
Activations ==
    [kind : {"section"}, flag : BOOLEAN, cells : 0..MaxCells]
    \cup [kind : {"gc"}, flag : BOOLEAN, why : {"newcell", "user"}]
    \cup [kind : {"catch"}, tag : Tags, next : 0..MaxDepth]
    \cup {Hook, Allocation}

(* The type invariant. *)
TypeOK == /\ stack \in Seq(Activations)
          /\ Len(stack) <= MaxDepth + 1
          /\ nointerrupt \in BOOLEAN /\ differed \in BOOLEAN
          /\ errjmpOk \in BOOLEAN /\ pending \in BOOLEAN
          /\ catchFramep \in 0..MaxDepth
          /\ pc \in {"start", "driver", "reset", "prompt", "run", "fatal", "killed"}
          /\ pc # "run" => stack = <<>>

(* A control-C never ends the program: whenever it strikes, at once or     *)
(* deferred, err has repl_driver to go back to (handle_sigint, err).       *)
NeverKilled == pc # "killed"

(* A control-C strikes only between sections and collections: while it     *)
(* may, none is under way at any depth of the stack, so that none is left  *)
(* half done by it (no_interrupt).                                         *)
StrikesBetween ==
    (pc = "run" /\ ~nointerrupt) =>
       \A i \in DOMAIN stack : stack[i].kind \notin {"section", "gc"}

(* The chain of catch_framep is the *catch forms under way, innermost      *)
(* first: *throw never jumps into a C frame that has returned.             *)
IsInnermost(s, d, n) == /\ d \in 0..n
                        /\ d > 0 => s[d].kind = "catch"
                        /\ \A i \in (d + 1)..n : s[i].kind # "catch"
Chain(s, d) == /\ IsInnermost(s, d, Len(s))
               /\ \A i \in 1..Len(s) :
                     s[i].kind = "catch" => IsInnermost(s, s[i].next, i - 1)
CatchesLive == pc = "run" => Chain(stack, catchFramep)

(* A control-C gets the program back to the top level, whatever it is      *)
(* doing when it comes, provided that the hook does not *throw past        *)
(* itself: lthrow puts no flag back.                                       *)
Answered == pending ~> (~pending \/ pc = "fatal")
===============================================================================
