-------------------------------- MODULE Calls ---------------------------------
(***************************************************************************)
(* C functions that allocate in the middle of what they do.  Any NEWCELL   *)
(* may collect, and gc_for_newcell then evaluates the form in *after-gc*:  *)
(* the whole interpreter, which may call the same function again before    *)
(* the first call goes on.  It may also end by a longjmp, of err to        *)
(* repl_driver or of a *throw of the form to a *catch further out, and     *)
(* the calls in between never go on.                                       *)
(*                                                                         *)
(* A call is a record with the name of its function (proc), the allocation *)
(* it has reached (at), whether that allocation has run the form (gc), and *)
(* its C variables.  What a function does up to its first allocation is    *)
(* done when it is called, and what it does from one to the next is one    *)
(* step.                                                                   *)
(***************************************************************************)
EXTENDS Naturals, Sequences

CONSTANT MaxDepth       \* bound: calls and evaluations of *after-gc* nested

ASSUME DepthAssumption == MaxDepth \in Nat

VARIABLE calls          \* the calls under way, innermost last

AfterGc == [proc |-> "after-gc", at |-> "form", gc |-> FALSE]

Innermost == IF calls = <<>> THEN AfterGc ELSE calls[Len(calls)]
Outer == SubSeq(calls, 1, Len(calls) - 1)

(* The interpreter evaluates the program's code, or that of the form: no C *)
(* function of those modelled is in the middle of something at this level. *)
Evaluating == Innermost = AfterGc

(* The innermost call is one of proc and its allocation `at' has a cell. *)
Allocates(proc, at) ==
    Innermost.proc = proc /\ Innermost.at = at

Begin(call) == /\ Evaluating /\ Len(calls) < MaxDepth
               /\ calls' = Append(calls, call)
Continue(call) == calls' = Append(Outer, call)
Finish == calls' = Outer

(* The allocation of the innermost call collects, and the form begins. *)
Collect ==
    /\ ~Evaluating /\ ~Innermost.gc /\ Len(calls) < MaxDepth
    /\ calls' = Outer \o <<[Innermost EXCEPT !.gc = TRUE], AfterGc>>

FormEnds == calls # <<>> /\ Innermost = AfterGc /\ Finish

(* err: out of storage, a control-C, an error in the form. *)
Fail == calls # <<>> /\ calls' = <<>>

(* *throw in the form, to a *catch in the program or in a form further out. *)
ThrowOut ==
    /\ calls # <<>> /\ Innermost = AfterGc
    /\ \E n \in 0..(Len(calls) - 1) :
          /\ n > 0 => calls[n] = AfterGc
          /\ calls' = SubSeq(calls, 1, n)

(* The innermost calls never go on. *)
Unwind == Fail \/ ThrowOut
===============================================================================
