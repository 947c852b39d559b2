--------------------------------- MODULE Env ----------------------------------
(***************************************************************************)
(* Environments: chains of frames, each a list of formal parameters and a  *)
(* list of actual ones in step with it.  extend_env, envlookup, setvar and *)
(* leval_define, while the after-gc form runs in the middle of a define    *)
(* and evaluates in any environment it can name.                           *)
(*                                                                         *)
(* define adds a variable to a frame by two stores, one to each list, and  *)
(* allocates before each.  `scope' says what each frame's variables should *)
(* be, and `spoilt' which frames were used, or left, half extended: the    *)
(* history of a program that no guard reads.                               *)
(***************************************************************************)
EXTENDS Calls, FiniteSets

CONSTANTS
    Vars,           \* the symbols used as variables
    Values,
    Unbound,        \* unbound_marker
    None,           \* no symbol, no value
    Formals,        \* the parameter lists: [fl |-> <<...>>, rest |-> ...]
    MaxActuals,     \* bound: arguments of a call
    MaxFrames,      \* bound: frames made
    MaxCells        \* bound: conses of lists of actuals made

ASSUME FormalsAssumption ==
    \A formals \in Formals : /\ DOMAIN formals = {"fl", "rest"}
                             /\ formals.fl \in Seq(Vars)
                             /\ formals.rest \in Vars \cup {None}
ASSUME ActualsAssumption == MaxActuals \in Nat

VARIABLES
    frames,         \* the frames made; the environment 0 is NIL
    cells,          \* the values in the conses of the lists of actuals
    vcell,          \* the global value of each symbol
    scope,          \* history: frame by frame what each variable should be
    spoilt          \* history: the frames whose lists may be out of step

envVars == <<frames, cells, vcell, scope, spoilt>>
vars == <<calls, envVars>>

Envs == 0..Len(frames)
NIL == 0
ActualLists == UNION {[1..n -> Values] : n \in 0..MaxActuals}
First(S) == CHOOSE i \in S : \A j \in S : i <= j
After(list, n) == SubSeq(list, n + 1, Len(list))

Init == /\ calls = <<>>
        /\ frames = <<>> /\ cells = <<>>
        /\ vcell = [v \in Vars |-> Unbound]
        /\ scope = <<>> /\ spoilt = {}

-----------------------------------------------------------------------------
(* One round of the loop of envlookup, over one frame: where the variable  *)
(* is.  A formal without an actual is an error, and so is any look at the  *)
(* formals behind it.                                                      *)
InFrame(var, frame) ==
    LET hits == {i \in DOMAIN frame.fl : frame.fl[i] = var}
        seen == IF hits = {} THEN Len(frame.fl) ELSE First(hits)
    IN  IF seen > Len(frame.al) THEN [is |-> "error"]
        ELSE IF hits # {} THEN [is |-> "cell", cell |-> frame.al[seen]]
        ELSE IF frame.rest = var THEN [is |-> "fresh", list |-> After(frame.al, seen)]
        ELSE [is |-> "none"]

(* The frames envlookup may go through from env on, in their order. *)
Chain(env) == LET chain[f \in Envs] ==
                    IF f = NIL THEN <<>> ELSE <<f>> \o chain[frames[f].up]
              IN  chain[env]
Within(env) == {Chain(env)[i] : i \in DOMAIN Chain(env)}

(* The first frame of the chain that Has(frame), or NIL. *)
FirstFrame(env, Has(_)) ==
    LET on == {i \in DOMAIN Chain(env) : Has(Chain(env)[i])}
    IN  IF on = {} THEN NIL ELSE Chain(env)[First(on)]

Envlookup(var, env) ==
    LET f == FirstFrame(env, LAMBDA g : InFrame(var, frames[g]).is # "none")
    IN  IF f = NIL THEN [is |-> "none"] ELSE InFrame(var, frames[f])

(* leval of a variable.  That of a rest parameter is in a fresh cons. *)
Denotes(var, env) ==
    LET al == Envlookup(var, env)
    IN  CASE al.is = "none" -> vcell[var]
          [] al.is = "cell" -> cells[al.cell]
          [] al.is = "fresh" -> [k \in DOMAIN al.list |-> cells[al.list[k]]]
          [] al.is = "error" -> None

-----------------------------------------------------------------------------
(* What the program means by its variables (history). *)
Meant(formals, actuals) ==
    [v \in Vars |->
       LET hits == {i \in DOMAIN formals.fl : formals.fl[i] = v}
           seen == IF hits = {} THEN Len(formals.fl) ELSE First(hits)
       IN  IF seen > Len(actuals) THEN [is |-> "error"]
           ELSE IF hits # {} THEN [is |-> "bound", value |-> actuals[seen]]
           ELSE IF formals.rest = v THEN [is |-> "rest", value |-> After(actuals, seen)]
           ELSE [is |-> "none"]]

Nearest(var, env) == FirstFrame(env, LAMBDA g : scope[g][var].is # "none")
Means(var, env) ==
    LET f == Nearest(var, env)
    IN  IF f = NIL THEN vcell[var]
        ELSE IF scope[f][var].is = "error" THEN None ELSE scope[f][var].value

Assigned(var, val, env) ==
    LET f == Nearest(var, env)
    IN  IF f = NIL \/ scope[f][var].is # "bound" THEN scope
        ELSE [scope EXCEPT ![f][var].value = val]

(* The frames between the two stores of a define: using one spoils it. *)
Half(list) == {list[i].env : i \in {j \in DOMAIN list :
                    list[j].proc = "define" /\ list[j].at = "actuals"}}
Spoil(env) == spoilt' = spoilt \cup (Within(env) \cap Half(calls))

-----------------------------------------------------------------------------
(* A closure is called, or a let form entered: leval_args has made a fresh *)
(* list, and extend_env the frame.                                         *)
ExtendEnv(formals, actuals, env) ==
    /\ Evaluating /\ Len(frames) < MaxFrames
    /\ Len(cells) + Len(actuals) <= MaxCells
    /\ cells' = cells \o actuals
    /\ frames' = Append(frames, [fl |-> formals.fl, rest |-> formals.rest, up |-> env,
                                 al |-> [k \in DOMAIN actuals |-> Len(cells) + k]])
    /\ scope' = Append(scope, Meant(formals, actuals))
    /\ UNCHANGED <<calls, vcell, spoilt>>

(* setvar.  What it stores in the fresh cons for a rest parameter is lost. *)
Setvar(var, val, env) ==
    LET al == Envlookup(var, env) IN
    /\ Evaluating /\ al.is # "error"
    /\ IF al.is = "none" THEN vcell' = [vcell EXCEPT ![var] = val] ELSE UNCHANGED vcell
    /\ IF al.is = "cell" THEN cells' = [cells EXCEPT ![al.cell] = val] ELSE UNCHANGED cells
    /\ scope' = Assigned(var, val, env) /\ Spoil(env)
    /\ UNCHANGED <<calls, frames>>

(* leval_define of a variable that is in no frame of env: the list of      *)
(* formals is read, and the cons of var onto it allocated.  (Of one that   *)
(* is in a frame, or at the top level, it does what set! does.)            *)
Define(var, val, env) ==
    /\ env # NIL /\ Envlookup(var, env).is = "none" /\ Len(cells) < MaxCells
    /\ Begin([proc |-> "define", at |-> "formals", gc |-> FALSE,
              var |-> var, val |-> val, env |-> env, list |-> frames[env].fl])
    /\ Spoil(env)
    /\ UNCHANGED <<frames, cells, vcell, scope>>

(* The frame's variables with the one defined, and without those that the  *)
(* store drops from its formals fl, which the form put there meanwhile.    *)
Extended(meant, fl) ==
    [v \in Vars |->
       IF v = Innermost.var THEN [is |-> "bound", value |-> Innermost.val]
       ELSE IF \E i \in 1..(Len(fl) - Len(Innermost.list)) : fl[i] = v
       THEN [is |-> "none"] ELSE meant[v]]

(* setcar(tmp, cons(var, car(tmp))); the list of actuals is read before    *)
(* the next cons allocates.                                                *)
StoreFormals ==
    /\ Allocates("define", "formals")
    /\ LET env == Innermost.env IN
       /\ frames' = [frames EXCEPT ![env].fl = <<Innermost.var>> \o Innermost.list]
       /\ spoilt' = IF frames[env].fl = Innermost.list THEN spoilt ELSE spoilt \cup {env}
       /\ scope' = [scope EXCEPT ![env] = Extended(@, frames[env].fl)]
       /\ Continue([Innermost EXCEPT !.at = "actuals", !.gc = FALSE, !.list = frames[env].al])
    /\ UNCHANGED <<cells, vcell>>

(* Faulty: the new actual is put last. *)
StoreActualsLast ==
    /\ Allocates("define", "actuals") /\ Len(cells) < MaxCells
    /\ LET env == Innermost.env IN
       /\ cells' = Append(cells, Innermost.val)
       /\ frames' = [frames EXCEPT ![env].al = Innermost.list \o <<Len(cells')>>]
       /\ spoilt' = IF frames[env].al = Innermost.list THEN spoilt ELSE spoilt \cup {env}
    /\ Finish
    /\ UNCHANGED <<vcell, scope>>

(* setcdr(tmp, cons(val, cdr(tmp))) *)
StoreActuals ==
    /\ Allocates("define", "actuals") /\ Len(cells) < MaxCells
    /\ LET env == Innermost.env IN
       /\ cells' = Append(cells, Innermost.val)
       /\ frames' = [frames EXCEPT ![env].al = <<Len(cells')>> \o Innermost.list]
       /\ spoilt' = IF frames[env].al = Innermost.list THEN spoilt ELSE spoilt \cup {env}
    /\ Finish
    /\ UNCHANGED <<vcell, scope>>

(* The form, and the longjmps, which leave a frame half extended for good. *)
Reenter == (Collect \/ FormEnds) /\ UNCHANGED envVars
Leave == /\ Unwind
         /\ spoilt' = spoilt \cup (Half(calls) \ Half(calls'))
         /\ UNCHANGED <<frames, cells, vcell, scope>>

Next == \/ \E env \in Envs, formals \in Formals, actuals \in ActualLists :
               ExtendEnv(formals, actuals, env)
        \/ \E env \in Envs, var \in Vars, val \in Values :
               Setvar(var, val, env) \/ Define(var, val, env)
        \/ StoreFormals \/ StoreActuals
        \/ Reenter \/ Leave

Spec == Init /\ [][Next]_vars

-----------------------------------------------------------------------------
(* In every environment each variable denotes what lexical scope says: the *)
(* value last defined or assigned for it in the nearest frame that binds   *)
(* it, the extra arguments for a rest parameter, an error for a missing    *)
(* one.  So it is unless a frame on the way has been left half extended,   *)
(* by an error or a *throw between the two stores of a define, or was used *)
(* or extended by the after-gc form in the middle of one.                  *)
Lexical ==
    \A env \in Envs, var \in Vars :
       Within(env) \cap (spoilt \cup Half(calls)) = {} =>
          Denotes(var, env) = Means(var, env)
===============================================================================
