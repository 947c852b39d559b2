------------------------------ MODULE Collector ------------------------------
(***************************************************************************)
(* What the storage manager promises the interpreter, with no collector in *)
(* sight: cells come from the free ones, the interpreter works on what it  *)
(* can reach, and from time to time all that cannot be reached becomes     *)
(* free at once.  The collector is conservative: stale words of the C      *)
(* stack (pinned) may keep more alive, never less.                         *)
(***************************************************************************)
EXTENDS CellGraph

CONSTANT FREE           \* the type of a free cell

VARIABLES
    type,       \* type of each cell
    slot,       \* the words of each cell
    roots       \* cells the interpreter holds

vars == <<type, slot, roots>>

Live == Reachable(roots, type, slot)

TypeOK == /\ type \in [Cells -> Types \cup {FREE}]
          /\ slot \in [Cells -> [SlotNames -> Word]]
          /\ roots \subseteq Cells

Init == /\ type = [c \in Cells |-> FREE]
        /\ slot = [c \in Cells |-> [s \in SlotNames |-> NIL]]
        /\ roots = {}

(* The interpreter changes what it holds: only to what it could reach. *)
Move == /\ roots' \in SUBSET Live
        /\ UNCHANGED <<type, slot>>

(* A cell of its own is given new contents. *)
Write == /\ \E c \in Live, s \in SlotNames, v \in Live \cup {NIL} :
              slot' = [slot EXCEPT ![c][s] = v]
         /\ UNCHANGED <<type, roots>>

(* A free cell becomes an object of the interpreter's. *)
Create == \E c \in Cells, t \in Types :
            /\ type[c] = FREE
            /\ \E w \in [SlotNames -> Live \cup {NIL}] :
                 slot' = [slot EXCEPT ![c] = w]
            /\ type' = [type EXCEPT ![c] = t]
            /\ roots' \in SUBSET (Live \cup {c})

(* Everything that is reachable neither from the roots nor from the pinned *)
(* cells becomes free; nothing else changes.                               *)
Collect == \E pinned \in SUBSET {c \in Cells : type[c] # FREE} :
             LET kept == Reachable(roots \cup pinned, type, slot)
             IN  /\ type' = [c \in Cells |-> IF c \in kept THEN type[c] ELSE FREE]
                 /\ slot' = [c \in Cells |-> IF c \in kept THEN slot[c]
                                              ELSE [s \in SlotNames |-> NIL]]
                 /\ UNCHANGED roots

Next == Move \/ Write \/ Create \/ Collect

Spec == Init /\ [][Next]_vars

(* Nothing the interpreter can reach is a free cell. *)
ReachableIsLive == \A c \in Live : type[c] # FREE
=============================================================================
