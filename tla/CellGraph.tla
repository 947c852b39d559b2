------------------------------ MODULE CellGraph ------------------------------
(***************************************************************************)
(* The heap of the interpreter as a graph: cells, the slots of each type   *)
(* of cell (struct obj, siod.h) that hold other cells, and reachability.   *)
(*                                                                         *)
(* FollowedSlots says which of those slots gc_mark follows.  For most      *)
(* types that is all of them; for traced closures and struct instances it *)
(* not, and the difference is what the storage manager's safety turns on.  *)
(***************************************************************************)
EXTENDS Naturals, FiniteSets

CONSTANTS
    Cells,      \* the cells of all the heaps
    NIL,        \* the null pointer
    Types       \* the types of cell the program uses

AllTypes == {"cons", "symbol", "closure", "closure_traced", "lisp_array",
             "struct_instance", "struct_def", "string", "flonum"}

ASSUME NilAssumption == NIL \notin Cells
ASSUME TypesAssumption == Types \subseteq AllTypes

(* The words of a cell that hold other cells, type by type. *)
SlotsOf(t) ==
    CASE t = "cons" -> {"car", "cdr"}
      [] t = "symbol" -> {"vcell"}
      [] t \in {"closure", "closure_traced"} -> {"code", "env"}
      [] t = "lisp_array" -> {"elt"}
      [] t = "struct_instance" -> {"data", "struct_def_obj"}
      [] t = "struct_def" -> {"field_name_strs", "next"}
      [] OTHER -> {}

(* What gc_mark goes on to mark.  A traced closure has its code marked by  *)
(* the hook ct_gc_mark, which RETURNS the environment, and gc_mark's       *)
(* default case stores that pointer without going round its loop.  The     *)
(* struct_instance case also loads struct_def_obj into ptr and breaks.     *)
FollowedSlots(t) ==
    CASE t = "closure_traced" -> {"code"}
      [] t = "struct_instance" -> {"data"}
      [] OTHER -> SlotsOf(t)

SlotNames == UNION {SlotsOf(t) : t \in Types}

(* Every type the program uses has all its slots followed. *)
FullyMarked == \A t \in Types : FollowedSlots(t) = SlotsOf(t)

Word == Cells \cup {NIL}

(* S is closed under the slots slotsOf names: whatever a member points to  *)
(* is a member.                                                            *)
Closed(S, type, slot) ==
    \A c \in S : \A s \in SlotsOf(type[c]) : slot[c][s] \in S \cup {NIL}

(* The cells reachable from roots: the least closed set that holds them. *)
Reachable(roots, type, slot) ==
    {c \in Cells : \A S \in SUBSET Cells :
                      (roots \subseteq S /\ Closed(S, type, slot)) => c \in S}
=============================================================================
