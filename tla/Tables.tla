-------------------------------- MODULE Tables --------------------------------
(***************************************************************************)
(* The symbol table and a hash table of one program, whose functions are   *)
(* re-entered through the after-gc form of their own allocations, and      *)
(* those of each other.                                                    *)
(***************************************************************************)
EXTENDS SymbolTable, HashTable

CONSTANT MaxMade       \* bound: symbols and pairs made

vars == <<calls, symbolVars, tableVars>>

Init == calls = <<>> /\ SymbolInit /\ HashInit

Reenter == /\ Collect \/ FormEnds \/ Unwind
           /\ UNCHANGED <<symbolVars, tableVars>>

Bounded == Len(pname') + Len(pairs') <= MaxMade

Next == \/ SymbolNext /\ UNCHANGED tableVars /\ Bounded
        \/ HashNext /\ UNCHANGED symbolVars /\ Bounded
        \/ Reenter

Spec == Init /\ [][Next]_vars
===============================================================================
