-------------------------------- MODULE MCEnv ---------------------------------
(***************************************************************************)
(* A small instance of Env for TLC: lambda lists (x) and (x . y), so that  *)
(* y is a rest parameter, is defined, or is global.                        *)
(***************************************************************************)
EXTENDS Env, TLC

CONSTANTS x, y, v1, v2

OneParameter == [fl |-> <<x>>, rest |-> None]
OneAndRest == [fl |-> <<x>>, rest |-> y]

MCFormals == {OneParameter, OneAndRest}

Interchangeable == Permutations({v1, v2})
===============================================================================
