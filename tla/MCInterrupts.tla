----------------------------- MODULE MCInterrupts ------------------------------
(***************************************************************************)
(* Small instances of Interrupts for TLC: what a *throw finds depends on   *)
(* the tags of *catch forms only by their being equal or not, so two tags  *)
(* are enough.                                                             *)
(***************************************************************************)
EXTENDS Interrupts

CONSTANTS t1, t2
===============================================================================
