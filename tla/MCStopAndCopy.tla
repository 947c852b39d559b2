---------------------------- MODULE MCStopAndCopy ----------------------------
(***************************************************************************)
(* Two spaces of two cells, of two words or with data of their own.        *)
(***************************************************************************)
EXTENDS StopAndCopy

Addresses == 1..(2 * HeapSize)
Identities == 1..(HeapSize + 1)
===============================================================================
