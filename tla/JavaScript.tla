---------------------------- MODULE JavaScript ----------------------------
(***************************************************************************)
(* What every module takes from the language: null and undefined.          *)
(***************************************************************************)
EXTENDS Integers

CONSTANT None

ASSUME NoneAssumption == None \notin Int
=============================================================================
