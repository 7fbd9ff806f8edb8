------------------------------ MODULE Absence ------------------------------
(* Python's None: a file, a field or an answer that is not there.  One      *)
(* constant that the modules which are checked and proved about together    *)
(* share; it is neither a number nor a string.                              *)
EXTENDS Naturals

CONSTANT None

ASSUME NoneIsNoValue == None \notin Nat /\ None \notin STRING
=============================================================================
