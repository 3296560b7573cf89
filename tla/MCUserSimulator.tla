---- MODULE MCUserSimulator ----
(***************************************************************************)
(* Instances of UserSimulator for TLC.                                     *)
(***************************************************************************)
EXTENDS UserSimulator
====
