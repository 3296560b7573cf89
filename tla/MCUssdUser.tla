---- MODULE MCUssdUser ----
(***************************************************************************)
(* Instances of UssdUser for TLC.                                          *)
(***************************************************************************)
EXTENDS UssdUser
====
