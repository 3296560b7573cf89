---- MODULE MCSmppClient ----
(***************************************************************************)
(* Instances of SmppClient for TLC: its constants are numbers and flags,   *)
(* given in the .cfg files.  The menu's exit, a failed dial and a failed   *)
(* bind end the program, so its behaviours may end.                        *)
(***************************************************************************)
EXTENDS SmppClient, TLC
====
