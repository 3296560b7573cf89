---- MODULE MCServerLocks ----
(***************************************************************************)
(* Instances of ServerLocks for TLC.                                       *)
(***************************************************************************)
EXTENDS ServerLocks
====
