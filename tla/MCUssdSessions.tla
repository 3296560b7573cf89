---- MODULE MCUssdSessions ----
(***************************************************************************)
(* Instances of UssdSessions for TLC.                                      *)
(***************************************************************************)
EXTENDS UssdSessions, TLC

\* Requests are interchangeable, and so are the addresses but the empty one (safety
\* runs only).
Symmetry == Permutations(Requests) \cup Permutations(Addrs \ {EmptyAddr})
====
