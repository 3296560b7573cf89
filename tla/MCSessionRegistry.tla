---- MODULE MCSessionRegistry ----
(***************************************************************************)
(* Instances of SessionRegistry for TLC.                                   *)
(***************************************************************************)
EXTENDS SessionRegistry, TLC

Refused ==
    {[type |-> "receiver", id |-> ServerID, goodPassword |-> TRUE, complete |-> FALSE],
     [type |-> "receiver", id |-> ServerID, goodPassword |-> FALSE, complete |-> TRUE]}
    \cup [type: {"receiver"}, id: SystemIDs \ {ServerID}, goodPassword: {TRUE}, complete: {TRUE}]

Accepted(types) ==
    [type: types, id: {ServerID}, goodPassword: {TRUE}, complete: {TRUE}]

\* Each way to be refused (truncated, wrong password, unknown system_id), and an accepted
\* bind of one sending and one receiving type: the code tells receiver and transceiver
\* apart nowhere.
TwoTypes == Refused \cup Accepted({"transmitter", "transceiver"})

\* The same with transceivers only, where the bind type plays no part in the question.
OneType == Refused \cup Accepted({"transceiver"})

\* Connections are interchangeable, and so are sending goroutines (safety runs only).
Symmetry == Permutations(Conns) \cup Permutations(Senders)
====
