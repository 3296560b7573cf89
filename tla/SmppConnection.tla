---- MODULE SmppConnection ----
(***************************************************************************)
(* What the SMPP server promises about each client connection, without     *)
(* goroutines, registry or locks: the session states of SMPP (open, bound  *)
(* in one mode, closed), the fact that a connection is authenticated       *)
(* before it is bound, and the sequence numbers of the deliver_sm PDUs     *)
(* written on it.  SessionRegistry implements this specification.          *)
(***************************************************************************)
EXTENDS Naturals

CONSTANTS
    Conns,       \* the client connections
    BindTypes,   \* transmitter, receiver, transceiver
    Numbers      \* deliver_sm sequence numbers

VARIABLES
    state,           \* [Conns -> {"none","open","binding","closed"} \cup BindTypes]
    authenticated,   \* the connections that have presented good credentials
    delivered        \* [Conns -> [Numbers -> Nat]]: deliver_sm PDUs written, by number

vars == <<state, authenticated, delivered>>

Init ==
    /\ state = [c \in Conns |-> "none"]
    /\ authenticated = {}
    /\ delivered = [c \in Conns |-> [n \in Numbers |-> 0]]

Open(c) ==
    /\ state[c] = "none"
    /\ state' = [state EXCEPT ![c] = "open"]
    /\ UNCHANGED <<authenticated, delivered>>

\* Credentials are accepted only outside a bound state: changing mode takes an unbind.
Authenticate(c) ==
    /\ state[c] = "open"
    /\ state' = [state EXCEPT ![c] = "binding"]
    /\ authenticated' = authenticated \cup {c}
    /\ UNCHANGED delivered

Bind(c) ==
    /\ state[c] = "binding"
    /\ \E t \in BindTypes : state' = [state EXCEPT ![c] = t]
    /\ UNCHANGED <<authenticated, delivered>>

Unbind(c) ==
    /\ state[c] \in BindTypes
    /\ state' = [state EXCEPT ![c] = "open"]
    /\ UNCHANGED <<authenticated, delivered>>

\* The cleanup sweep closes any set of connections at once.
Close ==
    /\ \E S \in SUBSET {c \in Conns : state[c] # "none"} :
          state' = [c \in Conns |-> IF c \in S THEN "closed" ELSE state[c]]
    /\ UNCHANGED <<authenticated, delivered>>

\* A deliver_sm goes to an authenticated, open connection under a number of its own.
Deliver(c) ==
    /\ c \in authenticated
    /\ state[c] # "closed"
    /\ \E n \in Numbers :
          /\ delivered[c][n] = 0
          /\ delivered' = [delivered EXCEPT ![c][n] = 1]
    /\ UNCHANGED <<state, authenticated>>

Next ==
    \/ Close
    \/ \E c \in Conns :
          Open(c) \/ Authenticate(c) \/ Bind(c) \/ Unbind(c) \/ Deliver(c)

Spec == Init /\ [][Next]_vars
====
