---- MODULE SessionRegistry ----
(***************************************************************************)
(* The registry of bound clients in server/server.go: one goroutine per    *)
(* client connection (handleConnection), the map s.sessions from system_id *)
(* to session, the goroutines that call SendDeliverSM, and the 30-second   *)
(* sweep cleanupSessions.                                                  *)
(*                                                                         *)
(* A step is what a goroutine does between two points at which another one *)
(* can observe or change what it uses.  A PDU is read in one step; setting *)
(* lastActivity and the part of the handler that touches only the          *)
(* connection's own session are the next, and the sweep may come between.  *)
(* The fields of Session are read by other goroutines without a lock, so   *)
(* the assignments of handleBind that they can tell apart are steps of     *)
(* their own, and so are the lookup, the test of session.bound, the        *)
(* sequence number and the write of SendDeliverSM.                         *)
(*                                                                         *)
(* Abstracted: PDU bodies (but for the fields of a bind), the texts, USSD  *)
(* sessions and delivery receipts (modules of their own), the five-minute  *)
(* clock (a connection goes idle at any moment until its next PDU).        *)
(***************************************************************************)
EXTENDS Integers, FiniteSets

CONSTANTS
    Conns,       \* client connections, each with its handleConnection goroutine
    Senders,     \* goroutines that may call SendDeliverSM
    SystemIDs,   \* system_id values a client may present
    ServerID,    \* the configured system_id
    BindPDUs,    \* the bind requests that arrive
    None,        \* no session, no target
    MaxSeq       \* bound: deliver_sm PDUs numbered per connection (2^32 in the code)

BindTypes == {"transmitter", "receiver", "transceiver"}

\* Bind types a user message may be routed to (processUserMessage).
Receiving == {"receiver", "transceiver"}

ASSUME ConstantsAssumption ==
    /\ ServerID \in SystemIDs
    /\ None \notin SystemIDs \cup Conns \cup BindTypes
    /\ MaxSeq \in Nat
    /\ BindPDUs \subseteq
         [type: BindTypes, id: SystemIDs, goodPassword: BOOLEAN, complete: BOOLEAN]

VARIABLES
    pc,         \* [Conns -> Location]: where handleConnection is
    closed,     \* [Conns -> BOOLEAN]: conn.Close() was called on the server side
    idle,       \* [Conns -> BOOLEAN]: lastActivity is more than 5 minutes ago
    sysId,      \* [Conns -> SystemIDs \cup {None}]: session.systemID
    bound,      \* [Conns -> BOOLEAN]: session.bound
    bindType,   \* [Conns -> BindTypes \cup {None}]: session.bindType
    asked,      \* [Conns -> BindTypes \cup {None}]: bind type of the bind being handled
    seqNo,      \* [Conns -> 0..MaxSeq]: session.sequenceNo
    sessions,   \* [SystemIDs -> Conns \cup {None}]: s.sessions
    spc,        \* [Senders -> SLocation]: where SendDeliverSM is
    target,     \* [Senders -> SystemIDs \cup {None}]: its systemID argument
    sess,       \* [Senders -> Conns \cup {None}]: the session pointer it holds
    seq,        \* [Senders -> 0..MaxSeq]: its sequence number
    delivered   \* [Conns -> [1..MaxSeq -> Nat]]: deliver_sm PDUs written, by number

connVars   == <<pc, closed, idle, sysId, bound, bindType, asked>>
senderVars == <<spc, target, sess, seq>>
vars == <<pc, closed, idle, sysId, bound, bindType, asked, seqNo, sessions,
          spc, target, sess, seq, delivered>>

Location  == {"new", "read", "received", "setType", "store", "respond", "exit", "close", "done"}
SLocation == {"idle", "lookup", "check", "seq", "write"}

----
Init ==
    /\ pc = [c \in Conns |-> "new"]
    /\ closed = [c \in Conns |-> FALSE]
    /\ idle = [c \in Conns |-> FALSE]
    /\ sysId = [c \in Conns |-> None]
    /\ bound = [c \in Conns |-> FALSE]
    /\ bindType = [c \in Conns |-> None]
    /\ asked = [c \in Conns |-> None]
    /\ seqNo = [c \in Conns |-> 0]
    /\ sessions = [id \in SystemIDs |-> None]
    /\ spc = [s \in Senders |-> "idle"]
    /\ target = [s \in Senders |-> None]
    /\ sess = [s \in Senders |-> None]
    /\ seq = [s \in Senders |-> 0]
    /\ delivered = [c \in Conns |-> [n \in 1..MaxSeq |-> 0]]

----
(* The connection goroutine. *)

\* Start accepts and handleConnection builds a fresh Session.
Accept(c) ==
    /\ pc[c] = "new"
    /\ pc' = [pc EXCEPT ![c] = "read"]
    /\ UNCHANGED <<closed, idle, sysId, bound, bindType, asked, seqNo, sessions,
                   senderVars, delivered>>

\* readPDU returns a PDU.
ReadPDU(c) ==
    /\ pc[c] = "read"
    /\ ~closed[c]
    /\ pc' = [pc EXCEPT ![c] = "received"]
    /\ UNCHANGED <<closed, idle, sysId, bound, bindType, asked, seqNo, sessions,
                   senderVars, delivered>>

\* lastActivity is now, and the handler of the PDU ends at location next; the sweep may
\* have closed the connection meanwhile.
Receive(c, next) ==
    /\ pc[c] = "received"
    /\ idle' = [idle EXCEPT ![c] = FALSE]
    /\ pc' = [pc EXCEPT ![c] = next]

\* readPDU fails: the peer has gone, or the sweep has closed the connection.
ReadFail(c) ==
    /\ pc[c] = "read"
    /\ pc' = [pc EXCEPT ![c] = "exit"]
    /\ UNCHANGED <<closed, idle, sysId, bound, bindType, asked, seqNo, sessions,
                   senderVars, delivered>>

\* handleBind answers ALYBND, INVMSGLEN, INVSYSID or INVPASWD and changes nothing.
RefuseBind(c) ==
    /\ \E p \in BindPDUs :
          bound[c] \/ ~p.complete \/ p.id # ServerID \/ ~p.goodPassword
    /\ Receive(c, "respond")
    /\ UNCHANGED <<closed, sysId, bound, bindType, asked, seqNo, sessions,
                   senderVars, delivered>>

\* handleBind accepts: systemID, password and bound are assigned.
AcceptBind(c) ==
    /\ ~bound[c]
    /\ \E p \in BindPDUs :
          /\ p.complete /\ p.id = ServerID /\ p.goodPassword
          /\ sysId' = [sysId EXCEPT ![c] = p.id]
          /\ asked' = [asked EXCEPT ![c] = p.type]
    /\ bound' = [bound EXCEPT ![c] = TRUE]
    /\ Receive(c, "setType")
    /\ UNCHANGED <<closed, bindType, seqNo, sessions, senderVars, delivered>>

\* Mutant of SetBindType: bindType is the command_id of the response to come.
SetBindTypeResp(c) ==
    /\ pc[c] = "setType"
    /\ bindType' = [bindType EXCEPT ![c] = "bind_resp"]
    /\ asked' = [asked EXCEPT ![c] = None]
    /\ pc' = [pc EXCEPT ![c] = "store"]
    /\ UNCHANGED <<closed, idle, sysId, bound, seqNo, sessions, senderVars, delivered>>

\* handleBind: session.bindType = pdu.Header.CommandID
SetBindType(c) ==
    /\ pc[c] = "setType"
    /\ bindType' = [bindType EXCEPT ![c] = asked[c]]
    /\ asked' = [asked EXCEPT ![c] = None]
    /\ pc' = [pc EXCEPT ![c] = "store"]
    /\ UNCHANGED <<closed, idle, sysId, bound, seqNo, sessions, senderVars, delivered>>

\* handleBind: s.sessions[systemID] = session, whoever was there before.
StoreSession(c) ==
    /\ pc[c] = "store"
    /\ sessions' = [sessions EXCEPT ![sysId[c]] = c]
    /\ pc' = [pc EXCEPT ![c] = "respond"]
    /\ UNCHANGED <<closed, idle, sysId, bound, bindType, asked, seqNo,
                   senderVars, delivered>>

\* handleUnbind: the session is no longer bound and stays in the registry.
HandleUnbind(c) ==
    /\ bound' = [bound EXCEPT ![c] = FALSE]
    /\ Receive(c, "respond")
    /\ UNCHANGED <<closed, sysId, bindType, asked, seqNo, sessions, senderVars, delivered>>

\* handleSubmitSM: unless unbound or unparsable, the message may start an automatic
\* reply and a delivery receipt, each a call of SendDeliverSM(session.systemID).
HandleSubmit(c) ==
    /\ \E S \in SUBSET {s \in Senders : spc[s] = "idle"} :
          /\ S = {} \/ (bound[c] /\ Cardinality(S) <= 2)
          /\ spc' = [s \in Senders |-> IF s \in S THEN "lookup" ELSE spc[s]]
          /\ target' = [s \in Senders |-> IF s \in S THEN sysId[c] ELSE target[s]]
    /\ Receive(c, "respond")
    /\ UNCHANGED <<closed, sysId, bound, bindType, asked, seqNo, sessions,
                   sess, seq, delivered>>

\* handleEnquireLink and the generic_nack of handlePDU: an answer, no other effect.
HandleEnquireLink(c) ==
    /\ Receive(c, "respond")
    /\ UNCHANGED <<closed, sysId, bound, bindType, asked, seqNo, sessions,
                   senderVars, delivered>>

\* handleDeliverSMResp only logs.
HandleDeliverSMResp(c) ==
    /\ Receive(c, "read")
    /\ UNCHANGED <<closed, sysId, bound, bindType, asked, seqNo, sessions,
                   senderVars, delivered>>

\* sendPDU of the answer; its error makes handleConnection leave the loop.
Respond(c) ==
    /\ pc[c] = "respond"
    /\ \E next \in {"read", "exit"} :
          /\ closed[c] => next = "exit"
          /\ pc' = [pc EXCEPT ![c] = next]
    /\ UNCHANGED <<closed, idle, sysId, bound, bindType, asked, seqNo, sessions,
                   senderVars, delivered>>

\* Mutant of ExitLoop: only a session that is still bound is removed.
ExitLoopIfBound(c) ==
    /\ pc[c] = "exit"
    /\ sessions' = [id \in SystemIDs |->
                       IF bound[c] /\ id = sysId[c] THEN None ELSE sessions[id]]
    /\ pc' = [pc EXCEPT ![c] = "close"]
    /\ UNCHANGED <<closed, idle, sysId, bound, bindType, asked, seqNo,
                   senderVars, delivered>>

\* Mutant of ExitLoop: the server's own system_id is removed, bound or never bound.
ExitLoopAlways(c) ==
    /\ pc[c] = "exit"
    /\ sessions' = [sessions EXCEPT ![ServerID] = None]
    /\ pc' = [pc EXCEPT ![c] = "close"]
    /\ UNCHANGED <<closed, idle, sysId, bound, bindType, asked, seqNo,
                   senderVars, delivered>>

\* handleConnection leaves: the entry of the session's system_id is deleted, by name.
ExitLoop(c) ==
    /\ pc[c] = "exit"
    /\ sessions' = [id \in SystemIDs |-> IF id = sysId[c] THEN None ELSE sessions[id]]
    /\ pc' = [pc EXCEPT ![c] = "close"]
    /\ UNCHANGED <<closed, idle, sysId, bound, bindType, asked, seqNo,
                   senderVars, delivered>>

\* The deferred conn.Close() of handleConnection.
CloseConn(c) ==
    /\ pc[c] = "close"
    /\ closed' = [closed EXCEPT ![c] = TRUE]
    /\ pc' = [pc EXCEPT ![c] = "done"]
    /\ UNCHANGED <<idle, sysId, bound, bindType, asked, seqNo, sessions,
                   senderVars, delivered>>

----
(* Time and the sweep. *)

\* Five minutes pass since the last PDU: the client is silent, or it does not take the
\* answer and the handler is blocked in the write, or the handler waits for s.mutex.
GoIdle(c) ==
    /\ pc[c] \notin {"new", "done"}
    /\ ~idle[c]
    /\ idle' = [idle EXCEPT ![c] = TRUE]
    /\ UNCHANGED <<pc, closed, sysId, bound, bindType, asked, seqNo, sessions,
                   senderVars, delivered>>

Stale(id) == sessions[id] # None /\ idle[sessions[id]]

\* Mutant of Cleanup: stale entries are removed and their sockets stay open.
CleanupKeepsSocket ==
    /\ \E id \in SystemIDs : Stale(id)
    /\ sessions' = [id \in SystemIDs |-> IF Stale(id) THEN None ELSE sessions[id]]
    /\ UNCHANGED <<connVars, seqNo, senderVars, delivered>>

\* cleanupSessions, one tick under s.mutex: close and remove the stale entries.
Cleanup ==
    /\ \E id \in SystemIDs : Stale(id)
    /\ closed' = [c \in Conns |->
                    closed[c] \/ \E id \in SystemIDs : sessions[id] = c /\ Stale(id)]
    /\ sessions' = [id \in SystemIDs |-> IF Stale(id) THEN None ELSE sessions[id]]
    /\ UNCHANGED <<pc, idle, sysId, bound, bindType, asked, seqNo, senderVars, delivered>>

----
(* SendDeliverSM and its callers. *)

\* The client processUserMessage would route to under system_id id.
Routable(id) ==
    /\ sessions[id] # None
    /\ bound[sessions[id]]
    /\ bindType[sessions[id]] \in Receiving

\* processUserMessage finds a bound receiver or transceiver and calls SendDeliverSM.
UserMessage(s) ==
    /\ spc[s] = "idle"
    /\ \E id \in SystemIDs :
          /\ Routable(id)
          /\ target' = [target EXCEPT ![s] = id]
    /\ spc' = [spc EXCEPT ![s] = "lookup"]
    /\ UNCHANGED <<connVars, seqNo, sessions, sess, seq, delivered>>

\* SendDeliverSM returns, with or without an error.
Finish(s) ==
    /\ spc' = [spc EXCEPT ![s] = "idle"]
    /\ target' = [target EXCEPT ![s] = None]
    /\ sess' = [sess EXCEPT ![s] = None]
    /\ seq' = [seq EXCEPT ![s] = 0]

\* SendDeliverSM reads the registry under the read lock and releases it.
Lookup(s) ==
    /\ spc[s] = "lookup"
    /\ sessions[target[s]] # None
    /\ sess' = [sess EXCEPT ![s] = sessions[target[s]]]
    /\ spc' = [spc EXCEPT ![s] = "check"]
    /\ UNCHANGED <<connVars, seqNo, sessions, target, seq, delivered>>

\* "session not found or not bound", first half.
NotFound(s) ==
    /\ spc[s] = "lookup"
    /\ sessions[target[s]] = None
    /\ Finish(s)
    /\ UNCHANGED <<connVars, seqNo, sessions, delivered>>

\* The unlocked test of session.bound.
CheckBound(s) ==
    /\ spc[s] = "check"
    /\ bound[sess[s]]
    /\ spc' = [spc EXCEPT ![s] = "seq"]
    /\ UNCHANGED <<connVars, seqNo, sessions, target, sess, seq, delivered>>

\* "session not found or not bound", second half.
NotBound(s) ==
    /\ spc[s] = "check"
    /\ ~bound[sess[s]]
    /\ Finish(s)
    /\ UNCHANGED <<connVars, seqNo, sessions, delivered>>

\* Mutant of TakeSeq: without session.mutex two goroutines may read the same number.
TakeSeqRace(s) ==
    /\ spc[s] = "seq"
    /\ seqNo[sess[s]] < MaxSeq
    /\ seqNo' = [seqNo EXCEPT ![sess[s]] = @ + 1]
    /\ \E t \in {u \in Senders : spc[u] = "seq" /\ sess[u] = sess[s]} :
          /\ seq' = [u \in Senders |-> IF u \in {s, t} THEN seqNo[sess[s]] + 1 ELSE seq[u]]
          /\ spc' = [u \in Senders |-> IF u \in {s, t} THEN "write" ELSE spc[u]]
    /\ UNCHANGED <<connVars, sessions, target, sess, delivered>>

\* sequenceNo++ under session.mutex; MaxSeq bounds the model.
TakeSeq(s) ==
    /\ spc[s] = "seq"
    /\ seqNo[sess[s]] < MaxSeq
    /\ seqNo' = [seqNo EXCEPT ![sess[s]] = @ + 1]
    /\ seq' = [seq EXCEPT ![s] = seqNo[sess[s]] + 1]
    /\ spc' = [spc EXCEPT ![s] = "write"]
    /\ UNCHANGED <<connVars, sessions, target, sess, delivered>>

\* sendPDU writes the deliver_sm under session.mutex.
WriteDeliver(s) ==
    /\ spc[s] = "write"
    /\ ~closed[sess[s]]
    /\ delivered' = [delivered EXCEPT ![sess[s]][seq[s]] = @ + 1]
    /\ Finish(s)
    /\ UNCHANGED <<connVars, seqNo, sessions>>

\* sendPDU fails: the connection is closed here or by the peer.
WriteFail(s) ==
    /\ spc[s] = "write"
    /\ Finish(s)
    /\ UNCHANGED <<connVars, seqNo, sessions, delivered>>

----
\* handlePDU
HandlePDU(c) ==
    \/ RefuseBind(c) \/ AcceptBind(c) \/ HandleUnbind(c) \/ HandleSubmit(c)
    \/ HandleEnquireLink(c) \/ HandleDeliverSMResp(c)

Handler(c) ==
    \/ Accept(c) \/ ReadPDU(c) \/ ReadFail(c) \/ HandlePDU(c) \/ SetBindType(c)
    \/ StoreSession(c) \/ Respond(c) \/ ExitLoop(c) \/ CloseConn(c)

Sender(s) ==
    \/ UserMessage(s) \/ Lookup(s) \/ NotFound(s) \/ CheckBound(s) \/ NotBound(s)
    \/ TakeSeq(s) \/ WriteDeliver(s) \/ WriteFail(s)

Next ==
    \/ Cleanup
    \/ \E c \in Conns : Handler(c) \/ GoIdle(c)
    \/ \E s \in Senders : Sender(s)

Spec == Init /\ [][Next]_vars

\* A running handler is scheduled, a read or write on a closed connection returns,
\* and the 30-second ticker fires.  Nothing makes a peer send or hang up.
Fairness ==
    /\ WF_vars(Cleanup)
    /\ \A c \in Conns :
          WF_vars(\/ HandlePDU(c) \/ SetBindType(c) \/ StoreSession(c)
                  \/ ExitLoop(c) \/ CloseConn(c)
                  \/ (closed[c] /\ (ReadFail(c) \/ Respond(c))))

FairSpec == Spec /\ Fairness

----
(* Properties. *)

\* Every variable keeps its type; s.sessions maps a system_id to a session or nothing.
TypeOK ==
    /\ pc \in [Conns -> Location]
    /\ closed \in [Conns -> BOOLEAN]
    /\ idle \in [Conns -> BOOLEAN]
    /\ sysId \in [Conns -> SystemIDs \cup {None}]
    /\ bound \in [Conns -> BOOLEAN]
    /\ bindType \in [Conns -> BindTypes \cup {None}]
    /\ asked \in [Conns -> BindTypes \cup {None}]
    /\ seqNo \in [Conns -> 0..MaxSeq]
    /\ sessions \in [SystemIDs -> Conns \cup {None}]
    /\ spc \in [Senders -> SLocation]
    /\ target \in [Senders -> SystemIDs \cup {None}]
    /\ sess \in [Senders -> Conns \cup {None}]
    /\ seq \in [Senders -> 0..MaxSeq]
    /\ delivered \in [Conns -> [1..MaxSeq -> Nat]]

\* A session whose goroutine has left handleConnection's cleanup is never in the
\* registry, although entries are deleted by system_id and the sweep deletes too: no
\* later lookup finds a dead client and the map does not leak.
NoDeadEntry ==
    \A id \in SystemIDs :
        sessions[id] # None => pc[sessions[id]] \notin {"new", "close", "done"}

\* A bound client that waits for PDUs on an open connection can be found under its
\* system_id, unless another connection has bound with the same system_id: neither
\* unbinding and binding again, nor the sweep, nor a refused bind makes it unreachable.
UnreachableOnlyByRebind ==
    \A c \in Conns :
        pc[c] = "read" /\ bound[c] /\ ~closed[c] /\ sessions[ServerID] # c
          => \E d \in Conns \ {c} : sysId[d] = ServerID

\* The session states of SMPP as the abstract specification sees them.
SessionState(c) ==
    IF pc[c] = "new" THEN "none"
    ELSE IF closed[c] THEN "closed"
    ELSE IF pc[c] = "setType" THEN "binding"
    ELSE IF bound[c] THEN bindType[c]
    ELSE "open"

Connection == INSTANCE SmppConnection WITH
    Numbers <- 1..MaxSeq,
    state <- [c \in Conns |-> SessionState(c)],
    authenticated <- {c \in Conns : sysId[c] # None}

\* Every connection goes through the SMPP session states: credentials before a bind, an
\* unbind before the next bind, nothing after a close; a deliver_sm is written only on
\* an authenticated connection and never under a number used before.
ImplementsConnection == Connection!Spec

\* A silent client that is the only one ever bound is closed and its goroutine ends
\* (cleanupSessions closes the socket, the read fails, handleConnection cleans up).
IdleSoleClientEvicted ==
    \A c \in Conns :
        (pc[c] = "read" /\ bound[c] /\ idle[c] /\ \A d \in Conns \ {c} : sysId[d] = None)
          ~> (pc[c] = "done" \/ ~idle[c] \/ \E d \in Conns \ {c} : sysId[d] # None)

----
(* What a comment of the code says, and the code does not do. *)

\* "Find a bound SMPP client (ESME) to deliver the message to": when the only open
\* connection is one that has bound as a receiver or transceiver, and waits for PDUs,
\* processUserMessage finds it.
BoundReceiverFound ==
    \A c \in Conns :
        /\ pc[c] = "read" /\ ~closed[c] /\ bound[c] /\ bindType[c] \in Receiving
        /\ \A d \in Conns \ {c} : pc[d] \in {"new", "done"}
        => \E id \in SystemIDs : Routable(id)
====
