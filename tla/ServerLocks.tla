---- MODULE ServerLocks ----
(***************************************************************************)
(* Who waits for whom in server/server.go: the goroutines that use s.mutex *)
(* and the mutexes of sessions, and the writes to users and clients that   *)
(* wait when the peer does not read.                                       *)
(*                                                                         *)
(* A goroutine serves one user connection (handleUserConnection) or one    *)
(* client connection (handleConnection); others send deliver_sm (receipts, *)
(* auto-replies), and one sweeps idle clients.  Asking for a lock and      *)
(* having it are separate steps.                                           *)
(*                                                                         *)
(* Abstracted: what is sent; which user messages and PDUs are well formed; *)
(* when a client is bound (SessionRegistry says it; here a lookup in       *)
(* s.sessions may find nothing that is bound); how much a connection takes *)
(* before a write to it waits (a full peer is one that does not read and   *)
(* has no room left).  Only clients with the configured system_id bind, so *)
(* s.sessions has one entry at most.                                       *)
(***************************************************************************)
CONSTANTS
    Users,     \* user connections, each with its goroutine
    Clients,   \* client connections, each with its goroutine and session
    Senders,   \* other goroutines that call SendDeliverSM
    Sweeper,   \* the goroutine of cleanupSessions
    None       \* no goroutine, no session

Peers == Users \cup Clients
Threads == Peers \cup Senders \cup {Sweeper}
Moods == {"reading", "full", "gone"}

ASSUME ConstantsAssumption ==
    /\ Users \cap Clients = {} /\ Peers \cap Senders = {}
    /\ Sweeper \notin Peers \cup Senders
    /\ None \notin Threads

VARIABLES
    pc,               \* [Threads -> Location]
    writer,           \* Threads \cup {None}: who has or is next to have s.mutex.Lock
    readers,          \* SUBSET Threads: who has s.mutex.RLock
    waiting,          \* SUBSET Threads: who came for RLock after the writer
    userConnections,  \* SUBSET Users: s.userConnections
    registered,       \* Clients \cup {None}: the entry of s.sessions
    identified,       \* SUBSET Clients: sessions whose systemID is set
    idle,             \* SUBSET Clients: lastActivity is more than 5 minutes ago
    held,             \* [Clients -> Threads \cup {None}]: who has session.mutex
    session,          \* [Threads -> Clients \cup {None}]: session being written to
    todo,             \* [Clients -> SUBSET Users]: left of the loop of SendToUser
    closed,           \* SUBSET Peers: connections the server has closed
    mood              \* [Peers -> Moods]: what the other end does

mutexVars == <<writer, readers, waiting>>
mapVars   == <<userConnections, registered, identified>>
vars == <<pc, writer, readers, waiting, userConnections, registered, identified, idle,
          held, session, todo, closed, mood>>

Location == {"read", "idle", "add", "adding", "remove", "removing", "routing",
             "bind", "binding", "exit", "exiting", "sending", "writing",
             "sweep", "sweeping", "lookup", "looking", "pdu", "write", "close",
             "done"}

\* Every connection has been accepted and its goroutine started.
Init ==
    /\ pc = [t \in Threads |-> IF t \in Users THEN "add"
                              ELSE IF t \in Clients THEN "read" ELSE "idle"]
    /\ writer = None /\ readers = {} /\ waiting = {}
    /\ userConnections = {} /\ registered = None /\ identified = {}
    /\ idle = {}
    /\ held = [c \in Clients |-> None]
    /\ session = [t \in Threads |-> None]
    /\ todo = [c \in Clients |-> {}]
    /\ closed = {}
    /\ mood = [p \in Peers |-> "reading"]

Goes(t, from, to) == pc[t] = from /\ pc' = [pc EXCEPT ![t] = to]

----
(* s.mutex, a sync.RWMutex: a writer that waits keeps new readers out, and when it is  *)
(* done these come before the next writer.                                             *)

Lock(t) == writer = None /\ writer' = t /\ UNCHANGED <<readers, waiting>>

Locked(t) == writer = t /\ readers = {}

Unlock == writer' = None /\ readers' = waiting /\ waiting' = {}

RLock(t) ==
    /\ IF writer = None
       THEN readers' = readers \cup {t} /\ UNCHANGED waiting
       ELSE waiting' = waiting \cup {t} /\ UNCHANGED readers
    /\ UNCHANGED writer

RUnlock(t) == readers' = readers \ {t} /\ UNCHANGED <<writer, waiting>>

\* Every call of s.mutex.Lock, with the location before and after it.
LockCalls == {<<"add", "adding">>, <<"remove", "removing">>, <<"bind", "binding">>,
              <<"exit", "exiting">>, <<"sweep", "sweeping">>}

CallLock(t) ==
    /\ \E call \in LockCalls : Goes(t, call[1], call[2])
    /\ Lock(t)
    /\ UNCHANGED <<mapVars, idle, held, session, todo, closed, mood>>

----
(* handleUserConnection and processUserMessage *)

AddUser(u) ==
    /\ Goes(u, "adding", "read")
    /\ Locked(u) /\ Unlock
    /\ userConnections' = userConnections \cup {u}
    /\ UNCHANGED <<registered, identified, idle, held, session, todo, closed, mood>>

\* A line in the format FROM|TO|TYPE|MESSAGE; others are only logged.
UserMessage(u) ==
    /\ mood[u] # "gone"
    /\ Goes(u, "read", "routing")
    /\ RLock(u)
    /\ UNCHANGED <<mapVars, idle, held, session, todo, closed, mood>>

\* processUserMessage finds the bound receiver, or none.
Route(u) ==
    /\ u \in readers
    /\ \E c \in {registered, None} :
          Goes(u, "routing", IF c = None THEN "read" ELSE "lookup")
    /\ RUnlock(u)
    /\ UNCHANGED <<mapVars, idle, held, session, todo, closed, mood>>

\* Mutant: the connection is closed first, and then taken out of the map.
UserGoneCloses(u) ==
    /\ mood[u] = "gone"
    /\ Goes(u, "read", "remove")
    /\ closed' = closed \cup {u}
    /\ UNCHANGED <<mutexVars, mapVars, idle, held, session, todo, mood>>

UserGone(u) ==
    /\ mood[u] = "gone"
    /\ Goes(u, "read", "remove")
    /\ UNCHANGED <<mutexVars, mapVars, idle, held, session, todo, closed, mood>>

RemoveUser(u) ==
    /\ Goes(u, "removing", "close")
    /\ Locked(u) /\ Unlock
    /\ userConnections' = userConnections \ {u}
    /\ UNCHANGED <<registered, identified, idle, held, session, todo, closed, mood>>

\* The end of handleUserConnection and of handleConnection.
Close(p) ==
    /\ Goes(p, "close", "done")
    /\ closed' = closed \cup {p}
    /\ UNCHANGED <<mutexVars, mapVars, idle, held, session, todo, mood>>

----
(* handleConnection *)

\* A submit_sm over SMS, for which SendToUser is called.
ReceiveSubmit(c) ==
    /\ Goes(c, "read", "sending")
    /\ RLock(c)

\* A bind that is accepted, a PDU that is only answered, or a deliver_sm_resp.
ReceiveOther(c) ==
    /\ \E next \in {"bind", "pdu", "read"} : Goes(c, "read", next)
    /\ UNCHANGED mutexVars

Receive(c) ==
    /\ mood[c] # "gone" /\ c \notin closed
    /\ ReceiveSubmit(c) \/ ReceiveOther(c)
    /\ idle' = idle \ {c}
    /\ session' = [session EXCEPT ![c] = c]
    /\ UNCHANGED <<mapVars, held, todo, closed, mood>>

StoreSession(c) ==
    /\ Goes(c, "binding", "pdu")
    /\ Locked(c) /\ Unlock
    /\ registered' = c
    /\ identified' = identified \cup {c}
    /\ UNCHANGED <<userConnections, idle, held, session, todo, closed, mood>>

ReadFail(c) ==
    /\ mood[c] = "gone" \/ c \in closed
    /\ Goes(c, "read", "exit")
    /\ UNCHANGED <<mutexVars, mapVars, idle, held, session, todo, closed, mood>>

\* "Clean up session": deleted by system_id, whoever is registered.
DeleteSession(c) ==
    /\ Goes(c, "exiting", "close")
    /\ Locked(c) /\ Unlock
    /\ registered' = IF c \in identified THEN None ELSE registered
    /\ UNCHANGED <<userConnections, identified, idle, held, session, todo, closed, mood>>

----
(* Writes.  They return at once while the connection has room, with an error when it   *)
(* is broken, and otherwise wait.                                                      *)

Broken(p) == mood[p] = "gone" \/ p \in closed

HasRoom(p) == mood[p] = "reading" /\ p \notin closed

\* SendToUser, in the goroutine of the client whose submit_sm it delivers.
BeginSend(c) ==
    /\ c \in readers
    /\ Goes(c, "sending", "writing")
    /\ todo' = [todo EXCEPT ![c] = userConnections]
    /\ UNCHANGED <<mutexVars, mapVars, idle, held, session, closed, mood>>

\* Mutant: a write that fails is tried again.
WriteUserRetries(c, u) ==
    /\ pc[c] = "writing"
    /\ u \in todo[c]
    /\ HasRoom(u)
    /\ todo' = [todo EXCEPT ![c] = @ \ {u}]
    /\ UNCHANGED <<pc, mutexVars, mapVars, idle, held, session, closed, mood>>

\* One turn of the loop over s.userConnections; an error is only logged.
WriteUser(c, u) ==
    /\ pc[c] = "writing"
    /\ u \in todo[c]
    /\ HasRoom(u) \/ Broken(u)
    /\ todo' = [todo EXCEPT ![c] = @ \ {u}]
    /\ UNCHANGED <<pc, mutexVars, mapVars, idle, held, session, closed, mood>>

\* Mutant: without the deferred RUnlock.
EndSendKeepsLock(c) ==
    /\ Goes(c, "writing", "pdu")
    /\ todo[c] = {}
    /\ UNCHANGED <<mutexVars, mapVars, idle, held, session, todo, closed, mood>>

\* The deferred RUnlock; then handleSubmitSM answers.
EndSend(c) ==
    /\ Goes(c, "writing", "pdu")
    /\ todo[c] = {}
    /\ RUnlock(c)
    /\ UNCHANGED <<mapVars, idle, held, session, todo, closed, mood>>

\* A receipt is due, an auto-reply has waited its 100 ms.
StartSender(s) ==
    /\ Goes(s, "idle", "looking")
    /\ RLock(s)
    /\ UNCHANGED <<mapVars, idle, held, session, todo, closed, mood>>

\* The call of SendDeliverSM in processUserMessage.
UserDelivers(u) ==
    /\ Goes(u, "lookup", "looking")
    /\ RLock(u)
    /\ UNCHANGED <<mapVars, idle, held, session, todo, closed, mood>>

\* Where a goroutine goes on after SendDeliverSM, or after it has answered.
After(t) == IF t \in Senders THEN "idle" ELSE "read"

\* Mutant: without the check that the session exists.
LookupUnchecked(t) ==
    /\ t \in readers
    /\ \E c \in {registered, None} :
          /\ Goes(t, "looking", "pdu")
          /\ session' = [session EXCEPT ![t] = c]
    /\ RUnlock(t)
    /\ UNCHANGED <<mapVars, idle, held, todo, closed, mood>>

\* SendDeliverSM: the session, or "session not found or not bound".
Lookup(t) ==
    /\ t \in readers
    /\ \E c \in {registered, None} :
          /\ Goes(t, "looking", IF c = None THEN After(t) ELSE "pdu")
          /\ session' = [session EXCEPT ![t] = c]
    /\ RUnlock(t)
    /\ UNCHANGED <<mapVars, idle, held, todo, closed, mood>>

\* sendPDU: session.mutex.Lock.  SendDeliverSM has it before, for sequenceNo++, but gives
\* it back at once.
LockSession(t) ==
    /\ Goes(t, "pdu", "write")
    /\ held[session[t]] = None
    /\ held' = [held EXCEPT ![session[t]] = t]
    /\ UNCHANGED <<mutexVars, mapVars, idle, session, todo, closed, mood>>

\* sendPDU returns and releases session.mutex.
WritePDU(t) ==
    /\ Goes(t, "write", After(t))
    /\ HasRoom(session[t])
    /\ held' = [held EXCEPT ![session[t]] = None]
    /\ session' = [session EXCEPT ![t] = None]
    /\ UNCHANGED <<mutexVars, mapVars, idle, todo, closed, mood>>

\* The same with an error, which ends handleConnection and is logged elsewhere.
WriteFail(t) ==
    /\ Goes(t, "write", IF t \in Clients THEN "exit" ELSE After(t))
    /\ Broken(session[t])
    /\ held' = [held EXCEPT ![session[t]] = None]
    /\ session' = [session EXCEPT ![t] = None]
    /\ UNCHANGED <<mutexVars, mapVars, idle, todo, closed, mood>>

----
(* cleanupSessions *)

SweepTick ==
    /\ Goes(Sweeper, "idle", "sweep")
    /\ UNCHANGED <<mutexVars, mapVars, idle, held, session, todo, closed, mood>>

\* Mutant: the session is deleted and its connection left open.
SweepLeavesOpen ==
    /\ Goes(Sweeper, "sweeping", "idle")
    /\ Locked(Sweeper) /\ Unlock
    /\ registered' = IF registered \in idle THEN None ELSE registered
    /\ UNCHANGED <<userConnections, identified, idle, held, session, todo, closed, mood>>

Sweep ==
    /\ Goes(Sweeper, "sweeping", "idle")
    /\ Locked(Sweeper) /\ Unlock
    /\ LET old == {registered} \cap idle
       IN  /\ closed' = closed \cup old
           /\ registered' = IF old = {} THEN registered ELSE None
    /\ UNCHANGED <<userConnections, identified, idle, held, session, todo, mood>>

----
(* The other ends, and the clock. *)

\* A peer stops reading long enough to be full, reads again, or leaves.
PeerChanges(p) ==
    /\ mood[p] # "gone"
    /\ \E m \in Moods \ {mood[p]} : mood' = [mood EXCEPT ![p] = m]
    /\ UNCHANGED <<pc, mutexVars, mapVars, idle, held, session, todo, closed>>

\* Five minutes without a PDU.
GoIdle(c) ==
    /\ registered = c /\ c \notin idle
    /\ idle' = idle \cup {c}
    /\ UNCHANGED <<pc, mutexVars, mapVars, held, session, todo, closed, mood>>

----
\* What goroutine t does without anything more from outside.
Step(t) ==
    \/ CallLock(t)
    \/ t \in Users /\ (AddUser(t) \/ Route(t) \/ UserDelivers(t) \/ UserGone(t) \/ RemoveUser(t))
    \/ t \in Clients /\ (StoreSession(t) \/ ReadFail(t) \/ DeleteSession(t) \/ BeginSend(t)
                           \/ EndSend(t) \/ \E u \in Users : WriteUser(t, u))
    \/ t \in Peers /\ Close(t)
    \/ t \in Users \cup Senders /\ Lookup(t)
    \/ LockSession(t) \/ WritePDU(t) \/ WriteFail(t)
    \/ t = Sweeper /\ (SweepTick \/ Sweep)

Outside ==
    \/ \E u \in Users : UserMessage(u)
    \/ \E c \in Clients : Receive(c) \/ GoIdle(c)
    \/ \E s \in Senders : StartSender(s)
    \/ \E p \in Peers : PeerChanges(p)

Next == Outside \/ \E t \in Threads : Step(t)

Spec == Init /\ [][Next]_vars

\* A goroutine that can go on again and again does: sync.Mutex hands over to a waiter in
\* turn, and a connection that keeps having room takes what is written.  The sweep ticks.
Fairness == \A t \in Threads : SF_vars(Step(t))

FairSpec == Spec /\ Fairness

----
(* Properties. *)

\* Every variable keeps its type, and a goroutine that sends a PDU has a session for it.
TypeOK ==
    /\ pc \in [Threads -> Location]
    /\ writer \in Threads \cup {None}
    /\ readers \in SUBSET Threads /\ waiting \in SUBSET Threads
    /\ userConnections \in SUBSET Users
    /\ registered \in Clients \cup {None}
    /\ identified \in SUBSET Clients
    /\ idle \in SUBSET Clients
    /\ held \in [Clients -> Threads \cup {None}]
    /\ session \in [Threads -> Clients \cup {None}]
    /\ todo \in [Clients -> SUBSET Users]
    /\ closed \in SUBSET Peers
    /\ mood \in [Peers -> Moods]
    /\ \A t \in Threads : pc[t] \in {"pdu", "write"} => session[t] # None

\* While SendToUser goes through s.userConnections, nobody changes the map (Go would end
\* the program), and it writes to no connection that the server has closed already.
SendsToConnected ==
    \A c \in Clients :
        pc[c] = "writing" => todo[c] \subseteq userConnections \ closed

Full(S) == \E p \in S : mood[p] = "full"

Wants(t) == t \in waiting \/ \E call \in LockCalls : pc[t] \in {call[1], call[2]}

\* s.mutex is granted to everyone who wants it, unless a user does not read: then
\* SendToUser keeps its read lock, the next writer waits for it, and everybody for the
\* writer.  A client that does not read keeps nobody from s.mutex.
MutexGranted == \A t \in Threads : Wants(t) ~> ~Wants(t) \/ Full(Users)

\* SendToUser comes to its end, unless a user it has not written to yet does not read.
SendToUserEnds ==
    \A c \in Clients : pc[c] = "writing" ~> pc[c] # "writing" \/ Full(todo[c])

Waits(t, c) == pc[t] = "write" /\ session[t] = c

\* Another client has been stored in place of c, or deleted c's entry when it ended.
Displaced(c) == \E d \in Clients \ {c} : registered = d \/ d \in closed

\* A registered client that does not read and sends nothing for five minutes holds up
\* those who write to it (the receipts of all clients, among others) only until the next
\* sweep closes it, unless the sweep cannot have s.mutex or no longer finds the client.
SilentClientSwept ==
    \A c \in Clients, t \in Threads :
        (Waits(t, c) /\ c \in idle /\ registered = c)
            ~> (~Waits(t, c) \/ c \notin idle \/ Displaced(c) \/ Full(Users))
====
