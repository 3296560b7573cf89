---- MODULE ServerProofs ----
(***************************************************************************)
(* Invariants of what the server's handlers rest on: ServerLocks, for any  *)
(* number of users, clients and senders, and PduCodec, for bytes, texts    *)
(* and addresses of any size.  The names of the two do not overlap, so     *)
(* that one module can have both.                                          *)
(***************************************************************************)
EXTENDS ServerLocks, PduCodec, TLAPS, SequenceTheorems

(* ServerLocks *)

\* A client's goroutine that has a PDU to answer has its own session.
OwnSession ==
    \A c \in Clients :
        pc[c] \in {"bind", "binding", "sending", "writing", "pdu", "write"} => session[c] = c

\* SendToUser has s.mutex for reading for as long as it writes.
WritingReads == \A c \in Clients : pc[c] = "writing" => c \in readers

\* A user connection is closed only after it has been taken out of the map.
ClosedUsersGone ==
    /\ \A u \in Users : pc[u] \in {"close", "done"} => u \notin userConnections
    /\ \A u \in Users \cap closed : pc[u] = "done"

Inv == TypeOK /\ OwnSession /\ WritingReads /\ ClosedUsersGone /\ SendsToConnected

\* The kinds of goroutines are disjoint.
LEMMA PeersAreThreads ==
    /\ Users \subseteq Threads /\ Clients \subseteq Threads /\ Senders \subseteq Threads
    /\ Sweeper \in Threads /\ Sweeper \notin Peers
    /\ Users \cap Clients = {} /\ Users \cap Senders = {} /\ Clients \cap Senders = {}
    /\ None \notin Clients
BY ConstantsAssumption DEF Threads, Peers

----
\* Types are preserved.
LEMMA TypeStep == Inv /\ [Next]_vars => TypeOK'
<1> SUFFICES ASSUME Inv, [Next]_vars PROVE TypeOK'
    OBVIOUS
<1> USE PeersAreThreads DEF Inv, TypeOK, Location, Moods, Goes, mutexVars, mapVars
<1>1. ASSUME NEW t \in Threads, CallLock(t) PROVE TypeOK'
    BY <1>1 DEF CallLock, LockCalls, Lock
<1>2. ASSUME NEW u \in Users, AddUser(u) \/ RemoveUser(u) PROVE TypeOK'
    BY <1>2 DEF AddUser, RemoveUser, Unlock
<1>3. ASSUME NEW u \in Users, Route(u) PROVE TypeOK'
    BY <1>3 DEF Route, RUnlock
<1>4. ASSUME NEW u \in Users, UserDelivers(u) \/ UserMessage(u) PROVE TypeOK'
    BY <1>4 DEF UserDelivers, UserMessage, RLock
<1>5. ASSUME NEW u \in Users, UserGone(u) PROVE TypeOK'
    BY <1>5 DEF UserGone
<1>6. ASSUME NEW c \in Clients, StoreSession(c) PROVE TypeOK'
    BY <1>6 DEF StoreSession, Unlock, OwnSession
<1>7. ASSUME NEW c \in Clients, DeleteSession(c) PROVE TypeOK'
    BY <1>7 DEF DeleteSession, Unlock
<1>8. ASSUME NEW c \in Clients, ReadFail(c) PROVE TypeOK'
    BY <1>8 DEF ReadFail
<1>9. ASSUME NEW c \in Clients, BeginSend(c) PROVE TypeOK'
    BY <1>9 DEF BeginSend
<1>10. ASSUME NEW c \in Clients, EndSend(c) PROVE TypeOK'
    BY <1>10 DEF EndSend, RUnlock, OwnSession
<1>11. ASSUME NEW c \in Clients, NEW u \in Users, WriteUser(c, u) PROVE TypeOK'
    BY <1>11 DEF WriteUser
<1>12. ASSUME NEW p \in Peers, Close(p) PROVE TypeOK'
    BY <1>12 DEF Close, Peers
<1>13. ASSUME NEW t \in Users \cup Senders, Lookup(t) PROVE TypeOK'
    BY <1>13 DEF Lookup, RUnlock, After
<1>14. ASSUME NEW t \in Threads, LockSession(t) PROVE TypeOK'
    BY <1>14 DEF LockSession
<1>15. ASSUME NEW t \in Threads, WritePDU(t) \/ WriteFail(t) PROVE TypeOK'
    BY <1>15 DEF WritePDU, WriteFail, After
<1>16. ASSUME SweepTick PROVE TypeOK'
    BY <1>16 DEF SweepTick
<1>17. ASSUME Sweep PROVE TypeOK'
    BY <1>17 DEF Sweep, Unlock, Peers
<1>18. ASSUME NEW c \in Clients, Receive(c) PROVE TypeOK'
    BY <1>18 DEF Receive, ReceiveSubmit, ReceiveOther, RLock
<1>19. ASSUME NEW c \in Clients, GoIdle(c) PROVE TypeOK'
    BY <1>19 DEF GoIdle
<1>20. ASSUME NEW s \in Senders, StartSender(s) PROVE TypeOK'
    BY <1>20 DEF StartSender, RLock
<1>21. ASSUME NEW p \in Peers, PeerChanges(p) PROVE TypeOK'
    BY <1>21 DEF PeerChanges
<1>22. CASE UNCHANGED vars
    BY <1>22 DEF vars
<1>23. QED
    BY <1>1, <1>2, <1>3, <1>4, <1>5, <1>6, <1>7, <1>8, <1>9, <1>10, <1>11, <1>12, <1>13,
       <1>14, <1>15, <1>16, <1>17, <1>18, <1>19, <1>20, <1>21, <1>22
       DEF Next, Outside, Step

\* The rest of the invariant is preserved.
LEMMA OrderStep ==
    Inv /\ [Next]_vars => (OwnSession /\ WritingReads /\ ClosedUsersGone /\ SendsToConnected)'
<1> DEFINE Order == OwnSession /\ WritingReads /\ ClosedUsersGone /\ SendsToConnected
<1> SUFFICES ASSUME Inv, [Next]_vars PROVE Order'
    OBVIOUS
<1> USE PeersAreThreads
    DEF Inv, TypeOK, OwnSession, WritingReads, ClosedUsersGone, SendsToConnected, Goes,
        mutexVars, mapVars
<1>1. ASSUME NEW t \in Threads, CallLock(t) PROVE Order'
    BY <1>1 DEF CallLock, LockCalls, Lock
<1>2. ASSUME NEW u \in Users, AddUser(u) PROVE Order'
    BY <1>2 DEF AddUser, Locked, Unlock
<1>3. ASSUME NEW u \in Users, RemoveUser(u) PROVE Order'
    BY <1>3 DEF RemoveUser, Locked, Unlock
<1>4. ASSUME NEW u \in Users, Route(u) PROVE Order'
    BY <1>4 DEF Route, RUnlock
<1>5. ASSUME NEW u \in Users, UserDelivers(u) \/ UserMessage(u) PROVE Order'
    BY <1>5 DEF UserDelivers, UserMessage, RLock
<1>6. ASSUME NEW u \in Users, UserGone(u) PROVE Order'
    BY <1>6 DEF UserGone
<1>7. ASSUME NEW c \in Clients, StoreSession(c) PROVE Order'
    BY <1>7 DEF StoreSession, Locked, Unlock
<1>8. ASSUME NEW c \in Clients, DeleteSession(c) PROVE Order'
    BY <1>8 DEF DeleteSession, Locked, Unlock
<1>9. ASSUME NEW c \in Clients, ReadFail(c) PROVE Order'
    BY <1>9 DEF ReadFail
<1>10. ASSUME NEW c \in Clients, BeginSend(c) PROVE Order'
    BY <1>10 DEF BeginSend
<1>11. ASSUME NEW c \in Clients, EndSend(c) PROVE Order'
    BY <1>11 DEF EndSend, RUnlock
<1>12. ASSUME NEW c \in Clients, NEW u \in Users, WriteUser(c, u) PROVE Order'
    BY <1>12 DEF WriteUser
<1>13. ASSUME NEW p \in Peers, Close(p) PROVE Order'
    BY <1>13 DEF Close, Peers
<1>14. ASSUME NEW t \in Users \cup Senders, Lookup(t) PROVE Order'
    BY <1>14 DEF Lookup, RUnlock, After
<1>15. ASSUME NEW t \in Threads, LockSession(t) PROVE Order'
    BY <1>15 DEF LockSession
<1>16. ASSUME NEW t \in Threads, WritePDU(t) \/ WriteFail(t) PROVE Order'
    BY <1>16 DEF WritePDU, WriteFail, After
<1>17. ASSUME SweepTick PROVE Order'
    BY <1>17 DEF SweepTick
<1>18. ASSUME Sweep PROVE Order'
    BY <1>18 DEF Sweep, Locked, Unlock, Peers
<1>19. ASSUME NEW c \in Clients, Receive(c) PROVE Order'
    BY <1>19 DEF Receive, ReceiveSubmit, ReceiveOther, RLock
<1>20. ASSUME NEW c \in Clients, GoIdle(c) PROVE Order'
    BY <1>20 DEF GoIdle
<1>21. ASSUME NEW s \in Senders, StartSender(s) PROVE Order'
    BY <1>21 DEF StartSender, RLock
<1>22. ASSUME NEW p \in Peers, PeerChanges(p) PROVE Order'
    BY <1>22 DEF PeerChanges
<1>23. CASE UNCHANGED vars
    BY <1>23 DEF vars
<1>24. QED
    BY <1>1, <1>2, <1>3, <1>4, <1>5, <1>6, <1>7, <1>8, <1>9, <1>10, <1>11, <1>12, <1>13,
       <1>14, <1>15, <1>16, <1>17, <1>18, <1>19, <1>20, <1>21, <1>22, <1>23
       DEF Next, Outside, Step

\* Inv holds in every reachable state.
LEMMA Invariant == Spec => []Inv
<1>1. Init => Inv
    BY PeersAreThreads DEF Init, Inv, TypeOK, Location, Moods, Peers, OwnSession, WritingReads,
       ClosedUsersGone, SendsToConnected
<1>2. Inv /\ [Next]_vars => Inv'
    BY TypeStep, OrderStep DEF Inv
<1>3. QED
    BY <1>1, <1>2, PTL DEF Spec

\* Every variable keeps its type, and a goroutine that sends a PDU has a session for it.
THEOREM TypeCorrect == Spec => []TypeOK
BY Invariant, PTL DEF Inv

\* Nobody changes s.userConnections while SendToUser goes through it, and SendToUser writes
\* to no connection that the server has closed.
THEOREM SendsToConnectedHolds == Spec => []SendsToConnected
BY Invariant, PTL DEF Inv

----
(* Deadlocks. *)

\* Where a goroutine waits for s.mutex.Lock or has it, and the same for s.mutex.RLock.
LockPlaces == {"adding", "removing", "binding", "exiting", "sweeping"}
RLockPlaces == {"routing", "sending", "writing", "looking"}

\* Who has or waits for s.mutex is where it uses it, readers wait for a writer only, and
\* clients alone are in SendToUser.
MutexPlaces ==
    /\ \A t \in Threads : writer = t <=> pc[t] \in LockPlaces
    /\ \A t \in Threads : t \in readers \cup waiting <=> pc[t] \in RLockPlaces
    /\ readers \cap waiting = {}
    /\ waiting # {} => writer # None
    /\ \A t \in Threads : pc[t] \in {"sending", "writing"} => t \in Clients

\* Who has a session's mutex is writing to its client.
SessionPlaces == \A c \in Clients, t \in Threads : held[c] = t <=> Waits(t, c)

\* A write to p returns.
Returns(p) == HasRoom(p) \/ Broken(p)

\* Goroutine t has s.mutex, and its next step needs no other lock.
Advances(t) ==
    \/ pc[t] \in LockPlaces /\ Locked(t)
    \/ pc[t] \in RLockPlaces \ {"writing"} /\ t \in readers
    \/ pc[t] = "writing" /\ t \in readers /\ (todo[t] = {} \/ \E u \in todo[t] : Returns(u))

\* Goroutine t is held up at s.mutex.
HeldUp(t) == writer # None /\ (t \in waiting \/ \E call \in LockCalls : pc[t] = call[1])

\* There is no circle of waiting.  While anyone is held up at s.mutex, a goroutine that has
\* it can go on, or one that has it is writing to users of whom one does not read; and who has
\* the mutex of a session has not s.mutex and waits for nothing but the client.
NoDeadlock ==
    /\ (\E t \in Threads : HeldUp(t) \/ pc[t] \in LockPlaces) =>
          \/ \E t \in Threads : Advances(t)
          \/ \E c \in Clients \cap readers : pc[c] = "writing" /\ Full(todo[c])
    /\ \A c \in Clients : held[c] # None =>
          \E t \in Threads : Waits(t, c) /\ t \notin readers \cup waiting \cup {writer}

\* Every step keeps who is where with s.mutex.
LEMMA MutexStep == Inv /\ MutexPlaces /\ [Next]_vars => MutexPlaces'
<1> SUFFICES ASSUME Inv, MutexPlaces, [Next]_vars PROVE MutexPlaces'
    OBVIOUS
<1> USE PeersAreThreads, ConstantsAssumption
    DEF Inv, TypeOK, MutexPlaces, LockPlaces, RLockPlaces, WritingReads, Goes, mutexVars, mapVars
<1>1. ASSUME NEW t \in Threads, CallLock(t) PROVE MutexPlaces'
    BY <1>1 DEF CallLock, LockCalls, Lock
<1>2. ASSUME NEW u \in Users, AddUser(u) \/ RemoveUser(u) PROVE MutexPlaces'
    BY <1>2 DEF AddUser, RemoveUser, Locked, Unlock
<1>3. ASSUME NEW u \in Users, Route(u) PROVE MutexPlaces'
    BY <1>3 DEF Route, RUnlock
<1>4. ASSUME NEW u \in Users, UserDelivers(u) \/ UserMessage(u) PROVE MutexPlaces'
    BY <1>4 DEF UserDelivers, UserMessage, RLock
<1>5. ASSUME NEW u \in Users, UserGone(u) PROVE MutexPlaces'
    BY <1>5 DEF UserGone
<1>6. ASSUME NEW c \in Clients, StoreSession(c) \/ DeleteSession(c) PROVE MutexPlaces'
    BY <1>6 DEF StoreSession, DeleteSession, Locked, Unlock
<1>7. ASSUME NEW c \in Clients, ReadFail(c) PROVE MutexPlaces'
    BY <1>7 DEF ReadFail
<1>8. ASSUME NEW c \in Clients, BeginSend(c) PROVE MutexPlaces'
    BY <1>8 DEF BeginSend
<1>9. ASSUME NEW c \in Clients, EndSend(c) PROVE MutexPlaces'
    BY <1>9 DEF EndSend, RUnlock
<1>10. ASSUME NEW c \in Clients, NEW u \in Users, WriteUser(c, u) PROVE MutexPlaces'
    BY <1>10 DEF WriteUser
<1>11. ASSUME NEW p \in Peers, Close(p) PROVE MutexPlaces'
    BY <1>11 DEF Close, Peers
<1>12. ASSUME NEW t \in Users \cup Senders, Lookup(t) PROVE MutexPlaces'
    BY <1>12 DEF Lookup, RUnlock, After
<1>13. ASSUME NEW t \in Threads, LockSession(t) PROVE MutexPlaces'
    BY <1>13 DEF LockSession
<1>14. ASSUME NEW t \in Threads, WritePDU(t) \/ WriteFail(t) PROVE MutexPlaces'
    BY <1>14 DEF WritePDU, WriteFail, After
<1>15. ASSUME SweepTick PROVE MutexPlaces'
    BY <1>15 DEF SweepTick
<1>16. ASSUME Sweep PROVE MutexPlaces'
    BY <1>16 DEF Sweep, Locked, Unlock
<1>17. ASSUME NEW c \in Clients, Receive(c) PROVE MutexPlaces'
    BY <1>17 DEF Receive, ReceiveSubmit, ReceiveOther, RLock
<1>18. ASSUME NEW c \in Clients, GoIdle(c) PROVE MutexPlaces'
    BY <1>18 DEF GoIdle
<1>19. ASSUME NEW s \in Senders, StartSender(s) PROVE MutexPlaces'
    BY <1>19 DEF StartSender, RLock
<1>20. ASSUME NEW p \in Peers, PeerChanges(p) PROVE MutexPlaces'
    BY <1>20 DEF PeerChanges
<1>21. CASE UNCHANGED vars
    BY <1>21 DEF vars
<1>22. QED
    BY <1>1, <1>2, <1>3, <1>4, <1>5, <1>6, <1>7, <1>8, <1>9, <1>10, <1>11, <1>12, <1>13,
       <1>14, <1>15, <1>16, <1>17, <1>18, <1>19, <1>20, <1>21
       DEF Next, Outside, Step

\* Every step keeps who writes with the mutex of a session.
LEMMA SessionStep == Inv /\ SessionPlaces /\ [Next]_vars => SessionPlaces'
<1> SUFFICES ASSUME Inv, SessionPlaces, [Next]_vars PROVE SessionPlaces'
    OBVIOUS
<1> USE PeersAreThreads, ConstantsAssumption
    DEF Inv, TypeOK, SessionPlaces, Waits, Goes
<1>1. ASSUME NEW t \in Threads, CallLock(t) PROVE SessionPlaces'
    BY <1>1 DEF CallLock, LockCalls
<1>2. ASSUME NEW u \in Users,
             AddUser(u) \/ RemoveUser(u) \/ UserGone(u) \/ Route(u) \/ UserDelivers(u)
                 \/ UserMessage(u)
      PROVE  SessionPlaces'
    BY <1>2 DEF AddUser, RemoveUser, UserGone, Route, UserDelivers, UserMessage
<1>3. ASSUME NEW c \in Clients,
             StoreSession(c) \/ DeleteSession(c) \/ ReadFail(c) \/ BeginSend(c) \/ EndSend(c)
      PROVE  SessionPlaces'
    BY <1>3 DEF StoreSession, DeleteSession, ReadFail, BeginSend, EndSend
<1>4. ASSUME NEW c \in Clients, NEW u \in Users, WriteUser(c, u) PROVE SessionPlaces'
    BY <1>4 DEF WriteUser
<1>5. ASSUME NEW p \in Peers, Close(p) PROVE SessionPlaces'
    BY <1>5 DEF Close, Peers
<1>6. ASSUME NEW t \in Users \cup Senders, Lookup(t) PROVE SessionPlaces'
    BY <1>6 DEF Lookup, After
<1>7. ASSUME NEW t \in Threads, LockSession(t) PROVE SessionPlaces'
    BY <1>7 DEF LockSession
<1>8. ASSUME NEW t \in Threads, WritePDU(t) \/ WriteFail(t) PROVE SessionPlaces'
    BY <1>8 DEF WritePDU, WriteFail, After
<1>9. ASSUME SweepTick \/ Sweep PROVE SessionPlaces'
    BY <1>9 DEF SweepTick, Sweep
<1>10. ASSUME NEW c \in Clients, Receive(c) PROVE SessionPlaces'
    BY <1>10 DEF Receive, ReceiveSubmit, ReceiveOther
<1>11. ASSUME NEW c \in Clients, GoIdle(c) PROVE SessionPlaces'
    BY <1>11 DEF GoIdle
<1>12. ASSUME NEW s \in Senders, StartSender(s) PROVE SessionPlaces'
    BY <1>12 DEF StartSender
<1>13. ASSUME NEW p \in Peers, PeerChanges(p) PROVE SessionPlaces'
    BY <1>13 DEF PeerChanges
<1>14. CASE UNCHANGED vars
    BY <1>14 DEF vars
<1>15. QED
    BY <1>1, <1>2, <1>3, <1>4, <1>5, <1>6, <1>7, <1>8, <1>9, <1>10, <1>11, <1>12, <1>13,
       <1>14 DEF Next, Outside, Step

\* Who is in the loop of SendToUser is done with it, can write, or has a user who does not read.
LEMMA LoopAdvances ==
    ASSUME TypeOK, NEW c \in Clients, c \in readers, pc[c] = "writing"
    PROVE  Advances(c) \/ Full(todo[c])
<1>1. SUFFICES ASSUME NEW u \in todo[c], mood[u] # "full" PROVE Returns(u)
    BY DEF Advances, Full
<1>2. u \in Peers /\ mood[u] \in Moods
    BY <1>1 DEF TypeOK, Peers
<1>3. QED
    BY <1>1, <1>2 DEF Returns, HasRoom, Broken, Moods

\* The places of the goroutines exclude deadlocks.
LEMMA PlacesSuffice ==
    Inv /\ MutexPlaces /\ SessionPlaces => NoDeadlock
<1> SUFFICES ASSUME Inv, MutexPlaces, SessionPlaces PROVE NoDeadlock
    OBVIOUS
<1>1. ASSUME NEW t \in Threads, HeldUp(t) \/ pc[t] \in LockPlaces
      PROVE  \/ \E r \in Threads : Advances(r)
             \/ \E c \in Clients \cap readers : pc[c] = "writing" /\ Full(todo[c])
    <2>1. PICK w \in Threads : writer = w
        BY <1>1 DEF HeldUp, MutexPlaces, Inv, TypeOK
    <2>2. CASE readers = {}
        BY <2>1, <2>2 DEF MutexPlaces, Advances, Locked
    <2>3. CASE readers # {}
        <3>1. PICK r \in Threads : r \in readers
            BY <2>3 DEF Inv, TypeOK
        <3>2. pc[r] \in RLockPlaces
            BY <3>1 DEF MutexPlaces
        <3>3. CASE pc[r] # "writing"
            BY <3>1, <3>2, <3>3 DEF Advances
        <3>4. CASE pc[r] = "writing"
            <4>1. r \in Clients
                BY <3>4 DEF MutexPlaces
            <4>2. QED
                BY <3>1, <3>4, <4>1, LoopAdvances DEF Inv
        <3>5. QED
            BY <3>3, <3>4
    <2>4. QED
        BY <2>2, <2>3
<1>2. ASSUME NEW c \in Clients, held[c] # None
      PROVE  \E t \in Threads : Waits(t, c) /\ t \notin readers \cup waiting \cup {writer}
    <2>1. PICK t \in Threads : held[c] = t
        BY <1>2 DEF Inv, TypeOK
    <2>2. Waits(t, c)
        BY <2>1 DEF SessionPlaces
    <2>3. pc[t] \notin RLockPlaces /\ pc[t] \notin LockPlaces
        BY <2>2 DEF Waits, LockPlaces, RLockPlaces
    <2>4. QED
        BY <2>2, <2>3 DEF MutexPlaces
<1>3. QED
    BY <1>1, <1>2 DEF NoDeadlock

\* The locks of the server never make a circle of goroutines: who is held up at s.mutex waits,
\* in the end, for one that can go on or for a user that does not read, and who is held up at a
\* session's mutex for a write to its client.
THEOREM NoDeadlockHolds == Spec => []NoDeadlock
<1>1. Init => MutexPlaces /\ SessionPlaces
    BY PeersAreThreads, ConstantsAssumption
       DEF Init, MutexPlaces, SessionPlaces, LockPlaces, RLockPlaces, Waits
<1>2. Inv /\ MutexPlaces /\ SessionPlaces /\ [Next]_vars => (MutexPlaces /\ SessionPlaces)'
    BY MutexStep, SessionStep
<1>3. QED
    BY <1>1, <1>2, PlacesSuffice, Invariant, PTL DEF Spec

----
(* PduCodec *)

\* What a byte may be.
Bytes == 0..Byte - 1

\* The data has x at offset k.
Holds(data, k, x) ==
    /\ k \in Nat /\ k + Len(x) <= Len(data)
    /\ \A i \in 1..Len(x) : data[k + i] = x[i]

\* The least element of a set.
LEMMA MinIs ==
    ASSUME NEW S \in SUBSET Int, NEW e \in S, \A y \in S : e <= y
    PROVE  Min(S) = e
<1>1. \E x \in S : \A y \in S : x <= y
    OBVIOUS
<1>2. Min(S) \in S /\ \A y \in S : Min(S) <= y
    BY <1>1 DEF Min
<1>3. Min(S) <= e /\ e <= Min(S) /\ Min(S) \in Int /\ e \in Int
    BY <1>2
<1>4. QED
    BY <1>3

\* A concatenation has both of its parts.
LEMMA HoldsParts ==
    ASSUME NEW p \in Seq(Bytes), NEW q \in Seq(Bytes)
    PROVE  /\ p \o q \in Seq(Bytes) /\ Len(p \o q) = Len(p) + Len(q)
           /\ Holds(p \o q, 0, p) /\ Holds(p \o q, Len(p), q)
<1>1. p \o q \in Seq(Bytes) /\ Len(p \o q) = Len(p) + Len(q)
    OBVIOUS
<1>2. ASSUME NEW i \in 1..Len(p) PROVE (p \o q)[i] = p[i]
    BY ConcatProperties
<1>3. ASSUME NEW i \in 1..Len(q) PROVE (p \o q)[Len(p) + i] = q[i]
    OBVIOUS
<1>4. Len(p) \in Nat /\ Len(q) \in Nat
    OBVIOUS
<1>5. ASSUME NEW i \in 1..Len(p) PROVE (p \o q)[0 + i] = p[i]
    BY <1>2
<1>6. QED
    BY <1>1, <1>3, <1>4, <1>5 DEF Holds

\* A piece of a piece is a piece.
LEMMA HoldsWithin ==
    ASSUME NEW data \in Seq(Bytes), NEW y \in Seq(Bytes), NEW x \in Seq(Bytes), NEW k, NEW j,
           Holds(data, k, y), Holds(y, j, x)
    PROVE  Holds(data, k + j, x)
<1>1. /\ k \in Nat /\ j \in Nat /\ k + Len(y) <= Len(data) /\ j + Len(x) <= Len(y)
      /\ Len(x) \in Nat /\ Len(y) \in Nat /\ Len(data) \in Nat
    BY DEF Holds
<1>2. ASSUME NEW i \in 1..Len(x) PROVE data[k + j + i] = x[i]
    <2>1. y[j + i] = x[i]
        BY DEF Holds
    <2>2. j + i \in 1..Len(y)
        BY <1>1
    <2>3. data[k + (j + i)] = y[j + i]
        BY <2>2 DEF Holds
    <2>4. k + (j + i) = k + j + i
        BY <1>1
    <2>5. QED
        BY <2>1, <2>3, <2>4
<1>3. QED
    BY <1>1, <1>2 DEF Holds

\* A piece can be cut out.
LEMMA HoldsSlice ==
    ASSUME NEW data \in Seq(Bytes), NEW x \in Seq(Bytes), NEW k, Holds(data, k, x)
    PROVE  Slice(data, k, k + Len(x)) = x
<1>1. /\ k \in Nat /\ Len(x) \in Nat /\ Len(data) \in Nat /\ k + Len(x) <= Len(data)
      /\ \A i \in 1..Len(x) : data[k + i] = x[i]
    BY DEF Holds
<1> DEFINE s == SubSeq(data, k + 1, k + Len(x))
<1>2. k + 1 \in 1..Len(data) + 1 /\ k + Len(x) \in k..Len(data)
    BY <1>1
<1>3. /\ s \in Seq(Bytes)
      /\ Len(s) = IF k + 1 <= k + Len(x) THEN k + Len(x) - (k + 1) + 1 ELSE 0
      /\ \A i \in 1..k + Len(x) - (k + 1) + 1 : s[i] = data[k + 1 + i - 1]
    BY <1>1, <1>2, SubSeqProperties
<1> HIDE DEF s
<1>4. Len(s) = Len(x)
    BY <1>1, <1>3
<1>5. ASSUME NEW i \in 1..Len(x) PROVE s[i] = x[i]
    <2>1. i \in 1..k + Len(x) - (k + 1) + 1 /\ k + 1 + i - 1 = k + i
        BY <1>1
    <2>2. s[i] = data[k + 1 + i - 1]
        BY <1>3, <2>1
    <2>3. QED
        BY <1>1, <2>1, <2>2
<1>6. s = x
    BY <1>3, <1>4, <1>5, SeqEqual
<1>7. QED
    BY <1>6 DEF s, Slice

\* A C string ends with its only 0.
LEMMA StringBytes ==
    ASSUME NEW x \in Seq(1..Byte - 1)
    PROVE  /\ x \in Seq(Bytes) /\ CString(x) \in Seq(Bytes) /\ Len(CString(x)) = Len(x) + 1
           /\ CString(x)[Len(x) + 1] = 0
           /\ \A i \in 1..Len(x) : CString(x)[i] = x[i] /\ x[i] # 0
<1>1. Byte \in Nat /\ 0 \in Bytes /\ 1..Byte - 1 \subseteq Bytes
    BY CodecConstants DEF Bytes
<1>2. x \in Seq(Bytes)
    <2>1. \A i \in 1..Len(x) : x[i] \in Bytes
        BY <1>1
    <2>2. QED
        BY <2>1, <1>1
<1>3. <<0>> \in Seq(Bytes)
    BY <1>1
<1>4. CString(x) \in Seq(Bytes) /\ Len(CString(x)) = Len(x) + 1
    BY <1>2, <1>3 DEF CString
<1>5. CString(x)[Len(x) + 1] = 0
    BY <1>2, <1>3 DEF CString
<1>6. ASSUME NEW i \in 1..Len(x) PROVE CString(x)[i] = x[i] /\ x[i] # 0
    <2>1. CString(x)[i] = x[i]
        BY <1>2, <1>3 DEF CString
    <2>2. x[i] \in 1..Byte - 1
        BY ElementOfSeq
    <2>3. QED
        BY <2>1, <2>2, <1>1
<1>7. QED
    BY <1>2, <1>4, <1>5, <1>6

\* extractCString returns the string that the data has at the offset.
LEMMA StringAt ==
    ASSUME NEW data \in Seq(Bytes), NEW x \in Seq(1..Byte - 1), NEW k, Holds(data, k, CString(x))
    PROVE  ExtractCString(data, k) = [string |-> x, next |-> k + Len(x) + 1]
<1> DEFINE end == k + Len(x)
<1>1. /\ x \in Seq(Bytes) /\ CString(x) \in Seq(Bytes) /\ Len(CString(x)) = Len(x) + 1
      /\ CString(x)[Len(x) + 1] = 0
      /\ \A i \in 1..Len(x) : CString(x)[i] = x[i] /\ x[i] # 0
    BY StringBytes
<1>2. /\ k \in Nat /\ Len(x) \in Nat /\ Len(data) \in Nat /\ k + Len(x) + 1 <= Len(data)
      /\ \A i \in 1..Len(x) + 1 : data[k + i] = CString(x)[i]
    BY <1>1 DEF Holds
<1>3. Holds(data, k, x)
    <2>1. \A i \in 1..Len(x) : data[k + i] = x[i]
        BY <1>1, <1>2
    <2>2. QED
        BY <1>2, <2>1 DEF Holds
<1>4. Slice(data, k, end) = x
    BY <1>1, <1>3, HoldsSlice
<1>5. StringEnd(data, k) = end
    <2> DEFINE S == {l \in k..Len(data) - 1 : At(data, l) = 0} \cup {Len(data)}
    <2>1. S \in SUBSET Int
        BY <1>2
    <2>2. end \in S
        <3>1. end \in k..Len(data) - 1
            BY <1>2
        <3>2. At(data, end) = 0
            <4>1. Len(x) + 1 \in 1..Len(x) + 1 /\ k + (Len(x) + 1) = end + 1
                BY <1>2
            <4>2. QED
                BY <1>1, <1>2, <4>1 DEF At
        <3>3. QED
            BY <3>1, <3>2
    <2>3. ASSUME NEW y \in S, y < end PROVE FALSE
        <3>1. y \in k..Len(data) - 1 /\ At(data, y) = 0
            BY <1>2, <2>3
        <3>2. y - k + 1 \in 1..Len(x) /\ k + (y - k + 1) = y + 1
            BY <2>3, <3>1, <1>1, <1>2
        <3>3. y - k + 1 \in 1..Len(x) + 1
            BY <3>2
        <3>4. data[k + (y - k + 1)] = x[y - k + 1] /\ x[y - k + 1] # 0
            BY <1>1, <1>2, <3>2, <3>3
        <3>5. QED
            BY <3>1, <3>2, <3>4 DEF At
    <2>4. \A y \in S : end <= y
        BY <2>1, <2>3, <1>2
    <2>5. Min(S) = end
        BY <2>1, <2>2, <2>4, MinIs
    <2>6. QED
        BY <2>5 DEF StringEnd
<1>6. Min({end + 1, Len(data)}) = end + 1
    <2>1. {end + 1, Len(data)} \in SUBSET Int /\ end + 1 \in {end + 1, Len(data)}
        BY <1>2
    <2>2. \A y \in {end + 1, Len(data)} : end + 1 <= y
        BY <1>2
    <2>3. QED
        BY <2>1, <2>2, MinIs
<1>7. ~(k >= Len(data))
    BY <1>2
<1>8. QED
    BY <1>7, <1>4, <1>5, <1>6 DEF ExtractCString

\* Division with a remainder.
LEMMA Divided ==
    ASSUME NEW n \in Nat, NEW d \in Nat, d > 0
    PROVE  n \div d \in Nat /\ n % d \in 0..d - 1 /\ n = d * (n \div d) + (n % d)
<1>1. n \div d \in Int /\ n % d \in Int
    BY SMTT(30)
<1>2. n = d * (n \div d) + (n % d)
    BY SMTT(30)
<1>3. 0 <= n % d /\ n % d < d
    BY SMTT(30)
<1>4. n \div d >= 0
    BY SMTT(30)
<1>5. QED
    BY <1>1, <1>2, <1>3, <1>4

\* A two-byte length.
LEMMA TwoBytes ==
    ASSUME NEW n \in Nat, n < Byte * Byte
    PROVE  /\ ((n \div Byte) % Byte) * Byte + (n % Byte) = n
           /\ n % Byte \in Bytes /\ (n \div Byte) % Byte \in Bytes
<1> DEFINE a == n \div Byte
           b == n % Byte
           ab == Byte * a
           full == Byte * Byte
<1>1. Byte \in Nat /\ Byte > 0
    BY CodecConstants
<1>2. a \in Nat /\ b \in 0..Byte - 1 /\ n = ab + b /\ ab \in Int /\ full \in Int /\ n < full
    BY <1>1, Divided
<1>3. a < Byte
    <2>1. SUFFICES ASSUME a >= Byte PROVE FALSE
        <3> HIDE DEF a
        <3>1. QED
            BY <1>1, <1>2
    <2>2. ab >= full
        <3> HIDE DEF a
        <3>1. QED
            BY <1>1, <1>2, <2>1, SMTT(30)
    <2> HIDE DEF a, b, ab, full
    <2>3. QED
        BY <1>1, <1>2, <2>2
<1> HIDE DEF a, b
<1>4. a % Byte = a
    BY <1>1, <1>2, <1>3, SMTT(30)
<1>5. a * Byte = ab
    BY <1>1, <1>2, SMTT(30)
<1>6. a * Byte + b = n
    BY <1>2, <1>5
<1>7. a \in Bytes /\ b \in Bytes
    BY <1>1, <1>2, <1>3 DEF Bytes
<1>8. QED
    BY <1>4, <1>6, <1>7 DEF a, b

\* Short sequences of small numbers are sequences of bytes.
LEMMA ByteSequences ==
    /\ Byte \in Nat /\ Byte > 3 /\ {0, 1, 2, 3} \subseteq Bytes
    /\ \A a \in Bytes : <<a>> \in Seq(Bytes) /\ Len(<<a>>) = 1
    /\ \A a, b \in Bytes : <<a, b>> \in Seq(Bytes) /\ Len(<<a, b>>) = 2
    /\ \A a, b, c \in Bytes : <<a, b, c>> \in Seq(Bytes) /\ Len(<<a, b, c>>) = 3
<1>1. Byte \in Nat /\ Byte > 3 /\ {0, 1, 2, 3} \subseteq Bytes
    BY CodecConstants DEF Bytes
<1>2. QED
    BY <1>1

\* A TLV is four bytes longer than its value.
LEMMA Building ==
    ASSUME NEW tag \in Seq(Bytes), Len(tag) = 2, NEW v \in Seq(Bytes)
    PROVE  BuildTLV(tag, v) \in Seq(Bytes) /\ Len(BuildTLV(tag, v)) = 4 + Len(v)
<1>1. (Len(v) \div Byte) % Byte \in Bytes /\ Len(v) % Byte \in Bytes
    <2>1. Len(v) \in Nat /\ Byte \in Nat /\ Byte > 0
        BY ByteSequences
    <2>2. Len(v) \div Byte \in Nat /\ Len(v) % Byte \in 0..Byte - 1
        BY <2>1, Divided
    <2>3. (Len(v) \div Byte) % Byte \in 0..Byte - 1
        BY <2>1, <2>2, Divided
    <2>4. QED
        BY <2>2, <2>3 DEF Bytes
<1> DEFINE sizes == <<(Len(v) \div Byte) % Byte, Len(v) % Byte>>
<1>2. sizes \in Seq(Bytes) /\ Len(sizes) = 2
    BY <1>1
<1> HIDE DEF sizes
<1>3. tag \o sizes \in Seq(Bytes) /\ Len(tag \o sizes) = 4
    <2>1. tag \o sizes \in Seq(Bytes) /\ Len(tag \o sizes) = Len(tag) + Len(sizes)
        BY <1>2, HoldsParts
    <2>2. QED
        BY <1>2, <2>1
<1>4. (tag \o sizes) \o v \in Seq(Bytes) /\ Len((tag \o sizes) \o v) = 4 + Len(v)
    BY <1>3, HoldsParts
<1>5. QED
    BY <1>4 DEF BuildTLV, sizes

\* A TLV that the data holds is read as it was built.
LEMMA TlvAt ==
    ASSUME NEW data \in Seq(Bytes), NEW k, NEW tag \in Seq(Bytes), NEW v \in Seq(Bytes),
           Len(tag) = 2, Len(v) < Byte * Byte, Holds(data, k, BuildTLV(tag, v))
    PROVE  /\ HasTlv(data, k) /\ TlvLength(data, k) = Len(v)
           /\ TlvTag(data, k) = tag /\ TlvValue(data, k) = v
<1> DEFINE hi == (Len(v) \div Byte) % Byte
           lo == Len(v) % Byte
           sizes == <<hi, lo>>
           head == tag \o sizes
           tlv == head \o v
<1>1. Len(v) \in Nat /\ hi * Byte + lo = Len(v) /\ hi \in Bytes /\ lo \in Bytes
    BY TwoBytes
<1>2. sizes \in Seq(Bytes) /\ Len(sizes) = 2 /\ sizes[1] = hi /\ sizes[2] = lo
    BY <1>1
<1> HIDE DEF sizes
<1>3. head \in Seq(Bytes) /\ Len(head) = 4 /\ Holds(head, 0, tag) /\ Holds(head, 2, sizes)
    <2>1. /\ head \in Seq(Bytes) /\ Len(head) = Len(tag) + Len(sizes)
          /\ Holds(head, 0, tag) /\ Holds(head, Len(tag), sizes)
        BY <1>2, HoldsParts
    <2>2. QED
        BY <1>2, <2>1
<1> HIDE DEF head
<1>4. tlv \in Seq(Bytes) /\ Holds(tlv, 0, head) /\ Holds(tlv, 4, v) /\ Len(tlv) = 4 + Len(v)
    BY <1>3, HoldsParts
<1>5. Holds(data, k, tlv)
    BY DEF BuildTLV, sizes, head
<1> HIDE DEF tlv
<1>6. k \in Nat /\ k + 4 + Len(v) <= Len(data) /\ Len(data) \in Nat /\ k + 0 = k
    BY <1>1, <1>4, <1>5 DEF Holds
<1>7. Holds(data, k + 0, head) /\ Holds(data, k + 4, v)
    BY <1>3, <1>4, <1>5, HoldsWithin
<1>8. Holds(data, k, head)
    BY <1>6, <1>7
<1>9. Holds(data, k + 0, tag) /\ Holds(data, k + 2, sizes)
    BY <1>2, <1>3, <1>8, HoldsWithin
<1>10. At(data, k + 2) = hi /\ At(data, k + 3) = lo
    <2>1. data[k + 2 + 1] = sizes[1] /\ data[k + 2 + 2] = sizes[2]
        BY <1>2, <1>9 DEF Holds
    <2>2. k + 2 + 2 = k + 3 + 1
        BY <1>6
    <2>3. QED
        BY <1>2, <2>1, <2>2 DEF At
<1>11. TlvLength(data, k) = Len(v)
    BY <1>1, <1>10 DEF TlvLength
<1>12. HasTlv(data, k)
    BY <1>6, <1>11, <1>1 DEF HasTlv
<1>13. TlvTag(data, k) = tag
    <2>1. Slice(data, k, k + Len(tag)) = tag
        BY <1>6, <1>9, HoldsSlice
    <2>2. QED
        BY <2>1 DEF TlvTag
<1>14. TlvValue(data, k) = v
    BY <1>7, <1>11, HoldsSlice DEF TlvValue
<1>15. QED
    BY <1>11, <1>12, <1>13, <1>14

\* At the end of the data there is no TLV.
LEMMA NoTlvAtEnd == ASSUME NEW data \in Seq(Bytes) PROVE ~HasTlv(data, Len(data))
<1>1. Len(data) \in Nat
    OBVIOUS
<1>2. QED
    BY <1>1 DEF HasTlv

\* TLVs in the last piece of the data are those of the piece.
LEMMA TlvInside ==
    ASSUME NEW data \in Seq(Bytes), NEW s \in Seq(Bytes), NEW k, Holds(data, k, s),
           k + Len(s) = Len(data), NEW j \in 0..Len(s), HasTlv(data, k + j)
    PROVE  /\ HasTlv(s, j) /\ TlvLength(data, k + j) = TlvLength(s, j)
           /\ TlvTag(data, k + j) = TlvTag(s, j) /\ TlvValue(data, k + j) = TlvValue(s, j)
           /\ j + 4 + TlvLength(s, j) \in 0..Len(s)
<1>1. /\ k \in Nat /\ Len(s) \in Nat /\ Len(data) \in Nat /\ j \in Nat /\ j <= Len(s)
      /\ \A i \in 1..Len(s) : data[k + i] = s[i]
    BY DEF Holds
<1>2. k + j + 4 <= Len(data) /\ k + j + 4 + TlvLength(data, k + j) <= Len(data)
    BY DEF HasTlv
<1>3. j + 4 <= Len(s)
    BY <1>1, <1>2
<1>4. TlvLength(data, k + j) = TlvLength(s, j) /\ TlvLength(s, j) \in Nat
    <2>1. j + 3 \in 1..Len(s) /\ j + 4 \in 1..Len(s)
        BY <1>1, <1>3
    <2>2. data[k + (j + 3)] = s[j + 3] /\ data[k + (j + 4)] = s[j + 4]
        BY <1>1, <2>1
    <2>3. /\ k + (j + 3) = k + j + 2 + 1 /\ k + (j + 4) = k + j + 3 + 1
          /\ j + 2 + 1 = j + 3 /\ j + 3 + 1 = j + 4
        BY <1>1
    <2>4. At(data, k + j + 2) = At(s, j + 2) /\ At(data, k + j + 3) = At(s, j + 3)
        BY <2>2, <2>3 DEF At
    <2>5. s[j + 3] \in Bytes /\ s[j + 4] \in Bytes
        BY <2>1, ElementOfSeq
    <2>6. At(s, j + 2) \in Nat /\ At(s, j + 3) \in Nat /\ Byte \in Nat
        BY <2>3, <2>5, ByteSequences DEF At, Bytes
    <2>7. At(s, j + 2) * Byte + At(s, j + 3) \in Nat
        BY <2>6, SMTT(30)
    <2>8. QED
        BY <2>4, <2>7 DEF TlvLength
<1> DEFINE l == TlvLength(s, j)
<1> HIDE DEF l
<1>5. l \in Nat /\ TlvLength(data, k + j) = l /\ TlvLength(s, j) = l
    BY <1>4 DEF l
<1>6. j + 4 + l <= Len(s) /\ j + 4 + l \in 0..Len(s)
    BY <1>1, <1>2, <1>5
<1>7. HasTlv(s, j)
    BY <1>3, <1>5, <1>6 DEF HasTlv
<1>8. ASSUME NEW b \in Nat, NEW e \in Nat, b <= e, e <= Len(s)
      PROVE  Slice(data, k + b, k + e) = Slice(s, b, e)
    <2> DEFINE piece == Slice(s, b, e)
    <2>1. /\ piece \in Seq(Bytes) /\ Len(piece) = e - b
          /\ \A i \in 1..e - b : piece[i] = s[b + i]
        <3>1. b + 1 \in 1..Len(s) + 1 /\ e \in b..Len(s)
            BY <1>1, <1>8
        <3>2. /\ SubSeq(s, b + 1, e) \in Seq(Bytes)
              /\ Len(SubSeq(s, b + 1, e)) = IF b + 1 <= e THEN e - (b + 1) + 1 ELSE 0
              /\ \A i \in 1..e - (b + 1) + 1 : SubSeq(s, b + 1, e)[i] = s[b + 1 + i - 1]
            BY <3>1, <1>1, SubSeqProperties
        <3>3. e - (b + 1) + 1 = e - b /\ \A i \in 1..e - b : b + 1 + i - 1 = b + i
            OBVIOUS
        <3>4. QED
            BY <1>8, <3>2, <3>3 DEF Slice
    <2> HIDE DEF piece
    <2>2. Holds(data, k + b, piece)
        <3>1. k + b \in Nat /\ k + b + Len(piece) <= Len(data)
            BY <1>1, <1>8, <2>1
        <3>2. ASSUME NEW i \in 1..Len(piece) PROVE data[k + b + i] = piece[i]
            <4>1. b + i \in 1..Len(s) /\ k + (b + i) = k + b + i
                BY <1>1, <1>8, <2>1
            <4>2. QED
                BY <1>1, <2>1, <4>1
        <3>3. QED
            BY <3>1, <3>2 DEF Holds
    <2>3. Slice(data, k + b, k + b + Len(piece)) = piece
        BY <2>1, <2>2, HoldsSlice
    <2>4. k + b + Len(piece) = k + e
        BY <1>1, <1>8, <2>1
    <2>5. QED
        BY <2>3, <2>4 DEF piece
<1>9. TlvTag(data, k + j) = TlvTag(s, j)
    <2>1. j \in Nat /\ j + 2 \in Nat /\ j <= j + 2 /\ j + 2 <= Len(s) /\ k + (j + 2) = k + j + 2
        BY <1>1, <1>3
    <2>2. Slice(data, k + j, k + (j + 2)) = Slice(s, j, j + 2)
        BY <1>8, <2>1
    <2>3. QED
        BY <2>1, <2>2 DEF TlvTag
<1>10. TlvValue(data, k + j) = TlvValue(s, j)
    <2>1. /\ j + 4 \in Nat /\ j + 4 + l \in Nat /\ j + 4 <= j + 4 + l /\ k + (j + 4) = k + j + 4
          /\ k + (j + 4 + l) = k + j + 4 + l
        BY <1>1, <1>5
    <2>2. Slice(data, k + (j + 4), k + (j + 4 + l)) = Slice(s, j + 4, j + 4 + l)
        BY <1>6, <1>8, <2>1
    <2>3. QED
        BY <1>5, <2>1, <2>2 DEF TlvValue
<1>11. QED
    BY <1>5, <1>6, <1>7, <1>9, <1>10

\* A single byte of a piece.
LEMMA HoldsAt ==
    ASSUME NEW data \in Seq(Bytes), NEW y \in Seq(Bytes), NEW k, NEW j \in Nat,
           Holds(data, k, y), j < Len(y)
    PROVE  At(data, k + j) = y[j + 1] /\ k \in Nat /\ k + j < Len(data) /\ Len(data) \in Nat
<1>1. /\ k \in Nat /\ Len(y) \in Nat /\ Len(data) \in Nat /\ k + Len(y) <= Len(data)
      /\ \A i \in 1..Len(y) : data[k + i] = y[i]
    BY DEF Holds
<1>2. j + 1 \in 1..Len(y) /\ k + (j + 1) = k + j + 1
    BY <1>1
<1>3. data[k + (j + 1)] = y[j + 1]
    BY <1>1, <1>2
<1>4. QED
    BY <1>1, <1>2, <1>3 DEF At

\* An empty string is a single 0.
LEMMA EmptyAt ==
    ASSUME NEW data \in Seq(Bytes), NEW k \in Nat, k < Len(data), At(data, k) = 0
    PROVE  ExtractCString(data, k).next = k + 1
<1> DEFINE x == CString(<<>>)
<1>1. <<>> \in Seq(1..Byte - 1) /\ Len(<<>>) = 0
    OBVIOUS
<1>2. Len(x) = Len(<<>>) + 1 /\ x[Len(<<>>) + 1] = 0
    BY <1>1, StringBytes
<1> HIDE DEF x
<1>3. Len(x) = 1 /\ x[1] = 0 /\ Len(data) \in Nat
    BY <1>1, <1>2
<1>4. Holds(data, k, x)
    <2>1. \A i \in 1..Len(x) : data[k + i] = x[i]
        BY <1>3 DEF At
    <2>2. QED
        BY <1>3, <2>1 DEF Holds
<1>5. ExtractCString(data, k) = [string |-> <<>>, next |-> k + Len(<<>>) + 1]
    BY <1>1, <1>4, StringAt DEF x
<1>6. QED
    BY <1>1, <1>5

\* Where the two addresses are.
LEMMA AddressedShape ==
    ASSUME NEW f \in Seq(1..Byte - 1), NEW t \in Seq(1..Byte - 1)
    PROVE  LET head == Addressed(f, t)
           IN  /\ head \in Seq(Bytes) /\ Len(head) = 7 + Len(f) + Len(t)
               /\ Len(f) \in Nat /\ Len(t) \in Nat
               /\ Holds(head, 0, <<0, 0, 0>>) /\ Holds(head, 3, CString(f))
               /\ Holds(head, 4 + Len(f), <<0, 0>>) /\ Holds(head, 6 + Len(f), CString(t))
<1> DEFINE zs == <<0, 0, 0>>
           zz == <<0, 0>>
           h1 == zs \o CString(f)
           h2 == h1 \o zz
           h3 == h2 \o CString(t)
<1>1. /\ zs \in Seq(Bytes) /\ Len(zs) = 3 /\ zz \in Seq(Bytes) /\ Len(zz) = 2
      /\ CString(f) \in Seq(Bytes) /\ Len(CString(f)) = Len(f) + 1
      /\ CString(t) \in Seq(Bytes) /\ Len(CString(t)) = Len(t) + 1
      /\ Len(f) \in Nat /\ Len(t) \in Nat
    BY StringBytes, ByteSequences
<1>2. h3 = Addressed(f, t)
    BY DEF Addressed
<1> HIDE DEF zs, zz
<1>3. h1 \in Seq(Bytes) /\ Len(h1) = 4 + Len(f) /\ Holds(h1, 0, zs) /\ Holds(h1, 3, CString(f))
    <2>1. /\ h1 \in Seq(Bytes) /\ Len(h1) = Len(zs) + Len(CString(f))
          /\ Holds(h1, 0, zs) /\ Holds(h1, Len(zs), CString(f))
        BY <1>1, HoldsParts
    <2> HIDE DEF h1
    <2>2. QED
        BY <1>1, <2>1
<1> HIDE DEF h1
<1>4. h2 \in Seq(Bytes) /\ Len(h2) = 6 + Len(f) /\ Holds(h2, 0, h1) /\ Holds(h2, 4 + Len(f), zz)
    <2>1. /\ h2 \in Seq(Bytes) /\ Len(h2) = Len(h1) + Len(zz)
          /\ Holds(h2, 0, h1) /\ Holds(h2, Len(h1), zz)
        BY <1>1, <1>3, HoldsParts
    <2> HIDE DEF h2
    <2>2. QED
        BY <1>1, <1>3, <2>1
<1> HIDE DEF h2
<1>5. /\ h3 \in Seq(Bytes) /\ Len(h3) = 7 + Len(f) + Len(t)
      /\ Holds(h3, 0, h2) /\ Holds(h3, 6 + Len(f), CString(t))
    <2>1. /\ h3 \in Seq(Bytes) /\ Len(h3) = Len(h2) + Len(CString(t))
          /\ Holds(h3, 0, h2) /\ Holds(h3, Len(h2), CString(t))
        BY <1>1, <1>4, HoldsParts
    <2> HIDE DEF h3
    <2>2. QED
        BY <1>1, <1>4, <2>1
<1> HIDE DEF h3
<1>6. Holds(h3, 0 + 0, h1) /\ Holds(h3, 0 + (4 + Len(f)), zz)
    BY <1>1, <1>3, <1>4, <1>5, HoldsWithin
<1>7. Holds(h3, 0, h1) /\ Holds(h3, 4 + Len(f), zz)
    BY <1>1, <1>6
<1>8. Holds(h3, 0 + 0, zs) /\ Holds(h3, 0 + 3, CString(f))
    BY <1>1, <1>3, <1>5, <1>7, HoldsWithin
<1>9. Holds(h3, 0, zs) /\ Holds(h3, 3, CString(f))
    BY <1>8
<1>10. QED
    BY <1>1, <1>2, <1>5, <1>7, <1>9 DEF zs, zz

\* The addresses are read as they were built.
LEMMA AddressesAt ==
    ASSUME NEW data \in Seq(Bytes), NEW f \in Seq(1..Byte - 1), NEW t \in Seq(1..Byte - 1),
           Holds(data, 0, Addressed(f, t))
    PROVE  Addresses(data) = [service |-> 1, from |-> f, source |-> 4 + Len(f), to |-> t,
                              esm |-> 7 + Len(f) + Len(t)]
<1> DEFINE head == Addressed(f, t)
           zs == <<0, 0, 0>>
<1>1. /\ head \in Seq(Bytes) /\ Len(head) = 7 + Len(f) + Len(t)
      /\ Len(f) \in Nat /\ Len(t) \in Nat
      /\ Holds(head, 0, <<0, 0, 0>>) /\ Holds(head, 3, CString(f))
      /\ Holds(head, 6 + Len(f), CString(t))
    BY AddressedShape
<1>2. /\ CString(f) \in Seq(Bytes) /\ CString(t) \in Seq(Bytes)
      /\ zs \in Seq(Bytes) /\ Len(zs) = 3 /\ zs[1] = 0
    BY StringBytes, ByteSequences
<1>3. Holds(data, 0 + 0, zs) /\ Holds(data, 0 + 3, CString(f))
      /\ Holds(data, 0 + (6 + Len(f)), CString(t))
    <2> HIDE DEF head
    <2>1. QED
        BY <1>1, <1>2, HoldsWithin DEF head
<1> HIDE DEF head, zs
<1>4. Holds(data, 0, zs) /\ Holds(data, 3, CString(f)) /\ Holds(data, 6 + Len(f), CString(t))
    BY <1>1, <1>3
<1>5. ExtractCString(data, 0).next = 1
    <2>1. /\ zs \in Seq(Bytes) /\ Holds(data, 0, zs)
          /\ 0 \in Nat /\ 0 < Len(zs)
        BY <1>2, <1>4
    <2>2. \A j \in Nat : j < Len(zs) => At(data, 0 + j) = zs[j + 1] /\ 0 + j < Len(data)
        BY <2>1, HoldsAt
    <2>3. At(data, 0 + 0) = zs[0 + 1] /\ 0 + 0 < Len(data)
        BY <2>1, <2>2
    <2>4. At(data, 0) = 0 /\ 0 < Len(data)
        BY <1>2, <2>3
    <2>5. ExtractCString(data, 0).next = 0 + 1
        BY <2>4, EmptyAt
    <2>6. QED
        BY <2>5
<1>6. ExtractCString(data, 3) = [string |-> f, next |-> 3 + Len(f) + 1]
    BY <1>4, StringAt
<1>7. ExtractCString(data, 6 + Len(f)) = [string |-> t, next |-> 6 + Len(f) + Len(t) + 1]
    BY <1>4, StringAt
<1>8. 1 + 2 = 3 /\ 3 + Len(f) + 1 = 4 + Len(f) /\ 4 + Len(f) + 2 = 6 + Len(f)
      /\ 6 + Len(f) + Len(t) + 1 = 7 + Len(f) + Len(t)
    BY <1>1
<1>9. QED
    BY <1>5, <1>6, <1>7, <1>8 DEF Addresses

\* From esm_class to sm_length.
Middle(e, r, n) == <<e, 0, 0, 0, 0, r, 0, 0, 0, n>>

\* The bodies of submit_sm and deliver_sm without TLVs.
Plain(f, t, e, r, n, s) == Addressed(f, t) \o Middle(e, r, n) \o s

\* Where the parts of a body are.
LEMMA PlainShape ==
    ASSUME NEW f \in Seq(1..Byte - 1), NEW t \in Seq(1..Byte - 1), NEW e \in Bytes,
           NEW r \in Bytes, NEW n \in Bytes, NEW s \in Seq(Bytes)
    PROVE  LET plain == Plain(f, t, e, r, n, s)
               esm   == 7 + Len(f) + Len(t)
           IN  /\ plain \in Seq(Bytes) /\ Len(plain) = esm + 10 + Len(s)
               /\ esm \in Nat /\ Len(f) \in Nat /\ Len(t) \in Nat /\ Len(s) \in Nat
               /\ Middle(e, r, n) \in Seq(Bytes) /\ Len(Middle(e, r, n)) = 10
               /\ Holds(plain, 0, Addressed(f, t)) /\ Holds(plain, esm, Middle(e, r, n))
               /\ Holds(plain, esm + 10, s)
<1> DEFINE a == Addressed(f, t)
           m == Middle(e, r, n)
           b == a \o m
           esm == 7 + Len(f) + Len(t)
<1>1. /\ a \in Seq(Bytes) /\ Len(a) = esm /\ Len(f) \in Nat /\ Len(t) \in Nat
    BY AddressedShape
<1>2. m \in Seq(Bytes) /\ Len(m) = 10
    BY ByteSequences DEF Middle
<1> HIDE DEF a, m
<1>3. /\ b \in Seq(Bytes) /\ Len(b) = esm + 10 /\ Holds(b, 0, a) /\ Holds(b, esm, m)
    BY <1>1, <1>2, HoldsParts
<1> DEFINE p == b \o s
<1> HIDE DEF b
<1>4. /\ p \in Seq(Bytes) /\ Len(p) = esm + 10 + Len(s)
      /\ Holds(p, 0, b) /\ Holds(p, esm + 10, s)
    BY <1>3, HoldsParts
<1>5. p = Plain(f, t, e, r, n, s)
    BY DEF b, a, m, Plain
<1> HIDE DEF p
<1>6. Holds(p, 0 + 0, a) /\ Holds(p, 0 + esm, m)
    BY <1>1, <1>2, <1>3, <1>4, HoldsWithin
<1>7. Holds(p, 0, a) /\ Holds(p, esm, m) /\ esm \in Nat /\ Len(s) \in Nat
    BY <1>1, <1>6
<1>8. QED
    BY <1>1, <1>2, <1>4, <1>5, <1>7 DEF a, m

\* What every parser reads before the short message.
LEMMA PlainAt ==
    ASSUME NEW f \in Seq(1..Byte - 1), NEW t \in Seq(1..Byte - 1), NEW e \in Bytes,
           NEW r \in Bytes, NEW n \in Bytes, NEW s \in Seq(Bytes),
           NEW data \in Seq(Bytes), Holds(data, 0, Plain(f, t, e, r, n, s))
    PROVE  LET esm == 7 + Len(f) + Len(t)
           IN  /\ Addresses(data) = [service |-> 1, from |-> f, source |-> 4 + Len(f),
                                     to |-> t, esm |-> esm]
               /\ At(data, esm) = e /\ ReceiptOffset(data, esm) = esm + 5
               /\ At(data, esm + 5) = r /\ At(data, esm + 9) = n
               /\ Holds(data, esm + 10, s) /\ esm + 10 + Len(s) <= Len(data)
<1> DEFINE plain == Plain(f, t, e, r, n, s)
           esm == 7 + Len(f) + Len(t)
           m == Middle(e, r, n)
<1>1. /\ plain \in Seq(Bytes) /\ Len(plain) = esm + 10 + Len(s)
      /\ esm \in Nat /\ Len(f) \in Nat /\ Len(t) \in Nat /\ Len(s) \in Nat
      /\ m \in Seq(Bytes) /\ Len(m) = 10 /\ Addressed(f, t) \in Seq(Bytes)
      /\ Holds(plain, 0, Addressed(f, t)) /\ Holds(plain, esm, m) /\ Holds(plain, esm + 10, s)
    BY PlainShape, AddressedShape
<1>2. m[1] = e /\ m[4] = 0 /\ m[5] = 0 /\ m[6] = r /\ m[10] = n
    BY DEF Middle
<1> HIDE DEF plain, m
<1>3. /\ Holds(data, 0 + 0, Addressed(f, t)) /\ Holds(data, 0 + esm, m)
      /\ Holds(data, 0 + (esm + 10), s)
    BY <1>1, HoldsWithin DEF plain
<1>4. /\ Holds(data, 0, Addressed(f, t)) /\ Holds(data, esm, m) /\ Holds(data, esm + 10, s)
    BY <1>1, <1>3
<1>5. Addresses(data) = [service |-> 1, from |-> f, source |-> 4 + Len(f), to |-> t,
                         esm |-> esm]
    BY <1>4, AddressesAt
<1> HIDE DEF esm
<1>6. \A j \in 0..9 : At(data, esm + j) = m[j + 1] /\ esm + j < Len(data)
    <2>1. m \in Seq(Bytes) /\ Holds(data, esm, m) /\ Len(m) = 10
        BY <1>1, <1>4
    <2>2. \A j \in Nat : j < Len(m) => At(data, esm + j) = m[j + 1] /\ esm + j < Len(data)
        BY <2>1, HoldsAt
    <2>3. \A j \in 0..9 : j \in Nat /\ j < Len(m)
        BY <2>1
    <2>4. QED
        BY <2>2, <2>3
<1>7. /\ At(data, esm + 0) = e /\ At(data, esm + 3) = 0 /\ At(data, esm + 4) = 0
      /\ At(data, esm + 5) = r /\ At(data, esm + 9) = n
      /\ esm + 3 < Len(data) /\ esm + 4 < Len(data) /\ esm + 0 = esm
    <2>1. {0, 3, 4, 5, 9} \subseteq 0..9
        OBVIOUS
    <2>2. QED
        BY <1>1, <1>2, <1>6
<1>8. ReceiptOffset(data, esm) = esm + 5
    <2>1. ExtractCString(data, esm + 3).next = esm + 3 + 1
        BY <1>1, <1>7, EmptyAt
    <2>2. ExtractCString(data, esm + 4).next = esm + 4 + 1
        BY <1>1, <1>7, EmptyAt
    <2>3. esm + 3 + 1 = esm + 4 /\ esm + 4 + 1 = esm + 5
        BY <1>1
    <2>4. QED
        BY <2>1, <2>2, <2>3 DEF ReceiptOffset
<1>9. esm + 10 + Len(s) <= Len(data)
    BY <1>4 DEF Holds
<1>10. QED
    BY <1>4, <1>5, <1>7, <1>8, <1>9 DEF esm

\* The start of a sequence.
LEMMA Starts ==
    ASSUME NEW s \in Seq(Bytes), NEW n \in 0..Len(s)
    PROVE  LET start == SubSeq(s, 1, n)
           IN  /\ start \in Seq(Bytes) /\ Len(start) = n
               /\ \A i \in 1..n : start[i] = s[i]
<1>1. n \in 1 - 1..Len(s) /\ 1 \in 1..Len(s) + 1 /\ Len(s) \in Nat
    OBVIOUS
<1>2. /\ SubSeq(s, 1, n) \in Seq(Bytes)
      /\ Len(SubSeq(s, 1, n)) = IF 1 <= n THEN n - 1 + 1 ELSE 0
      /\ \A i \in 1..n - 1 + 1 : SubSeq(s, 1, n)[i] = s[1 + i - 1]
    BY <1>1, SubSeqProperties
<1>3. Len(SubSeq(s, 1, n)) = n
    BY <1>1, <1>2
<1>4. ASSUME NEW i \in 1..n PROVE SubSeq(s, 1, n)[i] = s[i]
    <2>1. i \in 1..n - 1 + 1 /\ 1 + i - 1 = i
        BY <1>1
    <2>2. QED
        BY <1>2, <2>1
<1>5. QED
    BY <1>2, <1>3, <1>4

\* The start of a piece.
LEMMA SliceStarts ==
    ASSUME NEW data \in Seq(Bytes), NEW s \in Seq(Bytes), NEW k, Holds(data, k, s),
           NEW n \in 0..Len(s)
    PROVE  Slice(data, k, k + n) = SubSeq(s, 1, n)
<1> DEFINE x == SubSeq(s, 1, n)
<1>1. x \in Seq(Bytes) /\ Len(x) = n /\ \A i \in 1..n : x[i] = s[i]
    BY Starts
<1> HIDE DEF x
<1>2. Len(s) \in Nat /\ Len(data) \in Nat /\ k \in Nat /\ k + Len(s) <= Len(data)
    BY DEF Holds
<1>3. Holds(data, k, x)
    <2>1. k + Len(x) <= Len(data)
        BY <1>1, <1>2
    <2>2. ASSUME NEW i \in 1..Len(x) PROVE data[k + i] = x[i]
        <3>1. i \in 1..n /\ i \in 1..Len(s)
            BY <1>1, <1>2
        <3>2. data[k + i] = s[i]
            BY <3>1 DEF Holds
        <3>3. QED
            BY <1>1, <3>1, <3>2
    <2>3. QED
        BY <1>2, <2>1, <2>2 DEF Holds
<1>4. Slice(data, k, k + Len(x)) = x
    BY <1>1, <1>3, HoldsSlice
<1>5. QED
    BY <1>1, <1>4 DEF x

\* The start of length 0.
LEMMA EmptyStart == ASSUME NEW s \in Seq(Bytes) PROVE SubSeq(s, 1, 0) = <<>>
<1>1. SubSeq(s, 1, 0) \in Seq(Bytes) /\ Len(SubSeq(s, 1, 0)) = 0
    BY Starts
<1>2. QED
    BY <1>1

\* parseSubmitSM reads what buildSubmitSMBody has built, the text up to the length it is told.
LEMMA SubmitParsed ==
    ASSUME NEW f \in Seq(1..Byte - 1), NEW t \in Seq(1..Byte - 1), NEW e \in Bytes,
           NEW r \in Bytes, NEW n \in Bytes, NEW s \in Seq(Bytes), n <= Len(s),
           NEW data \in Seq(Bytes), Holds(data, 0, Plain(f, t, e, r, n, s))
    PROVE  ParseSubmitSM(data) =
               [valid |-> TRUE,
                message |-> [from |-> f, to |-> t, text |-> SubSeq(s, 1, n),
                             ussd |-> e = EsmUssd, receipt |-> r # 0],
                end |-> 7 + Len(f) + Len(t) + 10 + n]
<1> DEFINE esm == 7 + Len(f) + Len(t)
<1>1. /\ Addresses(data) = [service |-> 1, from |-> f, source |-> 4 + Len(f),
                            to |-> t, esm |-> esm]
      /\ At(data, esm) = e /\ ReceiptOffset(data, esm) = esm + 5
      /\ At(data, esm + 5) = r /\ At(data, esm + 9) = n
      /\ Holds(data, esm + 10, s) /\ esm + 10 + Len(s) <= Len(data)
    BY PlainAt
<1>2. /\ Len(f) \in Nat /\ Len(t) \in Nat /\ Len(s) \in Nat /\ Len(data) \in Nat
      /\ n \in Nat /\ n \in 0..Len(s) /\ esm \in Nat
    BY ByteSequences DEF Bytes
<1>3. Slice(data, esm + 10, esm + 10 + n) = SubSeq(s, 1, n)
    BY <1>1, <1>2, SliceStarts
<1>4. /\ esm + 5 + 4 = esm + 9 /\ esm + 9 + 1 = esm + 10
      /\ ~(esm + 10 + n > Len(data))
    BY <1>1, <1>2
<1>5. \A i \in {1, 1 + 1, 4 + Len(f), 4 + Len(f) + 1, esm, esm + 5, esm + 5 + 2, esm + 9} :
          ~(i >= Len(data))
    BY <1>1, <1>2
<1> HIDE DEF esm
<1>6. QED
    <2> DEFINE a == [service |-> 1, from |-> f, source |-> 4 + Len(f), to |-> t, esm |-> esm]
    <2>1. /\ Addresses(data) = a /\ a.service = 1 /\ a.source = 4 + Len(f) /\ a.esm = esm
          /\ a.from = f /\ a.to = t
        BY <1>1
    <2> HIDE DEF a
    <2>2. ParseSubmitSM(data) =
               [valid |-> TRUE,
                message |-> [from |-> f, to |-> t, text |-> SubSeq(s, 1, n),
                             ussd |-> e = EsmUssd, receipt |-> r # 0],
                end |-> esm + 10 + n]
        BY <1>1, <1>3, <1>4, <1>5, <2>1 DEF ParseSubmitSM
    <2>3. QED
        BY <2>2 DEF esm

\* parseDeliverSM reads what SendDeliverSM has built, and its loop begins behind the text.
LEMMA DeliverParsed ==
    ASSUME NEW f \in Seq(1..Byte - 1), NEW t \in Seq(1..Byte - 1), NEW e \in Bytes,
           NEW s \in Seq(Bytes), NEW data \in Seq(Bytes), Len(s) \in Bytes,
           Holds(data, 0, Plain(f, t, e, 0, Len(s), s))
    PROVE  /\ ParseDeliverSM(data) = [from |-> f, to |-> t, text |-> s,
                                      receipt |-> e = EsmReceipt, id |-> <<>>, ncs |-> Smsc]
           /\ DeliverTlvs(data) = 7 + Len(f) + Len(t) + 10 + Len(s)
<1> DEFINE esm == 7 + Len(f) + Len(t)
<1>1. /\ Addresses(data) = [service |-> 1, from |-> f, source |-> 4 + Len(f),
                            to |-> t, esm |-> esm]
      /\ At(data, esm) = e /\ ReceiptOffset(data, esm) = esm + 5
      /\ At(data, esm + 9) = Len(s) /\ Holds(data, esm + 10, s)
    <2>1. 0 \in Bytes
        BY ByteSequences
    <2>2. QED
        BY <2>1, PlainAt
<1>2. /\ Len(f) \in Nat /\ Len(t) \in Nat /\ Len(s) \in Nat /\ esm \in Nat
    OBVIOUS
<1>3. Slice(data, esm + 10, esm + 10 + Len(s)) = s
    BY <1>1, HoldsSlice
<1>4. esm + 5 + 4 = esm + 9 /\ esm + 9 + 1 = esm + 10
    BY <1>2
<1> HIDE DEF esm
<1>5. Addresses(data).esm = esm /\ Addresses(data).from = f /\ Addresses(data).to = t
    BY <1>1
<1>6. ParseDeliverSM(data) = [from |-> f, to |-> t, text |-> s, receipt |-> e = EsmReceipt,
                              id |-> <<>>, ncs |-> Smsc]
    BY <1>1, <1>3, <1>4, <1>5 DEF ParseDeliverSM
<1>7. DeliverTlvs(data) = esm + 10 + Len(s)
    BY <1>1, <1>5 DEF DeliverTlvs
<1>8. QED
    BY <1>6, <1>7 DEF esm

\* Where the data ends without a 0, so does the string.
LEMMA StringBeyond ==
    ASSUME NEW data \in Seq(Bytes), NEW k \in Nat, \A i \in k..Len(data) - 1 : At(data, i) # 0
    PROVE  ExtractCString(data, k).next >= Len(data)
<1>1. Len(data) \in Nat
    OBVIOUS
<1>2. CASE k >= Len(data)
    BY <1>2 DEF ExtractCString
<1>3. CASE ~(k >= Len(data))
    <2>1. StringEnd(data, k) = Len(data)
        <3>1. {l \in k..Len(data) - 1 : At(data, l) = 0} \cup {Len(data)} = {Len(data)}
            OBVIOUS
        <3>2. Min({Len(data)}) = Len(data)
            BY <1>1, MinIs
        <3>3. QED
            BY <3>1, <3>2 DEF StringEnd
    <2>2. Min({Len(data) + 1, Len(data)}) = Len(data)
        <3>1. /\ {Len(data) + 1, Len(data)} \in SUBSET Int
              /\ \A y \in {Len(data) + 1, Len(data)} : Len(data) <= y
            BY <1>1
        <3>2. QED
            BY <3>1, MinIs
    <2>3. ExtractCString(data, k).next = Len(data)
        BY <1>3, <2>1, <2>2 DEF ExtractCString
    <2>4. QED
        BY <1>1, <2>3
<1>4. QED
    BY <1>2, <1>3

\* Behind the end of the data there is nothing.
LEMMA NothingBeyond ==
    ASSUME NEW data \in Seq(Bytes), NEW k \in Nat, k >= Len(data)
    PROVE  ExtractCString(data, k).next = k
BY DEF ExtractCString

\* What remains of a piece in a start of the data.
LEMMA StartHolds ==
    ASSUME NEW whole \in Seq(Bytes), NEW n \in 0..Len(whole), NEW k, NEW x \in Seq(Bytes),
           Holds(whole, k, x), k + Len(x) <= n
    PROVE  Holds(SubSeq(whole, 1, n), k, x)
<1> DEFINE data == SubSeq(whole, 1, n)
<1>1. /\ data \in Seq(Bytes) /\ Len(data) = n /\ \A i \in 1..n : data[i] = whole[i]
    BY Starts
<1> HIDE DEF data
<1>2. /\ k \in Nat /\ Len(x) \in Nat /\ n \in Nat /\ \A i \in 1..Len(x) : whole[k + i] = x[i]
    BY DEF Holds
<1>3. ASSUME NEW i \in 1..Len(x) PROVE data[k + i] = x[i]
    <2>1. k + i \in 1..n
        BY <1>2
    <2>2. QED
        BY <1>1, <1>2, <2>1
<1>4. Holds(data, k, x)
    BY <1>1, <1>2, <1>3 DEF Holds
<1>5. QED
    BY <1>4 DEF data

\* A string that is cut off.
LEMMA CutString ==
    ASSUME NEW whole \in Seq(Bytes), NEW n \in 0..Len(whole), NEW k,
           NEW x \in Seq(1..Byte - 1), Holds(whole, k, CString(x)), n < k + Len(x) + 1
    PROVE  ExtractCString(SubSeq(whole, 1, n), k).next >= n
<1> DEFINE data == SubSeq(whole, 1, n)
<1>1. /\ data \in Seq(Bytes) /\ Len(data) = n /\ \A i \in 1..n : data[i] = whole[i]
    BY Starts
<1> HIDE DEF data
<1>2. /\ k \in Nat /\ n \in Nat /\ Len(x) \in Nat
      /\ Len(CString(x)) = Len(x) + 1 /\ \A i \in 1..Len(x) : CString(x)[i] = x[i] /\ x[i] # 0
      /\ \A i \in 1..Len(CString(x)) : whole[k + i] = CString(x)[i]
    BY StringBytes DEF Holds
<1>3. ASSUME NEW i \in k..Len(data) - 1 PROVE At(data, i) # 0
    <2>1. i \in Nat /\ k <= i /\ i + 1 <= n
        BY <1>1, <1>2
    <2>2. i - k + 1 \in 1..Len(x) /\ i - k + 1 \in 1..Len(CString(x)) /\ k + (i - k + 1) = i + 1
          /\ i + 1 \in 1..n
        BY <1>2, <2>1
    <2>3. whole[k + (i - k + 1)] # 0
        BY <1>2, <2>2
    <2>4. data[i + 1] # 0
        BY <1>1, <2>2, <2>3
    <2>5. QED
        BY <2>4 DEF At
<1>4. ExtractCString(data, k).next >= Len(data)
    BY <1>1, <1>2, <1>3, StringBeyond
<1>5. QED
    BY <1>1, <1>4 DEF data

\* parseSubmitSM refuses a body where an offset is not before its end.
LEMMA Refused ==
    ASSUME NEW data,
           LET a       == Addresses(data)
               receipt == ReceiptOffset(data, a.esm)
           IN  \/ a.service >= Len(data) \/ a.source >= Len(data) \/ a.esm >= Len(data)
               \/ receipt >= Len(data) \/ receipt + 4 >= Len(data)
               \/ receipt + 4 + 1 + At(data, receipt + 4) > Len(data)
    PROVE  ParseSubmitSM(data) = [valid |-> FALSE, message |-> Nothing, end |-> 0]
BY DEF ParseSubmitSM

\* It refuses a body that is cut off before the end of the text.
LEMMA CutRefused ==
    ASSUME NEW f \in Seq(1..Byte - 1), NEW t \in Seq(1..Byte - 1), NEW e \in Bytes,
           NEW r \in Bytes, NEW s \in Seq(Bytes), Len(s) \in Bytes,
           NEW n \in Nat, n < Len(Plain(f, t, e, r, Len(s), s))
    PROVE  ParseSubmitSM(SubSeq(Plain(f, t, e, r, Len(s), s), 1, n)) =
               [valid |-> FALSE, message |-> Nothing, end |-> 0]
<1> DEFINE whole == Plain(f, t, e, r, Len(s), s)
           data == SubSeq(whole, 1, n)
           esm == 7 + Len(f) + Len(t)
           m == Middle(e, r, Len(s))
           head == Addressed(f, t)
           a == Addresses(data)
           receipt == ReceiptOffset(data, a.esm)
<1>1. /\ whole \in Seq(Bytes) /\ Len(whole) = esm + 10 + Len(s)
      /\ Len(f) \in Nat /\ Len(t) \in Nat /\ Len(s) \in Nat /\ esm \in Nat
      /\ m \in Seq(Bytes) /\ Len(m) = 10
      /\ Holds(whole, 0, head) /\ Holds(whole, esm, m) /\ Holds(whole, esm + 10, s)
    BY PlainShape
<1>2. n \in 0..Len(whole)
    BY <1>1
<1>3. /\ data \in Seq(Bytes) /\ Len(data) = n /\ \A i \in 1..n : data[i] = whole[i]
    BY <1>1, <1>2, Starts
<1>4. /\ head \in Seq(Bytes) /\ Len(head) = esm
      /\ Holds(head, 0, <<0, 0, 0>>) /\ Holds(head, 3, CString(f))
      /\ Holds(head, 6 + Len(f), CString(t))
      /\ CString(f) \in Seq(Bytes) /\ CString(t) \in Seq(Bytes)
      /\ Len(CString(f)) = Len(f) + 1 /\ Len(CString(t)) = Len(t) + 1
      /\ <<0, 0, 0>> \in Seq(Bytes) /\ Len(<<0, 0, 0>>) = 3
    BY AddressedShape, StringBytes, ByteSequences
<1>5. /\ m[4] = 0 /\ m[10] = Len(s)
    BY DEF Middle
<1> HIDE DEF whole, head, m
<1>6. /\ Holds(whole, 0 + 0, <<0, 0, 0>>) /\ Holds(whole, 0 + 3, CString(f))
      /\ Holds(whole, 0 + (6 + Len(f)), CString(t))
    BY <1>1, <1>4, HoldsWithin
<1>7. /\ Holds(whole, 0, <<0, 0, 0>>) /\ Holds(whole, 3, CString(f))
      /\ Holds(whole, 6 + Len(f), CString(t))
    BY <1>1, <1>6
<1>8. whole[1] = 0 /\ whole[esm + 4] = 0 /\ whole[esm + 10] = Len(s)
    <2>1. 1 \in 1..3 /\ 4 \in 1..10 /\ 10 \in 1..10
        OBVIOUS
    <2>2. whole[0 + 1] = <<0, 0, 0>>[1] /\ whole[esm + 4] = m[4] /\ whole[esm + 10] = m[10]
        BY <1>1, <1>4, <1>7, <2>1 DEF Holds
    <2>3. QED
        BY <1>5, <2>2
<1> HIDE DEF data, esm
<1>9. CASE n = 0
    <2>1. ExtractCString(data, 0).next = 0
        <3>1. 0 \in Nat /\ 0 >= Len(data)
            BY <1>3, <1>9
        <3>2. QED
            BY <1>3, <3>1, NothingBeyond
    <2>2. a.service >= Len(data)
        BY <1>3, <1>9, <2>1 DEF Addresses
    <2>3. QED
        BY <2>2, Refused DEF data, whole
<1>10. ASSUME n >= 1 PROVE ExtractCString(data, 0).next = 1
    <2>1. At(data, 0) = 0 /\ 0 < Len(data)
        BY <1>3, <1>8, <1>10 DEF At
    <2>2. ExtractCString(data, 0).next = 0 + 1
        BY <1>3, <2>1, EmptyAt
    <2>3. QED
        BY <2>2
<1>11. CASE n >= 1 /\ n < 4 + Len(f)
    <2>1. n < 3 + Len(f) + 1
        BY <1>1, <1>11
    <2>2. ExtractCString(data, 3).next >= n
        BY <1>1, <1>2, <1>7, <2>1, CutString DEF data
    <2>3. a.source = ExtractCString(data, 3).next
        BY <1>10, <1>11 DEF Addresses
    <2>4. a.source >= Len(data)
        BY <1>3, <2>2, <2>3
    <2>5. QED
        BY <2>4, Refused DEF data, whole
<1>12. CASE n >= 4 + Len(f) /\ n < esm
    <2>1. n >= 1 /\ 3 + (Len(f) + 1) <= n /\ n < 6 + Len(f) + Len(t) + 1
        BY <1>1, <1>12 DEF esm
    <2>2. Holds(data, 3, CString(f))
        BY <1>1, <1>2, <1>4, <1>7, <2>1, StartHolds DEF data
    <2>3. ExtractCString(data, 3).next = 3 + Len(f) + 1
        BY <1>3, <2>2, StringAt
    <2>4. ExtractCString(data, 6 + Len(f)).next >= n
        BY <1>1, <1>2, <1>7, <2>1, CutString DEF data
    <2>5. 1 + 2 = 3 /\ 3 + Len(f) + 1 + 2 = 6 + Len(f)
        BY <1>1
    <2>6. a.esm = ExtractCString(data, 6 + Len(f)).next
        BY <1>10, <2>1, <2>3, <2>5 DEF Addresses
    <2>7. a.esm >= Len(data)
        BY <1>3, <2>4, <2>6
    <2>8. QED
        BY <2>7, Refused DEF data, whole
<1>13. CASE n >= esm
    <2>1. Holds(data, 0, head)
        <3>1. 0 + Len(head) <= n
            BY <1>1, <1>4, <1>13
        <3>2. QED
            BY <1>1, <1>2, <1>4, <3>1, StartHolds DEF data
    <2>2. a.esm = esm
        BY <1>3, <2>1, AddressesAt DEF head, esm
    <2>3. CASE n < esm + 4
        <3>1. n <= esm + 3 /\ esm + 3 \in Nat
            BY <1>1, <2>3
        <3>2. ExtractCString(data, esm + 3).next = esm + 3
            BY <1>3, <3>1, NothingBeyond
        <3>3. receipt = esm + 3
            BY <2>2, <3>2 DEF ReceiptOffset
        <3>4. receipt >= Len(data)
            BY <1>3, <3>1, <3>3
        <3>5. QED
            BY <3>4, Refused DEF data, whole
    <2>4. ASSUME n >= esm + 4 PROVE ExtractCString(data, esm + 3).next = esm + 4
        <3>1. esm + 4 \in 1..n /\ esm + 3 \in Nat /\ esm + 3 < Len(data) /\ esm + 3 + 1 = esm + 4
            BY <1>1, <1>3, <2>4
        <3>2. At(data, esm + 3) = 0
            BY <1>3, <1>8, <3>1 DEF At
        <3>3. ExtractCString(data, esm + 3).next = esm + 3 + 1
            BY <1>3, <3>1, <3>2, EmptyAt
        <3>4. QED
            BY <3>1, <3>3
    <2>5. CASE n = esm + 4
        <3>1. esm + 4 \in Nat /\ esm + 4 >= Len(data) /\ n >= esm + 4
            BY <1>1, <1>3, <2>5
        <3>2. ExtractCString(data, esm + 4).next = esm + 4
            BY <1>3, <3>1, NothingBeyond
        <3>3. receipt = esm + 4
            BY <2>2, <2>4, <3>1, <3>2 DEF ReceiptOffset
        <3>4. receipt >= Len(data)
            BY <3>1, <3>3
        <3>5. QED
            BY <3>4, Refused DEF data, whole
    <2>6. CASE n >= esm + 5
        <3>1. n >= esm + 4 /\ esm + 4 \in Nat /\ esm + 4 < Len(data) /\ esm + 5 \in 1..n
              /\ esm + 4 + 1 = esm + 5
            BY <1>1, <1>3, <2>6
        <3>2. m[5] = 0 /\ 5 \in 1..Len(m)
            BY <1>1 DEF m, Middle
        <3>3. whole[esm + 5] = 0
            BY <1>1, <3>2 DEF Holds
        <3>4. At(data, esm + 4) = 0
            BY <1>3, <3>1, <3>3 DEF At
        <3>5. ExtractCString(data, esm + 4).next = esm + 4 + 1
            BY <1>3, <3>1, <3>4, EmptyAt
        <3>6. receipt = esm + 5
            BY <2>2, <2>4, <3>1, <3>5 DEF ReceiptOffset
        <3>7. receipt + 4 = esm + 9 /\ receipt + 4 + 1 = esm + 10
            BY <1>1, <3>6
        <3>8. CASE n <= esm + 9
            <4>1. receipt + 4 >= Len(data)
                BY <1>1, <1>3, <3>7, <3>8
            <4>2. QED
                BY <4>1, Refused DEF data, whole
        <3>9. CASE n >= esm + 10
            <4>1. esm + 10 \in 1..n /\ esm + 9 + 1 = esm + 10
                BY <1>1, <3>9
            <4>2. At(data, esm + 9) = Len(s)
                BY <1>3, <1>8, <4>1 DEF At
            <4>3. receipt + 4 + 1 + At(data, receipt + 4) > Len(data)
                <5>1. n < esm + 10 + Len(s)
                    BY <1>1 DEF whole
                <5>2. QED
                    BY <1>3, <3>7, <4>2, <5>1
            <4>4. QED
                BY <4>3, Refused DEF data, whole
        <3>10. QED
            BY <1>1, <3>8, <3>9
    <2>7. QED
        BY <1>1, <1>13, <2>3, <2>5, <2>6
<1>14. QED
    BY <1>1, <1>9, <1>11, <1>12, <1>13

\* The constants are sequences of bytes.
LEMMA Values ==
    /\ Addrs \subseteq Seq(1..Byte - 1) /\ Ids \subseteq Seq(1..Byte - 1)
    /\ Texts \subseteq Seq(Bytes)
    /\ \A tag \in {PayloadTag, MessageIdTag, NcsTag, NcsTag2, UssdOpTag} :
           tag \in Seq(Bytes) /\ Len(tag) = 2
    /\ Unknown \in Seq(1..Byte - 1) /\ Smsc \in Seq(1..Byte - 1)
    /\ Ussdc \in Seq(1..Byte - 1) /\ Len(Ussdc) = 2
    /\ <<1>> \in Seq(Bytes) /\ Len(<<1>>) = 1
<1>1. /\ Addrs \subseteq Seq(1..Byte - 1) /\ Ids \subseteq Seq(1..Byte - 1)
      /\ Texts \subseteq Seq(Bytes)
    BY CodecConstants DEF Bytes
<1>2. \A tag \in {PayloadTag, MessageIdTag, NcsTag, NcsTag2, UssdOpTag} :
          tag \in Seq(Bytes) /\ Len(tag) = 2
    BY ByteSequences DEF PayloadTag, MessageIdTag, NcsTag, NcsTag2, UssdOpTag
<1>3. {1, 2, 3} \subseteq 1..Byte - 1
    BY ByteSequences
<1>4. Unknown \in Seq(1..Byte - 1) /\ Smsc \in Seq(1..Byte - 1)
      /\ Ussdc \in Seq(1..Byte - 1) /\ Len(Ussdc) = 2
    BY <1>3 DEF Unknown, Smsc, Ussdc
<1>5. <<1>> \in Seq(Bytes) /\ Len(<<1>>) = 1
    BY ByteSequences
<1>6. QED
    BY <1>1, <1>2, <1>4, <1>5

\* The length of a text that the client writes.
LEMMA Remainder ==
    ASSUME NEW s \in Seq(Bytes)
    PROVE  /\ Len(s) % Byte \in Bytes /\ Len(s) % Byte <= Len(s)
           /\ Len(s) < Byte => Len(s) % Byte = Len(s)
<1> DEFINE l == Len(s)
           d == l \div Byte
           n == l % Byte
<1>1. l \in Nat /\ Byte \in Nat /\ Byte > 0
    BY ByteSequences
<1> HIDE DEF l
<1>2. d \in Nat /\ n \in 0..Byte - 1 /\ l = Byte * d + n
    BY <1>1, Divided
<1>3. l < Byte => n = l
    BY <1>1, SMTT(30)
<1> HIDE DEF d, n
<1>4. Byte * d \in Nat
    BY <1>1, <1>2, SMTT(30)
<1>5. n <= l
    <2> DEFINE p == Byte * d
    <2> HIDE DEF p
    <2>1. p \in Nat /\ n \in Nat /\ l = p + n
        BY <1>2, <1>4, <1>1 DEF p
    <2>2. QED
        BY <2>1
<1>6. QED
    BY <1>2, <1>3, <1>5 DEF l, n, Bytes

\* The body with two pieces behind it.
LEMMA OtherShape ==
    ASSUME NEW plain \in Seq(Bytes), NEW text \in Seq(Bytes)
    PROVE  LET data == plain \o BuildTLV(UssdOpTag, <<1>>) \o BuildTLV(PayloadTag, text)
           IN  /\ data \in Seq(Bytes) /\ Len(data) = Len(plain) + 9 + Len(text)
               /\ Len(plain) \in Nat /\ Len(text) \in Nat
               /\ Holds(data, 0, plain) /\ Holds(data, Len(plain), BuildTLV(UssdOpTag, <<1>>))
               /\ Holds(data, Len(plain) + 5, BuildTLV(PayloadTag, text))
<1> DEFINE t1 == BuildTLV(UssdOpTag, <<1>>)
           t2 == BuildTLV(PayloadTag, text)
           b == plain \o t1
           data == b \o t2
<1>1. t1 \in Seq(Bytes) /\ Len(t1) = 4 + Len(<<1>>)
    BY Values, Building
<1>2. t2 \in Seq(Bytes) /\ Len(t2) = 4 + Len(text)
    BY Values, Building
<1> HIDE DEF t1, t2
<1>3. Len(t1) = 5 /\ Len(plain) \in Nat /\ Len(text) \in Nat
    BY <1>1
<1>4. /\ b \in Seq(Bytes) /\ Len(b) = Len(plain) + 5
      /\ Holds(b, 0, plain) /\ Holds(b, Len(plain), t1)
    BY <1>1, <1>3, HoldsParts
<1> HIDE DEF b
<1>5. /\ data \in Seq(Bytes) /\ Len(data) = Len(b) + Len(t2)
      /\ Holds(data, 0, b) /\ Holds(data, Len(b), t2)
    BY <1>2, <1>4, HoldsParts
<1>6. Holds(data, 0 + 0, plain) /\ Holds(data, 0 + Len(plain), t1)
    BY <1>1, <1>4, <1>5, HoldsWithin
<1> HIDE DEF data
<1>7. /\ data \in Seq(Bytes) /\ Len(data) = Len(plain) + 9 + Len(text)
      /\ Holds(data, 0, plain) /\ Holds(data, Len(plain), t1) /\ Holds(data, Len(plain) + 5, t2)
    BY <1>2, <1>3, <1>4, <1>5, <1>6
<1>8. QED
    BY <1>3, <1>7 DEF data, b, t1, t2

\* The three TLVs of a message over USSD.
UssdTlvs ==
    BuildTLV(NcsTag, CString(Ussdc)) \o BuildTLV(NcsTag2, CString(Ussdc))
        \o BuildTLV(UssdOpTag, <<1>>)

\* Where the three TLVs are.
LEMMA UssdShape ==
    /\ UssdTlvs \in Seq(Bytes) /\ Len(UssdTlvs) = 19
    /\ CString(Ussdc) \in Seq(Bytes) /\ Len(CString(Ussdc)) = 3
    /\ Holds(UssdTlvs, 0, BuildTLV(NcsTag, CString(Ussdc)))
    /\ Holds(UssdTlvs, 7, BuildTLV(NcsTag2, CString(Ussdc)))
    /\ Holds(UssdTlvs, 14, BuildTLV(UssdOpTag, <<1>>))
<1> DEFINE u == CString(Ussdc)
           t1 == BuildTLV(NcsTag, u)
           t2 == BuildTLV(NcsTag2, u)
           t3 == BuildTLV(UssdOpTag, <<1>>)
           b == t1 \o t2
           data == b \o t3
<1>1. u \in Seq(Bytes) /\ Len(u) = Len(Ussdc) + 1
    BY Values, StringBytes
<1>2. u \in Seq(Bytes) /\ Len(u) = 3
    BY <1>1, Values
<1> HIDE DEF u
<1>3. /\ t1 \in Seq(Bytes) /\ Len(t1) = 4 + Len(u) /\ t2 \in Seq(Bytes) /\ Len(t2) = 4 + Len(u)
      /\ t3 \in Seq(Bytes) /\ Len(t3) = 4 + Len(<<1>>)
    BY <1>2, Values, Building
<1>4. Len(t1) = 7 /\ Len(t2) = 7 /\ Len(t3) = 5
    BY <1>2, <1>3
<1> HIDE DEF t1, t2, t3
<1>5. b \in Seq(Bytes) /\ Len(b) = Len(t1) + Len(t2) /\ Holds(b, 0, t1) /\ Holds(b, Len(t1), t2)
    BY <1>3, HoldsParts
<1> HIDE DEF b
<1>6. b \in Seq(Bytes) /\ Len(b) = 14 /\ Holds(b, 0, t1) /\ Holds(b, 7, t2)
    BY <1>4, <1>5
<1>7. /\ data \in Seq(Bytes) /\ Len(data) = Len(b) + Len(t3)
      /\ Holds(data, 0, b) /\ Holds(data, Len(b), t3)
    BY <1>3, <1>6, HoldsParts
<1> HIDE DEF data
<1>8. Holds(data, 0 + 0, t1) /\ Holds(data, 0 + 7, t2)
    BY <1>3, <1>6, <1>7, HoldsWithin
<1>9. /\ data \in Seq(Bytes) /\ Len(data) = 19
      /\ Holds(data, 0, t1) /\ Holds(data, 7, t2) /\ Holds(data, 14, t3)
    BY <1>4, <1>6, <1>7, <1>8
<1>10. QED
    BY <1>2, <1>9 DEF data, b, t1, t2, t3, u, UssdTlvs

\* What SendDeliverSM appends.
LEMMA DeliverShape ==
    ASSUME NEW plain \in Seq(Bytes), NEW id \in Seq(1..Byte - 1), NEW ussd \in BOOLEAN
    PROVE  LET data == plain \o BuildTLV(MessageIdTag, CString(id))
                             \o IF ussd THEN UssdTlvs ELSE <<>>
               past == Len(plain) + 5 + Len(id)
           IN  /\ data \in Seq(Bytes) /\ past \in Nat /\ Len(plain) \in Nat /\ Len(id) \in Nat
               /\ CString(id) \in Seq(Bytes) /\ Len(CString(id)) = Len(id) + 1
               /\ Len(data) = past + IF ussd THEN 19 ELSE 0
               /\ Holds(data, 0, plain)
               /\ Holds(data, Len(plain), BuildTLV(MessageIdTag, CString(id)))
               /\ ussd => /\ Holds(data, past, BuildTLV(NcsTag, CString(Ussdc)))
                          /\ Holds(data, past + 7, BuildTLV(NcsTag2, CString(Ussdc)))
                          /\ Holds(data, past + 14, BuildTLV(UssdOpTag, <<1>>))
<1> DEFINE c == CString(id)
           t == BuildTLV(MessageIdTag, c)
           b == plain \o t
           more == IF ussd THEN UssdTlvs ELSE <<>>
           data == b \o more
           past == Len(plain) + 5 + Len(id)
<1>1. /\ c \in Seq(Bytes) /\ Len(c) = Len(id) + 1 /\ Len(id) \in Nat /\ Len(plain) \in Nat
    BY StringBytes
<1> HIDE DEF c
<1>2. t \in Seq(Bytes) /\ Len(t) = 4 + Len(c)
    BY <1>1, Values, Building
<1>3. more \in Seq(Bytes) /\ Len(more) = IF ussd THEN 19 ELSE 0
    <2>1. <<>> \in Seq(Bytes) /\ Len(<<>>) = 0
        OBVIOUS
    <2>2. CASE ussd
        BY <2>2, UssdShape
    <2>3. CASE ~ussd
        BY <2>1, <2>3
    <2>4. QED
        BY <2>2, <2>3
<1> HIDE DEF t, more
<1>4. /\ b \in Seq(Bytes) /\ Len(b) = Len(plain) + Len(t)
      /\ Holds(b, 0, plain) /\ Holds(b, Len(plain), t)
    BY <1>2, HoldsParts
<1> HIDE DEF b
<1>5. b \in Seq(Bytes) /\ Len(b) = past /\ past \in Nat
    BY <1>1, <1>2, <1>4
<1>6. /\ data \in Seq(Bytes) /\ Len(data) = Len(b) + Len(more)
      /\ Holds(data, 0, b) /\ Holds(data, Len(b), more)
    BY <1>3, <1>4, HoldsParts
<1>7. Holds(data, 0 + 0, plain) /\ Holds(data, 0 + Len(plain), t)
    BY <1>2, <1>4, <1>6, HoldsWithin
<1> HIDE DEF data, past
<1>8. /\ data \in Seq(Bytes) /\ Len(data) = past + Len(more)
      /\ Holds(data, 0, plain) /\ Holds(data, Len(plain), t) /\ Holds(data, past, more)
    BY <1>1, <1>5, <1>6, <1>7
<1>9. ASSUME ussd
      PROVE  /\ Holds(data, past, BuildTLV(NcsTag, CString(Ussdc)))
             /\ Holds(data, past + 7, BuildTLV(NcsTag2, CString(Ussdc)))
             /\ Holds(data, past + 14, BuildTLV(UssdOpTag, <<1>>))
    <2> DEFINE t1 == BuildTLV(NcsTag, CString(Ussdc))
               t2 == BuildTLV(NcsTag2, CString(Ussdc))
               t3 == BuildTLV(UssdOpTag, <<1>>)
    <2>1. t1 \in Seq(Bytes) /\ t2 \in Seq(Bytes) /\ t3 \in Seq(Bytes)
        BY UssdShape, Values, Building
    <2>2. Holds(more, 0, t1) /\ Holds(more, 7, t2) /\ Holds(more, 14, t3)
        BY <1>9, UssdShape DEF more
    <2> HIDE DEF t1, t2, t3
    <2>3. Holds(data, past + 0, t1) /\ Holds(data, past + 7, t2) /\ Holds(data, past + 14, t3)
        BY <1>3, <1>8, <2>1, <2>2, HoldsWithin
    <2>4. QED
        BY <1>5, <2>3 DEF t1, t2, t3
<1>10. QED
    BY <1>1, <1>3, <1>5, <1>8, <1>9 DEF data, b, t, c, more, past

----
\* The four kinds of messages, each with the body the code has built for it.
ClientSent ==
    \E from, to \in Addrs, text \in Texts, ussd, receipt \in BOOLEAN :
        /\ msg = [by |-> "client", from |-> from, to |-> to, text |-> text,
                  ussd |-> ussd, receipt |-> receipt]
        /\ body = BuildSubmitSMBody(msg)

OtherSent ==
    \E from, to \in Addrs, text \in Texts, ussd \in BOOLEAN :
        /\ msg = [by |-> "other", from |-> from, to |-> to, text |-> text,
                  ussd |-> ussd, receipt |-> FALSE]
        /\ body = BuildSubmitSMBody([msg EXCEPT !.text = <<>>])
                      \o BuildTLV(UssdOpTag, <<1>>) \o BuildTLV(PayloadTag, text)

CutSent ==
    \E from, to \in Addrs, text \in Texts :
        /\ msg = [by |-> "cut", from |-> from, to |-> to, text |-> text,
                  ussd |-> FALSE, receipt |-> FALSE]
        /\ Len(text) < Byte
        /\ \E length \in 0..Len(BuildSubmitSMBody(msg)) - 1 :
               body = SubSeq(BuildSubmitSMBody(msg), 1, length)

ServerSent ==
    \E from, to \in Addrs, text \in Texts, ussd, receipt \in BOOLEAN, id \in Ids :
        /\ msg = [by |-> "server", from |-> from, to |-> to, text |-> text,
                  ussd |-> ussd, receipt |-> receipt, id |-> id]
        /\ ~(ussd /\ receipt)
        /\ body = DeliverSM(msg)

Sent == ClientSent \/ OtherSent \/ CutSent \/ ServerSent

\* Where the TLVs begin behind a text of that length.
Behind(from, to, length) == 7 + Len(from) + Len(to) + 10 + length

\* What the server knows of a short message in its loop.
ServerLoop ==
    /\ result = Expected(msg, <<>>)
    /\ \/ /\ msg.by = "client" /\ Len(msg.text) % Byte = 0
          /\ \E i \in 0..Len(msg.text) : offset = Behind(msg.from, msg.to, 0) + i
       \/ /\ msg.by = "other"
          /\ \E i \in {0, 5} : offset = Behind(msg.from, msg.to, 0) + i

\* What the client knows of a message with an id and a service centre.
Told(id, ncs) ==
    [from |-> OrUnknown(msg.from), to |-> OrUnknown(msg.to), text |-> ShortMessage(msg.text),
     receipt |-> msg.receipt, id |-> id, ncs |-> ncs]

\* Where the TLVs of a deliver_sm begin, and where those behind message_id do.
First == Behind(OrUnknown(msg.from), OrUnknown(msg.to), Len(ShortMessage(msg.text)))
Past == First + 5 + Len(msg.id)

\* In its loop the client knows what the TLVs before the offset say.
ClientLoop ==
    /\ msg.by = "server"
    /\ \/ offset = First /\ result = Told(<<>>, Smsc)
       \/ offset = Past /\ result = Told(msg.id, Smsc)
       \/ msg.ussd /\ offset \in {Past + 7, Past + 14, Past + 19} /\ result = Told(msg.id, Ussdc)

\* The inductive invariant: a message that was sent has its body, and a loop over TLVs knows
\* what is before its offset.
CodecInv ==
    /\ stage \in {"idle", "sent", "tlvs", "read", "closed"}
    /\ stage # "idle" => Sent
    /\ stage = "tlvs" => Len(body) <= MaxLength /\ (ServerLoop \/ ClientLoop)
    /\ Understood

\* What the client has sent, as the server parses it.
LEMMA ClientParsed ==
    ASSUME NEW m, NEW f \in Addrs, NEW t \in Addrs, NEW text \in Texts, NEW ussd \in BOOLEAN,
           NEW receipt \in BOOLEAN, NEW by,
           m = [by |-> by, from |-> f, to |-> t, text |-> text,
                ussd |-> ussd, receipt |-> receipt]
    PROVE  /\ BuildSubmitSMBody(m) = Plain(f, t, IF ussd THEN EsmUssd ELSE 0,
                                           RegisteredDelivery(m), Len(text) % Byte, text)
           /\ (IF ussd THEN EsmUssd ELSE 0) \in Bytes /\ RegisteredDelivery(m) \in Bytes
           /\ (RegisteredDelivery(m) # 0) = (receipt /\ ~ussd)
           /\ ((IF ussd THEN EsmUssd ELSE 0) = EsmUssd) = ussd
<1>1. 0 \in Bytes /\ 1 \in Bytes /\ EsmUssd \in Bytes /\ EsmUssd # 0
    BY ByteSequences DEF EsmUssd
<1>2. RegisteredDelivery(m) = IF receipt /\ ~ussd THEN 1 ELSE 0
    BY DEF RegisteredDelivery
<1>3. BuildSubmitSMBody(m) = Plain(f, t, IF ussd THEN EsmUssd ELSE 0,
                                   RegisteredDelivery(m), Len(text) % Byte, text)
    BY DEF BuildSubmitSMBody, Plain, Middle
<1>4. (IF ussd THEN EsmUssd ELSE 0) \in Bytes /\ RegisteredDelivery(m) \in Bytes
    BY <1>1, <1>2
<1>5. (RegisteredDelivery(m) # 0) = (receipt /\ ~ussd)
    BY <1>2
<1>6. ((IF ussd THEN EsmUssd ELSE 0) = EsmUssd) = ussd
    BY <1>1
<1>7. QED
    BY <1>3, <1>4, <1>5, <1>6

\* A message that is sent is one of the four kinds.
LEMMA SendStep ==
    ASSUME CodecInv, NEW m, NEW bytes, Send(m, bytes), Sent'
    PROVE  CodecInv'
BY DEF CodecInv, Send, Understood

\* Every action preserves the invariant.
LEMMA ClientSubmitsStep == ASSUME CodecInv, ClientSubmits PROVE CodecInv'
<1>1. PICK from \in Addrs, to \in Addrs, text \in Texts, ussd \in BOOLEAN, receipt \in BOOLEAN :
          LET m == [by |-> "client", from |-> from, to |-> to, text |-> text,
                    ussd |-> ussd, receipt |-> receipt]
          IN  Send(m, BuildSubmitSMBody(m))
    BY DEF ClientSubmits
<1> DEFINE m == [by |-> "client", from |-> from, to |-> to, text |-> text,
                 ussd |-> ussd, receipt |-> receipt]
<1>2. msg' = m /\ body' = BuildSubmitSMBody(m)
    BY <1>1 DEF Send
<1>3. ClientSent'
    BY <1>2 DEF ClientSent
<1>4. QED
    BY <1>1, <1>3, SendStep DEF Sent

LEMMA OtherSubmitsStep == ASSUME CodecInv, OtherSubmits PROVE CodecInv'
<1>1. PICK from \in Addrs, to \in Addrs, text \in Texts, ussd \in BOOLEAN :
          LET m == [by |-> "other", from |-> from, to |-> to, text |-> text,
                    ussd |-> ussd, receipt |-> FALSE]
          IN  Send(m, BuildSubmitSMBody([m EXCEPT !.text = <<>>])
                          \o BuildTLV(UssdOpTag, <<1>>) \o BuildTLV(PayloadTag, text))
    BY DEF OtherSubmits
<1> DEFINE m == [by |-> "other", from |-> from, to |-> to, text |-> text,
                 ussd |-> ussd, receipt |-> FALSE]
<1>2. msg' = m /\ body' = BuildSubmitSMBody([m EXCEPT !.text = <<>>])
                              \o BuildTLV(UssdOpTag, <<1>>) \o BuildTLV(PayloadTag, text)
    BY <1>1 DEF Send
<1>3. OtherSent'
    BY <1>2 DEF OtherSent
<1>4. QED
    BY <1>1, <1>3, SendStep DEF Sent

LEMMA CutSubmitsStep == ASSUME CodecInv, CutSubmits PROVE CodecInv'
<1>1. PICK from \in Addrs, to \in Addrs, text \in Texts :
          LET m == [by |-> "cut", from |-> from, to |-> to, text |-> text,
                    ussd |-> FALSE, receipt |-> FALSE]
              whole == BuildSubmitSMBody(m)
          IN  /\ Len(text) < Byte
              /\ \E length \in 0..Len(whole) - 1 : Send(m, SubSeq(whole, 1, length))
    BY DEF CutSubmits
<1> DEFINE m == [by |-> "cut", from |-> from, to |-> to, text |-> text,
                 ussd |-> FALSE, receipt |-> FALSE]
           whole == BuildSubmitSMBody(m)
<1>2. PICK length \in 0..Len(whole) - 1 : Send(m, SubSeq(whole, 1, length))
    BY <1>1
<1>3. msg' = m /\ body' = SubSeq(whole, 1, length)
    BY <1>2 DEF Send
<1>4. CutSent'
    BY <1>1, <1>3 DEF CutSent
<1>5. QED
    BY <1>2, <1>4, SendStep DEF Sent

LEMMA ServerDeliversStep == ASSUME CodecInv, ServerDelivers PROVE CodecInv'
<1>1. PICK from \in Addrs, to \in Addrs, text \in Texts, ussd \in BOOLEAN, receipt \in BOOLEAN,
           id \in Ids :
          LET m == [by |-> "server", from |-> from, to |-> to, text |-> text,
                    ussd |-> ussd, receipt |-> receipt, id |-> id]
          IN  ~(ussd /\ receipt) /\ Send(m, DeliverSM(m))
    BY DEF ServerDelivers
<1> DEFINE m == [by |-> "server", from |-> from, to |-> to, text |-> text,
                 ussd |-> ussd, receipt |-> receipt, id |-> id]
<1>2. msg' = m /\ body' = DeliverSM(m)
    BY <1>1 DEF Send
<1>3. ServerSent'
    BY <1>1, <1>2 DEF ServerSent
<1>4. QED
    BY <1>1, <1>3, SendStep DEF Sent

\* What stays is still the same message.
LEMMA SentStays == ASSUME Sent, UNCHANGED <<msg, body>> PROVE Sent'
BY DEF Sent, ClientSent, OtherSent, CutSent, ServerSent

LEMMA RefuseStep == ASSUME CodecInv, Refuse PROVE CodecInv'
<1>1. Sent
    BY DEF CodecInv, Refuse
<1>2. Sent'
    BY <1>1, SentStays DEF Refuse
<1>3. QED
    BY <1>2 DEF CodecInv, Refuse, Understood

\* The body with a message_payload has no short message.
OtherAs(from, to, text, ussd, e, r, n, none) ==
    /\ msg = [by |-> "other", from |-> from, to |-> to, text |-> text,
              ussd |-> ussd, receipt |-> FALSE]
    /\ body = Plain(from, to, e, r, n, none)
                  \o BuildTLV(UssdOpTag, <<1>>) \o BuildTLV(PayloadTag, text)
    /\ none = <<>> /\ n = 0 /\ r = 0 /\ (e = EsmUssd) = ussd

LEMMA OtherIs ==
    ASSUME OtherSent
    PROVE  \E from \in Addrs, to \in Addrs, text \in Texts, ussd \in BOOLEAN,
              e \in Bytes, r \in Bytes, n \in Bytes, none \in Seq(Bytes) :
              OtherAs(from, to, text, ussd, e, r, n, none)
<1>1. PICK from \in Addrs, to \in Addrs, text \in Texts, ussd \in BOOLEAN :
          /\ msg = [by |-> "other", from |-> from, to |-> to, text |-> text,
                    ussd |-> ussd, receipt |-> FALSE]
          /\ body = BuildSubmitSMBody([msg EXCEPT !.text = <<>>])
                        \o BuildTLV(UssdOpTag, <<1>>) \o BuildTLV(PayloadTag, text)
    BY DEF OtherSent
<1> DEFINE m == [msg EXCEPT !.text = <<>>]
           e == IF ussd THEN EsmUssd ELSE 0
           r == RegisteredDelivery(m)
           n == Len(m.text) % Byte
<1>2. /\ m.from = from /\ m.to = to /\ m.text = <<>> /\ m.ussd = ussd /\ m.receipt = FALSE
    BY <1>1
<1> HIDE DEF m
<1>3. 0 \in Bytes /\ EsmUssd \in Bytes /\ EsmUssd # 0 /\ Byte \in Nat /\ Byte > 0
    BY ByteSequences DEF EsmUssd
<1>4. r = 0
    BY <1>2 DEF RegisteredDelivery
<1>5. n = 0
    <2>1. 0 % Byte = 0
        BY <1>3, SMTT(30)
    <2>2. Len(m.text) = 0
        BY <1>2
    <2>3. QED
        BY <2>1, <2>2
<1>6. BuildSubmitSMBody(m) = Plain(from, to, e, r, n, <<>>)
    BY <1>2 DEF BuildSubmitSMBody, Plain, Middle
<1>7. e \in Bytes /\ (e = EsmUssd) = ussd
    BY <1>3
<1> HIDE DEF e, r, n
<1>8. r \in Bytes /\ n \in Bytes /\ <<>> \in Seq(Bytes)
    BY <1>3, <1>4, <1>5
<1>9. body = Plain(from, to, e, r, n, <<>>)
                 \o BuildTLV(UssdOpTag, <<1>>) \o BuildTLV(PayloadTag, text)
    BY <1>1, <1>6 DEF m
<1>10. OtherAs(from, to, text, ussd, e, r, n, <<>>)
    BY <1>1, <1>4, <1>5, <1>7, <1>9 DEF OtherAs
<1>11. QED
    BY <1>7, <1>8, <1>10

\* parseSubmitSM makes the right message of what was sent, up to its TLVs.
LEMMA ServerReadsStep == ASSUME CodecInv, ServerReads PROVE CodecInv'
<1> DEFINE parsed == ParseSubmitSM(body)
<1>1. /\ stage = "sent" /\ msg.by # "server" /\ Len(body) <= MaxLength
      /\ result' = parsed.message /\ offset' = parsed.end
      /\ stage' = IF parsed.valid /\ parsed.message.text = <<>> THEN "tlvs" ELSE "read"
      /\ msg' = msg /\ body' = body
    BY DEF ServerReads
<1>2. Sent
    BY <1>1 DEF CodecInv
<1>3. Sent' /\ Len(body') <= MaxLength
    BY <1>1, <1>2, SentStays
<1>4. SUFFICES /\ stage' \in {"tlvs", "read"}
               /\ stage' = "tlvs" => ServerLoop'
               /\ Understood'
    BY <1>3 DEF CodecInv
<1>5. CASE ClientSent
    <2>1. PICK from \in Addrs, to \in Addrs, text \in Texts, ussd \in BOOLEAN,
               receipt \in BOOLEAN :
              /\ msg = [by |-> "client", from |-> from, to |-> to, text |-> text,
                        ussd |-> ussd, receipt |-> receipt]
              /\ body = BuildSubmitSMBody(msg)
        BY <1>5 DEF ClientSent
    <2> DEFINE n == Len(text) % Byte
               e == IF ussd THEN EsmUssd ELSE 0
               r == RegisteredDelivery(msg)
               cut == SubSeq(text, 1, n)
    <2>2. /\ from \in Seq(1..Byte - 1) /\ to \in Seq(1..Byte - 1) /\ text \in Seq(Bytes)
        BY Values
    <2>3. n \in Bytes /\ n <= Len(text) /\ n \in 0..Len(text)
        BY <2>2, Remainder DEF Bytes
    <2>4. /\ body = Plain(from, to, e, r, n, text) /\ e \in Bytes /\ r \in Bytes
          /\ (r # 0) = (receipt /\ ~ussd) /\ (e = EsmUssd) = ussd
        BY <2>1, ClientParsed
    <2> HIDE DEF n, e, r, parsed
    <2>5. body \in Seq(Bytes) /\ Holds(body, 0, body)
        <3>1. body \in Seq(Bytes) /\ Len(body) \in Nat
            BY <2>2, <2>3, <2>4, PlainShape
        <3>2. QED
            BY <3>1 DEF Holds
    <2>6. parsed = [valid |-> TRUE,
                    message |-> [from |-> from, to |-> to, text |-> cut,
                                 ussd |-> e = EsmUssd, receipt |-> r # 0],
                    end |-> 7 + Len(from) + Len(to) + 10 + n]
        BY <2>2, <2>3, <2>4, <2>5, SubmitParsed DEF parsed
    <2>7. Expected(msg, cut) = [from |-> from, to |-> to, text |-> cut, ussd |-> ussd,
                                receipt |-> receipt /\ ~ussd]
        BY <2>1 DEF Expected
    <2>8. /\ result' = Expected(msg, cut)
          /\ offset' = Behind(from, to, n)
          /\ stage' = IF cut = <<>> THEN "tlvs" ELSE "read"
        BY <1>1, <2>4, <2>6, <2>7 DEF Behind
    <2>9. cut \in Seq(Bytes) /\ Len(cut) = n
        BY <2>2, <2>3, Starts
    <2>10. CASE n = 0
        <3>1. cut = <<>>
            BY <2>2, <2>10, EmptyStart
        <3>2. offset' = Behind(from, to, 0) + 0
            BY <2>2, <2>8, <2>10 DEF Behind
        <3>3. 0 \in 0..Len(text)
            BY <2>2
        <3>4. ServerLoop'
            BY <1>1, <2>1, <2>8, <2>10, <3>1, <3>2, <3>3 DEF ServerLoop, n
        <3>5. QED
            BY <2>8, <3>1, <3>4 DEF Understood
    <2>11. CASE n # 0
        <3>1. cut # <<>>
            BY <2>9, <2>11
        <3>2. stage' = "read"
            BY <2>8, <3>1
        <3>3. cut \in TextsOf(msg)
            BY <2>1 DEF TextsOf, n
        <3>4. Understood'
            BY <1>1, <2>1, <2>8, <3>3 DEF Understood
        <3>5. QED
            BY <3>2, <3>4
    <2>12. QED
        BY <2>10, <2>11
<1>6. CASE OtherSent
    <2>1. PICK from \in Addrs, to \in Addrs, text \in Texts, ussd \in BOOLEAN,
               e \in Bytes, r \in Bytes, n \in Bytes, none \in Seq(Bytes) :
              OtherAs(from, to, text, ussd, e, r, n, none)
        BY <1>6, OtherIs
    <2> USE DEF OtherAs
    <2> DEFINE plain == Plain(from, to, e, r, n, none)
    <2>2. /\ from \in Seq(1..Byte - 1) /\ to \in Seq(1..Byte - 1) /\ text \in Seq(Bytes)
        BY Values
    <2>3. plain \in Seq(Bytes)
        BY <2>2, PlainShape
    <2> HIDE DEF plain, parsed
    <2>4. body \in Seq(Bytes) /\ Holds(body, 0, plain)
        BY <2>1, <2>2, <2>3, OtherShape DEF plain
    <2>5. n <= Len(none)
        BY <2>1
    <2>6. parsed = [valid |-> TRUE,
                    message |-> [from |-> from, to |-> to, text |-> SubSeq(none, 1, n),
                                 ussd |-> e = EsmUssd, receipt |-> r # 0],
                    end |-> 7 + Len(from) + Len(to) + 10 + n]
        BY <2>2, <2>4, <2>5, SubmitParsed DEF parsed, plain
    <2>7. SubSeq(none, 1, n) = <<>>
        BY <2>1, EmptyStart
    <2>8. Expected(msg, <<>>) = [from |-> from, to |-> to, text |-> <<>>, ussd |-> ussd,
                                 receipt |-> FALSE]
        BY <2>1 DEF Expected
    <2>9. parsed.message = Expected(msg, <<>>)
        BY <2>1, <2>6, <2>7, <2>8
    <2>10. /\ result' = Expected(msg, <<>>) /\ stage' = "tlvs"
           /\ offset' = Behind(from, to, 0)
        BY <1>1, <2>1, <2>6, <2>7, <2>9 DEF Behind
    <2>11. offset' = Behind(from, to, 0) + 0
        BY <2>2, <2>10 DEF Behind
    <2>12. ServerLoop'
        BY <1>1, <2>1, <2>10, <2>11 DEF ServerLoop
    <2>13. QED
        BY <2>10, <2>12 DEF Understood
<1>7. CASE CutSent
    <2>1. PICK from \in Addrs, to \in Addrs, text \in Texts :
              /\ msg = [by |-> "cut", from |-> from, to |-> to, text |-> text,
                        ussd |-> FALSE, receipt |-> FALSE]
              /\ Len(text) < Byte
              /\ \E length \in 0..Len(BuildSubmitSMBody(msg)) - 1 :
                     body = SubSeq(BuildSubmitSMBody(msg), 1, length)
        BY <1>7 DEF CutSent
    <2>2. PICK length \in 0..Len(BuildSubmitSMBody(msg)) - 1 :
              body = SubSeq(BuildSubmitSMBody(msg), 1, length)
        BY <2>1
    <2> DEFINE no == FALSE
               e == IF no THEN EsmUssd ELSE 0
               r == RegisteredDelivery(msg)
    <2>3. /\ from \in Seq(1..Byte - 1) /\ to \in Seq(1..Byte - 1) /\ text \in Seq(Bytes)
        BY Values
    <2>4. Len(text) % Byte = Len(text) /\ Len(text) \in Bytes
        BY <2>1, <2>3, Remainder
    <2>5. /\ BuildSubmitSMBody(msg) = Plain(from, to, e, r, Len(text), text)
          /\ e \in Bytes /\ r \in Bytes
        <3>1. no \in BOOLEAN /\ msg = [by |-> "cut", from |-> from, to |-> to, text |-> text,
                                       ussd |-> no, receipt |-> no]
            BY <2>1
        <3> HIDE DEF no
        <3>2. BuildSubmitSMBody(msg) = Plain(from, to, e, r, Len(text) % Byte, text)
              /\ e \in Bytes /\ r \in Bytes
            BY <3>1, ClientParsed
        <3>3. QED
            BY <2>4, <3>2
    <2>6. length \in Nat /\ length < Len(Plain(from, to, e, r, Len(text), text))
        <3>1. Len(Plain(from, to, e, r, Len(text), text)) \in Nat
            BY <2>3, <2>4, <2>5, PlainShape
        <3>2. QED
            BY <2>2, <2>5, <3>1
    <2> HIDE DEF e, r, parsed
    <2>7. parsed = [valid |-> FALSE, message |-> Nothing, end |-> 0]
        <3>1. body = SubSeq(Plain(from, to, e, r, Len(text), text), 1, length)
            BY <2>2, <2>5
        <3>2. ParseSubmitSM(SubSeq(Plain(from, to, e, r, Len(text), text), 1, length)) =
                  [valid |-> FALSE, message |-> Nothing, end |-> 0]
            BY <2>3, <2>4, <2>5, <2>6, CutRefused
        <3>3. QED
            BY <3>1, <3>2 DEF parsed
    <2>8. result' = Nothing /\ stage' = "read"
        BY <1>1, <2>7
    <2>9. QED
        BY <1>1, <2>1, <2>8 DEF Understood
<1>8. CASE ServerSent
    BY <1>1, <1>8 DEF ServerSent
<1>9. QED
    BY <1>2, <1>5, <1>6, <1>7, <1>8 DEF Sent

\* A body that the client has sent ends with its text, where the server looks for TLVs.
LEMMA ClientBody ==
    ASSUME ClientSent
    PROVE  LET start == Behind(msg.from, msg.to, 0)
           IN  /\ body \in Seq(Bytes) /\ msg.text \in Seq(Bytes) /\ start \in Nat
               /\ Holds(body, start, msg.text) /\ start + Len(msg.text) = Len(body)
<1>1. PICK from \in Addrs, to \in Addrs, text \in Texts, ussd \in BOOLEAN, receipt \in BOOLEAN :
          /\ msg = [by |-> "client", from |-> from, to |-> to, text |-> text,
                    ussd |-> ussd, receipt |-> receipt]
          /\ body = BuildSubmitSMBody(msg)
    BY DEF ClientSent
<1>2. /\ from \in Seq(1..Byte - 1) /\ to \in Seq(1..Byte - 1) /\ text \in Seq(Bytes)
      /\ msg.from = from /\ msg.to = to /\ msg.text = text
    BY <1>1, Values
<1> DEFINE e == IF ussd THEN EsmUssd ELSE 0
           r == RegisteredDelivery(msg)
           n == Len(text) % Byte
           esm == 7 + Len(from) + Len(to)
<1>3. body = Plain(from, to, e, r, n, text) /\ e \in Bytes /\ r \in Bytes /\ n \in Bytes
    BY <1>1, <1>2, ClientParsed, Remainder
<1> HIDE DEF e, r, n
<1>4. /\ body \in Seq(Bytes) /\ Len(body) = esm + 10 + Len(text) /\ esm \in Nat
      /\ Holds(body, esm + 10, text)
    BY <1>2, <1>3, PlainShape
<1>5. Behind(from, to, 0) = esm + 10
    BY <1>4 DEF Behind
<1>6. QED
    BY <1>2, <1>4, <1>5

\* The TLVs of a body with a message_payload.
LEMMA OtherBody ==
    ASSUME OtherSent, Len(body) <= MaxLength
    PROVE  LET start == Behind(msg.from, msg.to, 0)
           IN  /\ HasTlv(body, start) /\ HasTlv(body, start + 5)
               /\ TlvTag(body, start) # PayloadTag /\ TlvLength(body, start) = 1
               /\ TlvTag(body, start + 5) = PayloadTag
               /\ TlvValue(body, start + 5) = msg.text /\ start \in Nat
<1>1. PICK from \in Addrs, to \in Addrs, text \in Texts, ussd \in BOOLEAN,
           e \in Bytes, r \in Bytes, n \in Bytes, none \in Seq(Bytes) :
          OtherAs(from, to, text, ussd, e, r, n, none)
    BY OtherIs
<1> USE DEF OtherAs
<1> DEFINE plain == Plain(from, to, e, r, n, none)
           start == 7 + Len(from) + Len(to) + 10
<1>2. /\ from \in Seq(1..Byte - 1) /\ to \in Seq(1..Byte - 1) /\ text \in Seq(Bytes)
      /\ msg.from = from /\ msg.to = to /\ msg.text = text
    BY <1>1, Values
<1>3. plain \in Seq(Bytes) /\ Len(plain) = 7 + Len(from) + Len(to) + 10 + Len(none)
    BY <1>2, PlainShape
<1> HIDE DEF plain
<1>4. plain \in Seq(Bytes) /\ Len(plain) = start /\ start \in Nat /\ Len(text) \in Nat
    BY <1>1, <1>2, <1>3
<1> HIDE DEF start
<1>5. body = plain \o BuildTLV(UssdOpTag, <<1>>) \o BuildTLV(PayloadTag, text)
    BY <1>1 DEF plain
<1>6. /\ body \in Seq(Bytes) /\ Len(body) = start + 9 + Len(text)
      /\ Holds(body, start, BuildTLV(UssdOpTag, <<1>>))
      /\ Holds(body, start + 5, BuildTLV(PayloadTag, text))
    <2>1. /\ body \in Seq(Bytes) /\ Len(body) = Len(plain) + 9 + Len(text)
          /\ Holds(body, Len(plain), BuildTLV(UssdOpTag, <<1>>))
          /\ Holds(body, Len(plain) + 5, BuildTLV(PayloadTag, text))
        BY <1>2, <1>4, <1>5, OtherShape
    <2>2. QED
        BY <1>4, <2>1
<1>7. Len(text) < Byte * Byte /\ 1 < Byte * Byte
    <2> DEFINE full == Byte * Byte
    <2>1. full \in Nat /\ MaxLength \in Nat /\ MaxLength < full
        BY CodecConstants
    <2> HIDE DEF full
    <2>2. Len(body) <= MaxLength
        OBVIOUS
    <2>3. Len(text) < full /\ 1 < full
        BY <1>4, <1>6, <2>1, <2>2
    <2>4. QED
        BY <2>3 DEF full
<1>8. /\ HasTlv(body, start) /\ TlvLength(body, start) = Len(<<1>>)
       /\ TlvTag(body, start) = UssdOpTag
    <2>1. UssdOpTag \in Seq(Bytes) /\ Len(UssdOpTag) = 2 /\ <<1>> \in Seq(Bytes)
          /\ Len(<<1>>) < Byte * Byte
        BY Values, <1>7
    <2>2. QED
        BY <1>6, <2>1, TlvAt
<1>9. /\ HasTlv(body, start + 5) /\ TlvTag(body, start + 5) = PayloadTag
       /\ TlvValue(body, start + 5) = text
    <2>1. PayloadTag \in Seq(Bytes) /\ Len(PayloadTag) = 2
        BY Values
    <2>2. QED
        BY <1>2, <1>6, <1>7, <2>1, TlvAt
<1>10. UssdOpTag # PayloadTag /\ Len(<<1>>) = 1
    BY DEF UssdOpTag, PayloadTag
<1>11. Behind(from, to, 0) = start
    BY <1>2 DEF Behind, start
<1>12. QED
    BY <1>2, <1>4, <1>8, <1>9, <1>10, <1>11

\* A TLV of a submit_sm is the payload, or is skipped.
LEMMA ServerTlvStep == ASSUME CodecInv, ServerTlv PROVE CodecInv'
<1>1. /\ stage = "tlvs" /\ HasTlv(body, offset) /\ msg.by # "server"
      /\ offset' = offset + 4 + TlvLength(body, offset)
      /\ msg' = msg /\ body' = body
      /\ IF TlvTag(body, offset) = PayloadTag
         THEN result' = [result EXCEPT !.text = TlvValue(body, offset)] /\ stage' = "read"
         ELSE UNCHANGED <<result, stage>>
    BY DEF ServerTlv, Tlv
<1>2. Sent /\ ServerLoop /\ Len(body) <= MaxLength
    BY <1>1 DEF CodecInv, ClientLoop
<1>3. Sent'
    BY <1>1, <1>2, SentStays
<1> DEFINE start == Behind(msg.from, msg.to, 0)
<1>4. SUFFICES /\ stage' \in {"tlvs", "read"}
               /\ stage' = "tlvs" => ServerLoop'
               /\ Understood'
    BY <1>1, <1>2, <1>3 DEF CodecInv
<1>5. result = Expected(msg, <<>>)
    BY <1>2 DEF ServerLoop
<1>6. ASSUME NEW value PROVE [result EXCEPT !.text = value] = Expected(msg, value)
    BY <1>1, <1>5 DEF Expected
<1>7. CASE msg.by = "client"
    <2>1. ClientSent
        BY <1>2, <1>7 DEF Sent, OtherSent, CutSent, ServerSent
    <2>2. PICK i \in 0..Len(msg.text) : offset = start + i
        BY <1>2, <1>7 DEF ServerLoop
    <2>3. Len(msg.text) % Byte = 0
        BY <1>2, <1>7 DEF ServerLoop
    <2>4. /\ body \in Seq(Bytes) /\ msg.text \in Seq(Bytes) /\ start \in Nat
          /\ Holds(body, start, msg.text) /\ start + Len(msg.text) = Len(body)
        BY <2>1, ClientBody
    <2> HIDE DEF start
    <2>5. /\ HasTlv(msg.text, i) /\ TlvLength(body, start + i) = TlvLength(msg.text, i)
          /\ TlvTag(body, start + i) = TlvTag(msg.text, i)
          /\ TlvValue(body, start + i) = TlvValue(msg.text, i)
          /\ i + 4 + TlvLength(msg.text, i) \in 0..Len(msg.text)
        BY <1>1, <2>2, <2>4, TlvInside
    <2>6. CASE TlvTag(body, offset) = PayloadTag
        <3> DEFINE value == TlvValue(msg.text, i)
        <3>1. value \in Payloads(msg.text)
            BY <2>2, <2>5, <2>6 DEF Payloads
        <3>2. value \in TextsOf(msg)
            BY <1>7, <2>3, <3>1 DEF TextsOf
        <3>3. result' = Expected(msg, value) /\ stage' = "read"
            BY <1>1, <1>6, <2>2, <2>5, <2>6
        <3>4. QED
            BY <1>1, <1>7, <3>2, <3>3 DEF Understood
    <2>7. CASE TlvTag(body, offset) # PayloadTag
        <3>1. result' = result /\ stage' = stage
            BY <1>1, <2>7
        <3> DEFINE j == i + 4 + TlvLength(msg.text, i)
        <3>2. offset' = start + j
            <4> DEFINE l == TlvLength(msg.text, i)
            <4>1. i + 4 + l \in Nat /\ i \in Nat /\ offset' = start + i + 4 + l
                BY <1>1, <2>2, <2>5
            <4>2. l \in Int
                <5>1. HasTlv(msg.text, i) /\ Len(msg.text) \in Nat /\ i \in Nat
                    BY <2>4, <2>5
                <5>2. i + 3 \in 1..Len(msg.text) /\ i + 4 \in 1..Len(msg.text)
                      /\ i + 2 + 1 = i + 3 /\ i + 3 + 1 = i + 4
                    BY <5>1 DEF HasTlv
                <5>3. At(msg.text, i + 2) \in Bytes /\ At(msg.text, i + 3) \in Bytes
                    BY <2>4, <5>2, ElementOfSeq DEF At
                <5>4. QED
                    BY <5>3, ByteSequences DEF TlvLength, Bytes
            <4> HIDE DEF l
            <4>3. start + i + 4 + l = start + (i + 4 + l)
                BY <2>4, <4>1, <4>2
            <4>4. QED
                BY <4>1, <4>3 DEF l
        <3>3. j \in 0..Len(msg.text)
            BY <2>5
        <3> HIDE DEF j
        <3>4. ServerLoop'
            BY <1>1, <1>5, <1>7, <2>3, <3>1, <3>2, <3>3 DEF ServerLoop, start
        <3>5. QED
            BY <1>1, <3>1, <3>4 DEF Understood
    <2>8. QED
        BY <2>6, <2>7
<1>8. CASE msg.by = "other"
    <2>1. OtherSent
        BY <1>2, <1>8 DEF Sent, ClientSent, CutSent, ServerSent
    <2>2. PICK i \in {0, 5} : offset = start + i
        BY <1>2, <1>8 DEF ServerLoop
    <2>3. /\ TlvTag(body, start) # PayloadTag /\ TlvLength(body, start) = 1
          /\ TlvTag(body, start + 5) = PayloadTag
          /\ TlvValue(body, start + 5) = msg.text /\ start \in Nat
        BY <1>2, <2>1, OtherBody
    <2> HIDE DEF start
    <2>4. CASE i = 0
        <3>1. offset = start
            BY <2>2, <2>3, <2>4
        <3>2. /\ result' = result /\ stage' = stage /\ offset' = start + 5
            BY <1>1, <2>3, <3>1
        <3>3. ServerLoop'
            BY <1>1, <1>5, <1>8, <3>2 DEF ServerLoop, start
        <3>4. QED
            BY <1>1, <3>2, <3>3 DEF Understood
    <2>5. CASE i = 5
        <3>1. result' = Expected(msg, msg.text) /\ stage' = "read"
            BY <1>1, <1>6, <2>2, <2>3, <2>5
        <3>2. msg.text \in TextsOf(msg)
            BY <1>8 DEF TextsOf
        <3>3. QED
            BY <1>1, <1>8, <3>1, <3>2 DEF Understood
    <2>6. QED
        BY <2>4, <2>5
<1>9. QED
    BY <1>2, <1>7, <1>8 DEF ServerLoop

\* The text of a deliver_sm fits into its length field.
LEMMA ShortIs ==
    ASSUME NEW text \in Seq(Bytes)
    PROVE  LET short == ShortMessage(text)
           IN  short \in Seq(Bytes) /\ Len(short) \in Bytes /\ Len(short) % Byte = Len(short)
<1> DEFINE n == Min({Len(text), Byte - 2})
<1>1. Byte \in Nat /\ Byte > 3 /\ Len(text) \in Nat
    BY ByteSequences
<1>2. n \in 0..Len(text) /\ n < Byte
    <2> DEFINE S == {Len(text), Byte - 2}
    <2>1. S \in SUBSET Int /\ Len(text) \in S /\ Byte - 2 \in S
        BY <1>1
    <2>2. CASE Len(text) <= Byte - 2
        <3>1. \A y \in S : Len(text) <= y
            BY <1>1, <2>2
        <3>2. Min(S) = Len(text)
            BY <2>1, <3>1, MinIs
        <3>3. QED
            BY <1>1, <2>2, <3>2
    <2>3. CASE Len(text) > Byte - 2
        <3>1. \A y \in S : Byte - 2 <= y
            BY <1>1, <2>3
        <3>2. Min(S) = Byte - 2
            BY <2>1, <3>1, MinIs
        <3>3. QED
            BY <1>1, <2>3, <3>2
    <2>4. QED
        BY <1>1, <2>2, <2>3
<1> HIDE DEF n
<1> DEFINE short == SubSeq(text, 1, n)
<1>3. short \in Seq(Bytes) /\ Len(short) = n
    BY <1>2, Starts
<1>4. short = ShortMessage(text)
    BY DEF ShortMessage, n
<1> HIDE DEF short
<1>5. Len(short) \in Bytes /\ Len(short) < Byte
    BY <1>1, <1>2, <1>3 DEF Bytes
<1>6. Len(short) % Byte = Len(short)
    BY <1>3, <1>5, Remainder
<1>7. QED
    BY <1>3, <1>4, <1>5, <1>6

\* The body that SendDeliverSM has built.
ServerAs(from, to, text, ussd, receipt, id, e) ==
    /\ msg = [by |-> "server", from |-> from, to |-> to, text |-> text,
              ussd |-> ussd, receipt |-> receipt, id |-> id]
    /\ body = Plain(OrUnknown(from), OrUnknown(to), e, 0, Len(ShortMessage(text)),
                    ShortMessage(text))
                  \o BuildTLV(MessageIdTag, CString(id)) \o IF ussd THEN UssdTlvs ELSE <<>>
    /\ (e = EsmReceipt) = receipt

\* What SendDeliverSM has built consists of the parts that are read.
LEMMA ServerIs ==
    ASSUME ServerSent
    PROVE  \E from \in Addrs, to \in Addrs, text \in Texts, ussd \in BOOLEAN,
              receipt \in BOOLEAN, id \in Ids, e \in Bytes :
              ServerAs(from, to, text, ussd, receipt, id, e)
<1>1. PICK from \in Addrs, to \in Addrs, text \in Texts, ussd \in BOOLEAN, receipt \in BOOLEAN,
           id \in Ids :
          /\ msg = [by |-> "server", from |-> from, to |-> to, text |-> text,
                    ussd |-> ussd, receipt |-> receipt, id |-> id]
          /\ body = DeliverSM(msg)
    BY DEF ServerSent
<1> DEFINE e == IF receipt THEN EsmReceipt ELSE 0
<1>2. /\ msg.from = from /\ msg.to = to /\ msg.text = text /\ msg.ussd = ussd
      /\ msg.receipt = receipt /\ msg.id = id
    BY <1>1
<1>3. e \in Bytes /\ (e = EsmReceipt) = receipt
    BY ByteSequences DEF EsmReceipt
<1>4. Len(ShortMessage(text)) % Byte = Len(ShortMessage(text))
    BY Values, ShortIs
<1>5. BuildDeliverSMBody(msg) = Plain(OrUnknown(from), OrUnknown(to), e, 0,
                                      Len(ShortMessage(text)), ShortMessage(text))
    BY <1>2, <1>4 DEF BuildDeliverSMBody, Plain, Middle
<1>6. body = BuildDeliverSMBody(msg) \o BuildTLV(MessageIdTag, CString(id))
                 \o IF ussd THEN UssdTlvs ELSE <<>>
    BY <1>1, <1>2 DEF DeliverSM, UssdTlvs
<1> HIDE DEF e
<1>7. ServerAs(from, to, text, ussd, receipt, id, e)
    BY <1>1, <1>3, <1>5, <1>6 DEF ServerAs
<1>8. QED
    BY <1>3, <1>7

\* A C string alone.
LEMMA StringAlone ==
    ASSUME NEW x \in Seq(1..Byte - 1)
    PROVE  ExtractCString(CString(x), 0).string = x
<1>1. CString(x) \in Seq(Bytes) /\ Len(CString(x)) \in Nat
    BY StringBytes
<1>2. \A i \in 1..Len(CString(x)) : CString(x)[0 + i] = CString(x)[i]
    BY <1>1
<1>3. Holds(CString(x), 0, CString(x))
    BY <1>1, <1>2 DEF Holds
<1>4. QED
    BY <1>1, <1>3, StringAt

\* What the client finds in a deliver_sm.
LEMMA ServerBody ==
    ASSUME ServerSent, Len(body) <= MaxLength
    PROVE  /\ body \in Seq(Bytes) /\ First \in Nat /\ Past \in Nat
           /\ Past = First + 5 + Len(msg.id)
           /\ Len(body) = Past + IF msg.ussd THEN 19 ELSE 0
           /\ ParseDeliverSM(body) = Told(<<>>, Smsc) /\ DeliverTlvs(body) = First
           /\ HasTlv(body, First) /\ TlvTag(body, First) = MessageIdTag
           /\ First + 4 + TlvLength(body, First) = Past
           /\ ExtractCString(TlvValue(body, First), 0).string = msg.id
           /\ msg.ussd =>
                /\ HasTlv(body, Past) /\ TlvTag(body, Past) = NcsTag
                /\ Past + 4 + TlvLength(body, Past) = Past + 7
                /\ ExtractCString(TlvValue(body, Past), 0).string = Ussdc
                /\ HasTlv(body, Past + 7) /\ TlvTag(body, Past + 7) = NcsTag2
                /\ Past + 7 + 4 + TlvLength(body, Past + 7) = Past + 14
                /\ HasTlv(body, Past + 14) /\ TlvTag(body, Past + 14) = UssdOpTag
                /\ Past + 14 + 4 + TlvLength(body, Past + 14) = Past + 19
<1>1. PICK from \in Addrs, to \in Addrs, text \in Texts, ussd \in BOOLEAN, receipt \in BOOLEAN,
           id \in Ids, e \in Bytes : ServerAs(from, to, text, ussd, receipt, id, e)
    BY ServerIs
<1> DEFINE f == OrUnknown(from)
           t == OrUnknown(to)
           short == ShortMessage(text)
           plain == Plain(f, t, e, 0, Len(short), short)
<1>2. /\ msg.from = from /\ msg.to = to /\ msg.text = text /\ msg.ussd = ussd
      /\ msg.receipt = receipt /\ msg.id = id /\ (e = EsmReceipt) = receipt
      /\ body = plain \o BuildTLV(MessageIdTag, CString(id)) \o IF ussd THEN UssdTlvs ELSE <<>>
    BY <1>1 DEF ServerAs
<1>3. /\ f \in Seq(1..Byte - 1) /\ t \in Seq(1..Byte - 1) /\ id \in Seq(1..Byte - 1)
      /\ text \in Seq(Bytes) /\ Unknown \in Seq(1..Byte - 1) /\ Ussdc \in Seq(1..Byte - 1)
    BY Values DEF OrUnknown
<1>4. short \in Seq(Bytes) /\ Len(short) \in Bytes
    BY <1>3, ShortIs
<1>5. First = 7 + Len(f) + Len(t) + 10 + Len(short) /\ Past = First + 5 + Len(id)
    BY <1>2 DEF First, Past, Behind
<1> HIDE DEF f, t, short
<1>6. plain \in Seq(Bytes) /\ Len(plain) = First /\ First \in Nat
    <2>1. 0 \in Bytes
        BY ByteSequences
    <2>2. plain \in Seq(Bytes) /\ Len(plain) = 7 + Len(f) + Len(t) + 10 + Len(short)
        BY <1>3, <1>4, <2>1, PlainShape
    <2> HIDE DEF plain
    <2>3. QED
        BY <1>5, <2>2
<1> HIDE DEF plain
<1>7. /\ body \in Seq(Bytes) /\ Past \in Nat /\ Len(id) \in Nat
      /\ CString(id) \in Seq(Bytes) /\ Len(CString(id)) = Len(id) + 1
      /\ Len(body) = Past + IF ussd THEN 19 ELSE 0
      /\ Holds(body, 0, plain)
      /\ Holds(body, First, BuildTLV(MessageIdTag, CString(id)))
      /\ ussd => /\ Holds(body, Past, BuildTLV(NcsTag, CString(Ussdc)))
                 /\ Holds(body, Past + 7, BuildTLV(NcsTag2, CString(Ussdc)))
                 /\ Holds(body, Past + 14, BuildTLV(UssdOpTag, <<1>>))
    <2> DEFINE data == plain \o BuildTLV(MessageIdTag, CString(id))
                             \o IF ussd THEN UssdTlvs ELSE <<>>
               past == Len(plain) + 5 + Len(id)
    <2>1. /\ data \in Seq(Bytes) /\ past \in Nat /\ Len(id) \in Nat
          /\ CString(id) \in Seq(Bytes) /\ Len(CString(id)) = Len(id) + 1
          /\ Len(data) = past + IF ussd THEN 19 ELSE 0
          /\ Holds(data, 0, plain)
          /\ Holds(data, Len(plain), BuildTLV(MessageIdTag, CString(id)))
          /\ ussd => /\ Holds(data, past, BuildTLV(NcsTag, CString(Ussdc)))
                     /\ Holds(data, past + 7, BuildTLV(NcsTag2, CString(Ussdc)))
                     /\ Holds(data, past + 14, BuildTLV(UssdOpTag, <<1>>))
        BY <1>3, <1>6, DeliverShape
    <2>2. data = body
        BY <1>2
    <2> HIDE DEF data
    <2>3. past = Past
        BY <1>5, <1>6
    <2> HIDE DEF past
    <2>4. QED
        BY <1>6, <2>1, <2>2, <2>3
<1>8. /\ ParseDeliverSM(body) = [from |-> f, to |-> t, text |-> short,
                                 receipt |-> e = EsmReceipt, id |-> <<>>, ncs |-> Smsc]
      /\ DeliverTlvs(body) = 7 + Len(f) + Len(t) + 10 + Len(short)
    BY <1>3, <1>4, <1>7, DeliverParsed DEF plain
<1>9. ParseDeliverSM(body) = Told(<<>>, Smsc) /\ DeliverTlvs(body) = First
    BY <1>2, <1>5, <1>8 DEF Told, f, t, short
<1>10. Len(id) + 1 < Byte * Byte /\ 3 < Byte * Byte /\ 1 < Byte * Byte
    <2> DEFINE full == Byte * Byte
    <2>1. full \in Nat /\ MaxLength \in Nat /\ MaxLength < full
        BY CodecConstants
    <2>2. full > 3
        BY ByteSequences, SMTT(30)
    <2> HIDE DEF full
    <2>3. Past <= Len(body) /\ Len(body) \in Nat /\ Len(body) <= MaxLength
        <3>1. Past \in Nat /\ Len(body) = Past + IF ussd THEN 19 ELSE 0
            BY <1>7
        <3>2. QED
            BY <3>1
    <2>4. Len(id) + 1 < full
        <3>1. First \in Nat /\ Len(id) \in Nat /\ Past = First + 5 + Len(id)
            BY <1>5, <1>6, <1>7
        <3>2. QED
            BY <2>1, <2>3, <3>1
    <2>5. Len(id) + 1 < full /\ 3 < full /\ 1 < full
        BY <2>1, <2>2, <2>4
    <2>6. QED
        BY <2>5 DEF full
<1>11. /\ HasTlv(body, First) /\ TlvTag(body, First) = MessageIdTag
       /\ TlvLength(body, First) = Len(id) + 1 /\ TlvValue(body, First) = CString(id)
    <2>1. MessageIdTag \in Seq(Bytes) /\ Len(MessageIdTag) = 2 /\ Len(CString(id)) < Byte * Byte
        BY <1>7, <1>10, Values
    <2>2. QED
        BY <1>7, <2>1, TlvAt
<1>12. ASSUME ussd
       PROVE  /\ HasTlv(body, Past) /\ TlvTag(body, Past) = NcsTag
              /\ TlvLength(body, Past) = 3 /\ TlvValue(body, Past) = CString(Ussdc)
              /\ HasTlv(body, Past + 7) /\ TlvTag(body, Past + 7) = NcsTag2
              /\ TlvLength(body, Past + 7) = 3
              /\ HasTlv(body, Past + 14) /\ TlvTag(body, Past + 14) = UssdOpTag
              /\ TlvLength(body, Past + 14) = 1
    <2> DEFINE u == CString(Ussdc)
    <2>1. /\ u \in Seq(Bytes) /\ Len(u) = 3 /\ Len(u) < Byte * Byte
          /\ NcsTag \in Seq(Bytes) /\ Len(NcsTag) = 2 /\ NcsTag2 \in Seq(Bytes)
          /\ Len(NcsTag2) = 2 /\ UssdOpTag \in Seq(Bytes) /\ Len(UssdOpTag) = 2
          /\ <<1>> \in Seq(Bytes) /\ Len(<<1>>) = 1 /\ Len(<<1>>) < Byte * Byte
        BY <1>10, UssdShape, Values
    <2> DEFINE second == Past + 7
               third == Past + 14
    <2>2. /\ Holds(body, Past, BuildTLV(NcsTag, u)) /\ Holds(body, second, BuildTLV(NcsTag2, u))
          /\ Holds(body, third, BuildTLV(UssdOpTag, <<1>>))
        BY <1>7, <1>12
    <2>0. body \in Seq(Bytes)
        BY <1>7
    <2> HIDE DEF u, second, third
    <2>3. /\ HasTlv(body, Past) /\ TlvTag(body, Past) = NcsTag
          /\ TlvLength(body, Past) = Len(u) /\ TlvValue(body, Past) = u
        BY <2>0, <2>1, <2>2, TlvAt
    <2>4. /\ HasTlv(body, second) /\ TlvTag(body, second) = NcsTag2
          /\ TlvLength(body, second) = Len(u)
        <3>1. /\ u \in Seq(Bytes) /\ Len(u) < Byte * Byte
              /\ NcsTag2 \in Seq(Bytes) /\ Len(NcsTag2) = 2
            BY <2>1
        <3>2. Holds(body, second, BuildTLV(NcsTag2, u))
            BY <2>2
        <3>3. QED
            BY <2>0, <3>1, <3>2, TlvAt
    <2>5. /\ HasTlv(body, third) /\ TlvTag(body, third) = UssdOpTag
          /\ TlvLength(body, third) = Len(<<1>>)
        <3>1. /\ <<1>> \in Seq(Bytes) /\ Len(<<1>>) < Byte * Byte
              /\ UssdOpTag \in Seq(Bytes) /\ Len(UssdOpTag) = 2
            BY <2>1
        <3>2. Holds(body, third, BuildTLV(UssdOpTag, <<1>>))
            BY <2>2
        <3>3. QED
            BY <2>0, <3>1, <3>2, TlvAt
    <2>6. QED
        BY <2>1, <2>3, <2>4, <2>5 DEF u, second, third
<1>13. /\ ExtractCString(CString(id), 0).string = id
       /\ ExtractCString(CString(Ussdc), 0).string = Ussdc
    BY <1>3, StringAlone
<1>14. First + 4 + (Len(id) + 1) = Past /\ Past + 4 + 3 = Past + 7 /\ Past + 7 + 4 + 3 = Past + 14
       /\ Past + 14 + 4 + 1 = Past + 19
    BY <1>5, <1>6, <1>7
<1>15. QED
    BY <1>2, <1>5, <1>6, <1>7, <1>9, <1>11, <1>12, <1>13, <1>14

\* handleDeliverSM gets everything that is not in TLVs.
LEMMA ClientReadsStep == ASSUME CodecInv, ClientReads PROVE CodecInv'
<1>1. /\ stage = "sent" /\ stage' = "tlvs" /\ msg.by = "server" /\ Len(body) <= MaxLength
      /\ result' = ParseDeliverSM(body) /\ offset' = DeliverTlvs(body)
      /\ msg' = msg /\ body' = body
    BY DEF ClientReads
<1>2. Sent
    BY <1>1 DEF CodecInv
<1>3. Sent' /\ Len(body') <= MaxLength
    BY <1>1, <1>2, SentStays
<1>4. ServerSent
    BY <1>1, <1>2 DEF Sent, ClientSent, OtherSent, CutSent
<1>5. result' = Told(<<>>, Smsc) /\ offset' = First
    BY <1>1, <1>4, ServerBody
<1>6. ClientLoop'
    BY <1>1, <1>5 DEF ClientLoop, Told, First
<1>7. QED
    BY <1>1, <1>3, <1>6 DEF CodecInv, Understood

\* The next TLV of a deliver_sm tells what it is to tell.
LEMMA ClientTlvStep == ASSUME CodecInv, ClientTlv PROVE CodecInv'
<1>1. /\ stage = "tlvs" /\ stage' = "tlvs" /\ HasTlv(body, offset) /\ msg.by = "server"
      /\ offset' = offset + 4 + TlvLength(body, offset)
      /\ msg' = msg /\ body' = body
      /\ result' = WithTlv(result, TlvTag(body, offset), TlvValue(body, offset))
    BY DEF ClientTlv, Tlv
<1>2. Sent /\ ClientLoop /\ Len(body) <= MaxLength
    BY <1>1 DEF CodecInv, ServerLoop
<1>3. Sent' /\ Len(body') <= MaxLength
    BY <1>1, <1>2, SentStays
<1>4. ServerSent
    BY <1>1, <1>2 DEF Sent, ClientSent, OtherSent, CutSent
<1>5. /\ MessageIdTag # NcsTag /\ NcsTag2 \notin {MessageIdTag, NcsTag}
      /\ UssdOpTag \notin {MessageIdTag, NcsTag}
    BY DEF MessageIdTag, NcsTag, NcsTag2, UssdOpTag
<1>6. First' = First /\ Past' = Past /\ \A id, ncs : Told(id, ncs)' = Told(id, ncs)
    BY <1>1 DEF First, Past, Told
<1>7. SUFFICES ClientLoop'
    BY <1>1, <1>3 DEF CodecInv, Understood
<1>8. CASE offset = First /\ result = Told(<<>>, Smsc)
    <2>1. offset' = Past
        <3>1. First + 4 + TlvLength(body, First) = Past
            BY <1>2, <1>4, ServerBody
        <3>2. QED
            BY <1>1, <1>8, <3>1
    <2>2. result' = [Told(<<>>, Smsc) EXCEPT !.id = msg.id]
        <3>1. TlvTag(body, First) = MessageIdTag
              /\ ExtractCString(TlvValue(body, First), 0).string = msg.id
            BY <1>2, <1>4, ServerBody
        <3>2. result' = WithTlv(result, MessageIdTag, TlvValue(body, First))
            BY <1>1, <1>8, <3>1
        <3>3. QED
            BY <1>5, <1>8, <3>1, <3>2 DEF WithTlv
    <2>3. result' = Told(msg.id, Smsc)
        BY <2>2 DEF Told
    <2>4. QED
        BY <1>1, <1>6, <2>1, <2>3 DEF ClientLoop
<1>9. CASE offset = Past /\ result = Told(msg.id, Smsc)
    <2>1. msg.ussd
        <3>1. SUFFICES ASSUME ~msg.ussd PROVE FALSE
            OBVIOUS
        <3>2. body \in Seq(Bytes)
            BY <1>2, <1>4, ServerBody
        <3>3. Len(body) = Past
            BY <1>2, <1>4, <3>1, ServerBody
        <3>4. QED
            BY <1>1, <1>9, <3>2, <3>3, NoTlvAtEnd
    <2>2. offset' = Past + 7
        BY <1>1, <1>2, <1>4, <1>9, <2>1, ServerBody
    <2>3. result' = [Told(msg.id, Smsc) EXCEPT !.ncs = Ussdc]
        BY <1>1, <1>2, <1>4, <1>5, <1>9, <2>1, ServerBody DEF WithTlv
    <2>4. result' = Told(msg.id, Ussdc)
        BY <2>3 DEF Told
    <2>5. QED
        BY <1>1, <1>6, <2>1, <2>2, <2>4 DEF ClientLoop
<1>10. ASSUME msg.ussd, result = Told(msg.id, Ussdc),
              TlvTag(body, offset) \notin {MessageIdTag, NcsTag},
              offset' \in {Past + 7, Past + 14, Past + 19}
       PROVE  ClientLoop'
    BY <1>1, <1>6, <1>10 DEF ClientLoop, WithTlv
<1>11. CASE msg.ussd /\ offset = Past + 7 /\ result = Told(msg.id, Ussdc)
    BY <1>1, <1>2, <1>4, <1>5, <1>10, <1>11, ServerBody
<1>12. CASE msg.ussd /\ offset = Past + 14 /\ result = Told(msg.id, Ussdc)
    BY <1>1, <1>2, <1>4, <1>5, <1>10, <1>12, ServerBody
<1>13. CASE msg.ussd /\ offset = Past + 19
    <2>1. body \in Seq(Bytes)
        BY <1>2, <1>4, ServerBody
    <2>2. Len(body) = Past + 19
        BY <1>2, <1>4, <1>13, ServerBody
    <2>3. QED
        BY <1>1, <1>13, <2>1, <2>2, NoTlvAtEnd
<1>14. QED
    BY <1>2, <1>8, <1>9, <1>11, <1>12, <1>13 DEF ClientLoop

\* Where no TLV is left, everything has been told.
LEMMA NoTlvStep == ASSUME CodecInv, NoTlv PROVE CodecInv'
<1>1. /\ stage = "tlvs" /\ stage' = "read" /\ ~HasTlv(body, offset)
      /\ msg' = msg /\ body' = body /\ offset' = offset /\ result' = result
    BY DEF NoTlv
<1>2. Sent /\ (ServerLoop \/ ClientLoop) /\ Len(body) <= MaxLength
    BY <1>1 DEF CodecInv
<1>3. Sent'
    BY <1>1, <1>2, SentStays
<1>4. SUFFICES /\ msg.by # "cut" /\ \E text \in TextsOf(msg) : result = Expected(msg, text)
    BY <1>1, <1>3 DEF CodecInv, Understood
<1>5. CASE ServerLoop /\ msg.by = "client"
    <2>1. ClientSent
        BY <1>2, <1>5 DEF Sent, OtherSent, CutSent, ServerSent
    <2>2. SubSeq(msg.text, 1, 0) = <<>>
        BY <2>1, ClientBody, EmptyStart
    <2>3. <<>> \in TextsOf(msg)
        BY <1>5, <2>2 DEF TextsOf, ServerLoop
    <2>4. QED
        BY <1>5, <2>3 DEF ServerLoop
<1>6. CASE ServerLoop /\ msg.by = "other"
    <2>1. OtherSent
        BY <1>2, <1>6 DEF Sent, ClientSent, CutSent, ServerSent
    <2> DEFINE start == Behind(msg.from, msg.to, 0)
    <2>2. HasTlv(body, start) /\ HasTlv(body, start + 5) /\ start \in Nat
        BY <1>2, <2>1, OtherBody
    <2>3. PICK i \in {0, 5} : offset = start + i
        BY <1>6 DEF ServerLoop
    <2> HIDE DEF start
    <2>4. offset = start \/ offset = start + 5
        BY <2>2, <2>3
    <2>5. QED
        BY <1>1, <2>2, <2>4
<1>7. CASE ClientLoop
    <2>1. msg.by = "server"
        BY <1>7 DEF ClientLoop
    <2>2. ServerSent
        BY <1>2, <2>1 DEF Sent, ClientSent, OtherSent, CutSent
    <2> DEFINE short == ShortMessage(msg.text)
    <2>3. short \in TextsOf(msg)
        BY <2>1 DEF TextsOf, ShortMessage
    <2>4. Expected(msg, short) = Told(msg.id, IF msg.ussd THEN Ussdc ELSE Smsc)
        BY <2>1 DEF Expected, Told, OrUnknown
    <2>5. result = Told(msg.id, IF msg.ussd THEN Ussdc ELSE Smsc)
        <3>1. offset # First
            BY <1>1, <1>2, <2>2, ServerBody
        <3>2. CASE offset = Past /\ result = Told(msg.id, Smsc)
            <4>1. ~msg.ussd
                BY <1>1, <1>2, <2>2, <3>2, ServerBody
            <4>2. QED
                BY <3>2, <4>1
        <3>3. QED
            BY <1>7, <3>1, <3>2 DEF ClientLoop
    <2>6. QED
        BY <2>1, <2>3, <2>4, <2>5
<1>8. QED
    BY <1>2, <1>5, <1>6, <1>7 DEF ServerLoop

LEMMA StutterStep == ASSUME CodecInv, UNCHANGED codecVars PROVE CodecInv'
<1>1. /\ stage' = stage /\ msg' = msg /\ body' = body /\ offset' = offset /\ result' = result
    BY DEF codecVars
<1>2. stage # "idle" => Sent'
    BY <1>1, SentStays DEF CodecInv
<1>3. (ServerLoop \/ ClientLoop) => (ServerLoop \/ ClientLoop)'
    BY <1>1 DEF ServerLoop, ClientLoop, First, Past, Told
<1>4. Understood'
    BY <1>1 DEF CodecInv, Understood
<1>5. QED
    BY <1>1, <1>2, <1>3, <1>4 DEF CodecInv

\* CodecInv holds in every reachable state.
LEMMA CodecInvariant == CodecSpec => []CodecInv
<1>1. CodecInit => CodecInv
    BY DEF CodecInit, CodecInv, Understood
<1>2. CodecInv /\ [CodecNext]_codecVars => CodecInv'
    BY ClientSubmitsStep, OtherSubmitsStep, CutSubmitsStep, ServerDeliversStep, RefuseStep,
       ServerReadsStep, ServerTlvStep, ClientReadsStep, ClientTlvStep, NoTlvStep, StutterStep
       DEF CodecNext
<1>3. QED
    BY <1>1, <1>2, PTL DEF CodecSpec

\* The reader of a submit_sm or deliver_sm gets the message that was sent, for bytes, addresses
\* and texts of any size, and refuses a body that is cut short.
THEOREM UnderstoodHolds == CodecSpec => []Understood
<1>1. CodecInv => Understood
    BY DEF CodecInv
<1>2. QED
    BY <1>1, CodecInvariant, PTL
====
