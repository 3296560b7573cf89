---- MODULE SessionRegistryProofs ----
(***************************************************************************)
(* Invariants of SessionRegistry for any number of connections, senders    *)
(* and system_ids.  The inductive invariant is Inv; each of its parts has  *)
(* a lemma that every step preserves it, given Inv.                        *)
(***************************************************************************)
EXTENDS SessionRegistry, TLAPS

\* Only the configured system_id is ever stored in a session, before it is bound; only
\* such a session is closed by the sweep.
Credentials ==
    \A c \in Conns :
        /\ sysId[c] \in {None, ServerID}
        /\ bound[c] \/ pc[c] \in {"setType", "store"} => sysId[c] = ServerID
        /\ pc[c] = "new" => sysId[c] = None
        /\ closed[c] /\ pc[c] # "done" => sysId[c] = ServerID

\* An entry of the registry is stored under the system_id of its session.
EntryOwned ==
    \A id \in SystemIDs : sessions[id] # None => sysId[sessions[id]] = id

\* A sender past its lookup holds a session that presented good credentials.
SendersReady ==
    \A s \in Senders :
        /\ spc[s] = "lookup" => target[s] \in SystemIDs
        /\ spc[s] \in {"check", "seq", "write"} =>
              sess[s] \in Conns /\ sysId[sess[s]] = ServerID
        /\ spc[s] = "write" => seq[s] \in 1..MaxSeq

\* A number taken on a session is held by one sender, until it is delivered or lost.
Numbering ==
    /\ \A c \in Conns, n \in 1..MaxSeq : n > seqNo[c] => delivered[c][n] = 0
    /\ \A s \in Senders : spc[s] = "write" =>
          seq[s] <= seqNo[sess[s]] /\ delivered[sess[s]][seq[s]] = 0
    /\ \A s, t \in Senders :
          s # t /\ spc[s] = "write" /\ spc[t] = "write" /\ sess[s] = sess[t] => seq[s] # seq[t]

\* A bind in progress has a type, and a bound session that is not binding has one.
Typed ==
    \A c \in Conns :
        /\ pc[c] = "setType" => bound[c] /\ asked[c] \in BindTypes
        /\ bound[c] /\ pc[c] # "setType" => bindType[c] \in BindTypes
        /\ pc[c] = "new" => ~closed[c]

\* UnreachableOnlyByRebind, also while the handler answers a PDU.
Reachable ==
    \A c \in Conns :
        bound[c] /\ pc[c] \in {"read", "received", "respond"} /\ ~closed[c] /\ sessions[ServerID] # c
          => \E d \in Conns \ {c} : sysId[d] = ServerID

Inv ==
    /\ TypeOK /\ Credentials /\ EntryOwned /\ NoDeadEntry /\ SendersReady
    /\ Reachable /\ Numbering /\ Typed

----
\* Sending changes nothing of a connection but its counter and what was delivered.
LEMMA SenderFrame ==
    ASSUME NEW s \in Senders, Sender(s)
    PROVE  UNCHANGED <<connVars, sessions>>
BY DEF Sender, UserMessage, Lookup, NotFound, CheckBound, NotBound, TakeSeq, WriteDeliver,
       WriteFail

\* Types are preserved: a lookup has a target, a send has a session.
LEMMA TypeStep == Inv /\ [Next]_vars => TypeOK'
<1> SUFFICES ASSUME Inv, [Next]_vars PROVE TypeOK'
    OBVIOUS
<1> USE ConstantsAssumption DEF Inv, TypeOK, Location, SLocation, BindTypes, connVars, senderVars, Credentials, SendersReady
<1>1. ASSUME Cleanup PROVE TypeOK'
    BY <1>1 DEF Cleanup, Stale
<1>2. ASSUME NEW c \in Conns, Accept(c) PROVE TypeOK'
    BY <1>2 DEF Accept
<1>3. ASSUME NEW c \in Conns, ReadPDU(c) \/ ReadFail(c) PROVE TypeOK'
    BY <1>3 DEF ReadPDU, ReadFail
<1>4. ASSUME NEW c \in Conns, RefuseBind(c) PROVE TypeOK'
    BY <1>4 DEF RefuseBind, Receive
<1>5. ASSUME NEW c \in Conns, AcceptBind(c) PROVE TypeOK'
    BY <1>5 DEF AcceptBind, Receive
<1>6. ASSUME NEW c \in Conns, SetBindType(c) PROVE TypeOK'
    BY <1>6 DEF SetBindType
<1>7. ASSUME NEW c \in Conns, StoreSession(c) PROVE TypeOK'
    BY <1>7 DEF StoreSession
<1>8. ASSUME NEW c \in Conns, HandleUnbind(c) PROVE TypeOK'
    BY <1>8 DEF HandleUnbind, Receive
<1>9. ASSUME NEW c \in Conns, HandleSubmit(c) PROVE TypeOK'
    BY <1>9 DEF HandleSubmit, Receive
<1>10. ASSUME NEW c \in Conns, HandleEnquireLink(c) PROVE TypeOK'
    BY <1>10 DEF HandleEnquireLink, Receive
<1>11. ASSUME NEW c \in Conns, HandleDeliverSMResp(c) PROVE TypeOK'
    BY <1>11 DEF HandleDeliverSMResp, Receive
<1>12. ASSUME NEW c \in Conns, Respond(c) PROVE TypeOK'
    BY <1>12 DEF Respond
<1>13. ASSUME NEW c \in Conns, ExitLoop(c) PROVE TypeOK'
    BY <1>13 DEF ExitLoop
<1>14. ASSUME NEW c \in Conns, CloseConn(c) PROVE TypeOK'
    BY <1>14 DEF CloseConn
<1>15. ASSUME NEW c \in Conns, GoIdle(c) PROVE TypeOK'
    BY <1>15 DEF GoIdle
<1>16. ASSUME NEW s \in Senders, UserMessage(s) PROVE TypeOK'
    BY <1>16 DEF UserMessage, Routable
<1>17. ASSUME NEW s \in Senders, Lookup(s) PROVE TypeOK'
    BY <1>17 DEF Lookup
<1>18. ASSUME NEW s \in Senders, NotFound(s) PROVE TypeOK'
    BY <1>18 DEF NotFound, Finish
<1>19. ASSUME NEW s \in Senders, CheckBound(s) PROVE TypeOK'
    BY <1>19 DEF CheckBound
<1>20. ASSUME NEW s \in Senders, NotBound(s) PROVE TypeOK'
    BY <1>20 DEF NotBound, Finish
<1>21. ASSUME NEW s \in Senders, TakeSeq(s) PROVE TypeOK'
    BY <1>21 DEF TakeSeq
<1>22. ASSUME NEW s \in Senders, WriteDeliver(s) PROVE TypeOK'
    BY <1>22 DEF WriteDeliver, Finish
<1>23. ASSUME NEW s \in Senders, WriteFail(s) PROVE TypeOK'
    BY <1>23 DEF WriteFail, Finish
<1>24. CASE UNCHANGED vars
    BY <1>24 DEF vars
<1>25. QED
    BY <1>1, <1>2, <1>3, <1>4, <1>5, <1>6, <1>7, <1>8, <1>9, <1>10, <1>11, <1>12, <1>13, <1>14, <1>15, <1>16, <1>17, <1>18, <1>19, <1>20, <1>21, <1>22, <1>23, <1>24 DEF Next, Handler, HandlePDU, Sender

\* A session is bound only after AcceptBind has stored ServerID in it.
LEMMA CredentialsStep == Inv /\ [Next]_vars => Credentials'
<1> SUFFICES ASSUME Inv, [Next]_vars PROVE Credentials'
    OBVIOUS
<1> USE ConstantsAssumption DEF Inv, TypeOK, Location, SLocation, BindTypes, connVars, senderVars, Credentials
<1>1. ASSUME Cleanup PROVE Credentials'
    BY <1>1 DEF Cleanup, Stale, EntryOwned
<1>2. ASSUME NEW c \in Conns, Accept(c) PROVE Credentials'
    BY <1>2 DEF Accept
<1>3. ASSUME NEW c \in Conns, ReadPDU(c) \/ ReadFail(c) PROVE Credentials'
    BY <1>3 DEF ReadPDU, ReadFail
<1>4. ASSUME NEW c \in Conns, RefuseBind(c) PROVE Credentials'
    BY <1>4 DEF RefuseBind, Receive
<1>5. ASSUME NEW c \in Conns, AcceptBind(c) PROVE Credentials'
    BY <1>5 DEF AcceptBind, Receive
<1>6. ASSUME NEW c \in Conns, SetBindType(c) PROVE Credentials'
    BY <1>6 DEF SetBindType
<1>7. ASSUME NEW c \in Conns, StoreSession(c) PROVE Credentials'
    BY <1>7 DEF StoreSession
<1>8. ASSUME NEW c \in Conns, HandleUnbind(c) PROVE Credentials'
    BY <1>8 DEF HandleUnbind, Receive
<1>9. ASSUME NEW c \in Conns, HandleSubmit(c) PROVE Credentials'
    BY <1>9 DEF HandleSubmit, Receive
<1>10. ASSUME NEW c \in Conns, HandleEnquireLink(c) PROVE Credentials'
    BY <1>10 DEF HandleEnquireLink, Receive
<1>11. ASSUME NEW c \in Conns, HandleDeliverSMResp(c) PROVE Credentials'
    BY <1>11 DEF HandleDeliverSMResp, Receive
<1>12. ASSUME NEW c \in Conns, Respond(c) PROVE Credentials'
    BY <1>12 DEF Respond
<1>13. ASSUME NEW c \in Conns, ExitLoop(c) PROVE Credentials'
    BY <1>13 DEF ExitLoop
<1>14. ASSUME NEW c \in Conns, CloseConn(c) PROVE Credentials'
    BY <1>14 DEF CloseConn
<1>15. ASSUME NEW c \in Conns, GoIdle(c) PROVE Credentials'
    BY <1>15 DEF GoIdle
<1>16. ASSUME NEW s \in Senders, Sender(s) PROVE Credentials'
    BY <1>16, SenderFrame
<1>17. CASE UNCHANGED vars
    BY <1>17 DEF vars
<1>18. QED
    BY <1>1, <1>2, <1>3, <1>4, <1>5, <1>6, <1>7, <1>8, <1>9, <1>10, <1>11, <1>12, <1>13, <1>14, <1>15, <1>16, <1>17 DEF Next, Handler, HandlePDU

\* The system_id of a session does not change once it is registered.
LEMMA EntryOwnedStep == Inv /\ [Next]_vars => EntryOwned'
<1> SUFFICES ASSUME Inv, [Next]_vars PROVE EntryOwned'
    OBVIOUS
<1> USE ConstantsAssumption DEF Inv, TypeOK, Location, SLocation, BindTypes, connVars, senderVars, Credentials, EntryOwned
<1>1. ASSUME Cleanup PROVE EntryOwned'
    BY <1>1 DEF Cleanup, Stale
<1>2. ASSUME NEW c \in Conns, Accept(c) PROVE EntryOwned'
    BY <1>2 DEF Accept
<1>3. ASSUME NEW c \in Conns, ReadPDU(c) \/ ReadFail(c) PROVE EntryOwned'
    BY <1>3 DEF ReadPDU, ReadFail
<1>4. ASSUME NEW c \in Conns, RefuseBind(c) PROVE EntryOwned'
    BY <1>4 DEF RefuseBind, Receive
<1>5. ASSUME NEW c \in Conns, AcceptBind(c) PROVE EntryOwned'
    BY <1>5 DEF AcceptBind, Receive
<1>6. ASSUME NEW c \in Conns, SetBindType(c) PROVE EntryOwned'
    BY <1>6 DEF SetBindType
<1>7. ASSUME NEW c \in Conns, StoreSession(c) PROVE EntryOwned'
    BY <1>7 DEF StoreSession
<1>8. ASSUME NEW c \in Conns, HandleUnbind(c) PROVE EntryOwned'
    BY <1>8 DEF HandleUnbind, Receive
<1>9. ASSUME NEW c \in Conns, HandleSubmit(c) PROVE EntryOwned'
    BY <1>9 DEF HandleSubmit, Receive
<1>10. ASSUME NEW c \in Conns, HandleEnquireLink(c) PROVE EntryOwned'
    BY <1>10 DEF HandleEnquireLink, Receive
<1>11. ASSUME NEW c \in Conns, HandleDeliverSMResp(c) PROVE EntryOwned'
    BY <1>11 DEF HandleDeliverSMResp, Receive
<1>12. ASSUME NEW c \in Conns, Respond(c) PROVE EntryOwned'
    BY <1>12 DEF Respond
<1>13. ASSUME NEW c \in Conns, ExitLoop(c) PROVE EntryOwned'
    BY <1>13 DEF ExitLoop
<1>14. ASSUME NEW c \in Conns, CloseConn(c) PROVE EntryOwned'
    BY <1>14 DEF CloseConn
<1>15. ASSUME NEW c \in Conns, GoIdle(c) PROVE EntryOwned'
    BY <1>15 DEF GoIdle
<1>16. ASSUME NEW s \in Senders, Sender(s) PROVE EntryOwned'
    BY <1>16, SenderFrame
<1>17. CASE UNCHANGED vars
    BY <1>17 DEF vars
<1>18. QED
    BY <1>1, <1>2, <1>3, <1>4, <1>5, <1>6, <1>7, <1>8, <1>9, <1>10, <1>11, <1>12, <1>13, <1>14, <1>15, <1>16, <1>17 DEF Next, Handler, HandlePDU

\* ExitLoop deletes the entry of its system_id: by EntryOwned no other entry is its own.
LEMMA NoDeadEntryStep == Inv /\ [Next]_vars => NoDeadEntry'
<1> SUFFICES ASSUME Inv, [Next]_vars PROVE NoDeadEntry'
    OBVIOUS
<1> USE ConstantsAssumption DEF Inv, TypeOK, Location, SLocation, BindTypes, connVars, senderVars, Credentials, EntryOwned, NoDeadEntry
<1>1. ASSUME Cleanup PROVE NoDeadEntry'
    BY <1>1 DEF Cleanup, Stale
<1>2. ASSUME NEW c \in Conns, Accept(c) PROVE NoDeadEntry'
    BY <1>2 DEF Accept
<1>3. ASSUME NEW c \in Conns, ReadPDU(c) \/ ReadFail(c) PROVE NoDeadEntry'
    BY <1>3 DEF ReadPDU, ReadFail
<1>4. ASSUME NEW c \in Conns, RefuseBind(c) PROVE NoDeadEntry'
    BY <1>4 DEF RefuseBind, Receive
<1>5. ASSUME NEW c \in Conns, AcceptBind(c) PROVE NoDeadEntry'
    BY <1>5 DEF AcceptBind, Receive
<1>6. ASSUME NEW c \in Conns, SetBindType(c) PROVE NoDeadEntry'
    BY <1>6 DEF SetBindType
<1>7. ASSUME NEW c \in Conns, StoreSession(c) PROVE NoDeadEntry'
    BY <1>7 DEF StoreSession
<1>8. ASSUME NEW c \in Conns, HandleUnbind(c) PROVE NoDeadEntry'
    BY <1>8 DEF HandleUnbind, Receive
<1>9. ASSUME NEW c \in Conns, HandleSubmit(c) PROVE NoDeadEntry'
    BY <1>9 DEF HandleSubmit, Receive
<1>10. ASSUME NEW c \in Conns, HandleEnquireLink(c) PROVE NoDeadEntry'
    BY <1>10 DEF HandleEnquireLink, Receive
<1>11. ASSUME NEW c \in Conns, HandleDeliverSMResp(c) PROVE NoDeadEntry'
    BY <1>11 DEF HandleDeliverSMResp, Receive
<1>12. ASSUME NEW c \in Conns, Respond(c) PROVE NoDeadEntry'
    BY <1>12 DEF Respond
<1>13. ASSUME NEW c \in Conns, ExitLoop(c) PROVE NoDeadEntry'
    BY <1>13 DEF ExitLoop
<1>14. ASSUME NEW c \in Conns, CloseConn(c) PROVE NoDeadEntry'
    BY <1>14 DEF CloseConn
<1>15. ASSUME NEW c \in Conns, GoIdle(c) PROVE NoDeadEntry'
    BY <1>15 DEF GoIdle
<1>16. ASSUME NEW s \in Senders, Sender(s) PROVE NoDeadEntry'
    BY <1>16, SenderFrame
<1>17. CASE UNCHANGED vars
    BY <1>17 DEF vars
<1>18. QED
    BY <1>1, <1>2, <1>3, <1>4, <1>5, <1>6, <1>7, <1>8, <1>9, <1>10, <1>11, <1>12, <1>13, <1>14, <1>15, <1>16, <1>17 DEF Next, Handler, HandlePDU

\* What a sender reads from the registry is authenticated, by EntryOwned.
LEMMA SendersReadyStep == Inv /\ [Next]_vars => SendersReady'
<1> SUFFICES ASSUME Inv, [Next]_vars PROVE SendersReady'
    OBVIOUS
<1> USE ConstantsAssumption DEF Inv, TypeOK, Location, SLocation, BindTypes, connVars, senderVars, Credentials, EntryOwned, SendersReady, Routable
<1>1. ASSUME Cleanup PROVE SendersReady'
    BY <1>1 DEF Cleanup, Stale
<1>2. ASSUME NEW c \in Conns, Accept(c) PROVE SendersReady'
    BY <1>2 DEF Accept
<1>3. ASSUME NEW c \in Conns, ReadPDU(c) \/ ReadFail(c) PROVE SendersReady'
    BY <1>3 DEF ReadPDU, ReadFail
<1>4. ASSUME NEW c \in Conns, RefuseBind(c) PROVE SendersReady'
    BY <1>4 DEF RefuseBind, Receive
<1>5. ASSUME NEW c \in Conns, AcceptBind(c) PROVE SendersReady'
    BY <1>5 DEF AcceptBind, Receive
<1>6. ASSUME NEW c \in Conns, SetBindType(c) PROVE SendersReady'
    BY <1>6 DEF SetBindType
<1>7. ASSUME NEW c \in Conns, StoreSession(c) PROVE SendersReady'
    BY <1>7 DEF StoreSession
<1>8. ASSUME NEW c \in Conns, HandleUnbind(c) PROVE SendersReady'
    BY <1>8 DEF HandleUnbind, Receive
<1>9. ASSUME NEW c \in Conns, HandleSubmit(c) PROVE SendersReady'
    BY <1>9 DEF HandleSubmit, Receive
<1>10. ASSUME NEW c \in Conns, HandleEnquireLink(c) PROVE SendersReady'
    BY <1>10 DEF HandleEnquireLink, Receive
<1>11. ASSUME NEW c \in Conns, HandleDeliverSMResp(c) PROVE SendersReady'
    BY <1>11 DEF HandleDeliverSMResp, Receive
<1>12. ASSUME NEW c \in Conns, Respond(c) PROVE SendersReady'
    BY <1>12 DEF Respond
<1>13. ASSUME NEW c \in Conns, ExitLoop(c) PROVE SendersReady'
    BY <1>13 DEF ExitLoop
<1>14. ASSUME NEW c \in Conns, CloseConn(c) PROVE SendersReady'
    BY <1>14 DEF CloseConn
<1>15. ASSUME NEW c \in Conns, GoIdle(c) PROVE SendersReady'
    BY <1>15 DEF GoIdle
<1>16. ASSUME NEW s \in Senders, UserMessage(s) PROVE SendersReady'
    BY <1>16 DEF UserMessage, Routable
<1>17. ASSUME NEW s \in Senders, Lookup(s) PROVE SendersReady'
    BY <1>17 DEF Lookup
<1>18. ASSUME NEW s \in Senders, NotFound(s) PROVE SendersReady'
    BY <1>18 DEF NotFound, Finish
<1>19. ASSUME NEW s \in Senders, CheckBound(s) PROVE SendersReady'
    BY <1>19 DEF CheckBound
<1>20. ASSUME NEW s \in Senders, NotBound(s) PROVE SendersReady'
    BY <1>20 DEF NotBound, Finish
<1>21. ASSUME NEW s \in Senders, TakeSeq(s) PROVE SendersReady'
    BY <1>21 DEF TakeSeq
<1>22. ASSUME NEW s \in Senders, WriteDeliver(s) PROVE SendersReady'
    BY <1>22 DEF WriteDeliver, Finish
<1>23. ASSUME NEW s \in Senders, WriteFail(s) PROVE SendersReady'
    BY <1>23 DEF WriteFail, Finish
<1>24. CASE UNCHANGED vars
    BY <1>24 DEF vars
<1>25. QED
    BY <1>1, <1>2, <1>3, <1>4, <1>5, <1>6, <1>7, <1>8, <1>9, <1>10, <1>11, <1>12, <1>13, <1>14, <1>15, <1>16, <1>17, <1>18, <1>19, <1>20, <1>21, <1>22, <1>23, <1>24 DEF Next, Handler, HandlePDU, Sender

\* Only a step of another authenticated connection, or a close, removes the entry.
LEMMA ReachableStep == Inv /\ [Next]_vars => Reachable'
<1> SUFFICES ASSUME Inv, [Next]_vars PROVE Reachable'
    OBVIOUS
<1> USE ConstantsAssumption DEF Inv, TypeOK, Location, SLocation, BindTypes, connVars, senderVars, Credentials, EntryOwned, Reachable
<1>1. ASSUME Cleanup PROVE Reachable'
    BY <1>1 DEF Cleanup, Stale
<1>2. ASSUME NEW c \in Conns, Accept(c) PROVE Reachable'
    BY <1>2 DEF Accept
<1>3. ASSUME NEW c \in Conns, ReadPDU(c) \/ ReadFail(c) PROVE Reachable'
    BY <1>3 DEF ReadPDU, ReadFail
<1>4. ASSUME NEW c \in Conns, RefuseBind(c) PROVE Reachable'
    BY <1>4 DEF RefuseBind, Receive
<1>5. ASSUME NEW c \in Conns, AcceptBind(c) PROVE Reachable'
    BY <1>5 DEF AcceptBind, Receive
<1>6. ASSUME NEW c \in Conns, SetBindType(c) PROVE Reachable'
    BY <1>6 DEF SetBindType
<1>7. ASSUME NEW c \in Conns, StoreSession(c) PROVE Reachable'
    BY <1>7 DEF StoreSession
<1>8. ASSUME NEW c \in Conns, HandleUnbind(c) PROVE Reachable'
    BY <1>8 DEF HandleUnbind, Receive
<1>9. ASSUME NEW c \in Conns, HandleSubmit(c) PROVE Reachable'
    BY <1>9 DEF HandleSubmit, Receive
<1>10. ASSUME NEW c \in Conns, HandleEnquireLink(c) PROVE Reachable'
    BY <1>10 DEF HandleEnquireLink, Receive
<1>11. ASSUME NEW c \in Conns, HandleDeliverSMResp(c) PROVE Reachable'
    BY <1>11 DEF HandleDeliverSMResp, Receive
<1>12. ASSUME NEW c \in Conns, Respond(c) PROVE Reachable'
    BY <1>12 DEF Respond
<1>13. ASSUME NEW c \in Conns, ExitLoop(c) PROVE Reachable'
    BY <1>13 DEF ExitLoop
<1>14. ASSUME NEW c \in Conns, CloseConn(c) PROVE Reachable'
    BY <1>14 DEF CloseConn
<1>15. ASSUME NEW c \in Conns, GoIdle(c) PROVE Reachable'
    BY <1>15 DEF GoIdle
<1>16. ASSUME NEW s \in Senders, Sender(s) PROVE Reachable'
    BY <1>16, SenderFrame
<1>17. CASE UNCHANGED vars
    BY <1>17 DEF vars
<1>18. QED
    BY <1>1, <1>2, <1>3, <1>4, <1>5, <1>6, <1>7, <1>8, <1>9, <1>10, <1>11, <1>12, <1>13, <1>14, <1>15, <1>16, <1>17 DEF Next, Handler, HandlePDU

\* TakeSeq hands out the next number, which no sender holds and nobody delivered.
LEMMA NumberingStep == Inv /\ [Next]_vars => Numbering'
<1> SUFFICES ASSUME Inv, [Next]_vars PROVE Numbering'
    OBVIOUS
<1> USE ConstantsAssumption DEF Inv, TypeOK, Location, SLocation, BindTypes, connVars, senderVars, SendersReady, Numbering
<1>1. ASSUME Cleanup PROVE Numbering'
    BY <1>1 DEF Cleanup, Stale
<1>2. ASSUME NEW c \in Conns, Accept(c) PROVE Numbering'
    BY <1>2 DEF Accept
<1>3. ASSUME NEW c \in Conns, ReadPDU(c) \/ ReadFail(c) PROVE Numbering'
    BY <1>3 DEF ReadPDU, ReadFail
<1>4. ASSUME NEW c \in Conns, RefuseBind(c) PROVE Numbering'
    BY <1>4 DEF RefuseBind, Receive
<1>5. ASSUME NEW c \in Conns, AcceptBind(c) PROVE Numbering'
    BY <1>5 DEF AcceptBind, Receive
<1>6. ASSUME NEW c \in Conns, SetBindType(c) PROVE Numbering'
    BY <1>6 DEF SetBindType
<1>7. ASSUME NEW c \in Conns, StoreSession(c) PROVE Numbering'
    BY <1>7 DEF StoreSession
<1>8. ASSUME NEW c \in Conns, HandleUnbind(c) PROVE Numbering'
    BY <1>8 DEF HandleUnbind, Receive
<1>9. ASSUME NEW c \in Conns, HandleSubmit(c) PROVE Numbering'
    BY <1>9 DEF HandleSubmit, Receive
<1>10. ASSUME NEW c \in Conns, HandleEnquireLink(c) PROVE Numbering'
    BY <1>10 DEF HandleEnquireLink, Receive
<1>11. ASSUME NEW c \in Conns, HandleDeliverSMResp(c) PROVE Numbering'
    BY <1>11 DEF HandleDeliverSMResp, Receive
<1>12. ASSUME NEW c \in Conns, Respond(c) PROVE Numbering'
    BY <1>12 DEF Respond
<1>13. ASSUME NEW c \in Conns, ExitLoop(c) PROVE Numbering'
    BY <1>13 DEF ExitLoop
<1>14. ASSUME NEW c \in Conns, CloseConn(c) PROVE Numbering'
    BY <1>14 DEF CloseConn
<1>15. ASSUME NEW c \in Conns, GoIdle(c) PROVE Numbering'
    BY <1>15 DEF GoIdle
<1>16. ASSUME NEW s \in Senders, UserMessage(s) PROVE Numbering'
    BY <1>16 DEF UserMessage, Routable
<1>17. ASSUME NEW s \in Senders, Lookup(s) PROVE Numbering'
    BY <1>17 DEF Lookup
<1>18. ASSUME NEW s \in Senders, NotFound(s) PROVE Numbering'
    BY <1>18 DEF NotFound, Finish
<1>19. ASSUME NEW s \in Senders, CheckBound(s) PROVE Numbering'
    BY <1>19 DEF CheckBound
<1>20. ASSUME NEW s \in Senders, NotBound(s) PROVE Numbering'
    BY <1>20 DEF NotBound, Finish
<1>21. ASSUME NEW s \in Senders, TakeSeq(s) PROVE Numbering'
    BY <1>21 DEF TakeSeq
<1>22. ASSUME NEW s \in Senders, WriteDeliver(s) PROVE Numbering'
    BY <1>22 DEF WriteDeliver, Finish
<1>23. ASSUME NEW s \in Senders, WriteFail(s) PROVE Numbering'
    BY <1>23 DEF WriteFail, Finish
<1>24. CASE UNCHANGED vars
    BY <1>24 DEF vars
<1>25. QED
    BY <1>1, <1>2, <1>3, <1>4, <1>5, <1>6, <1>7, <1>8, <1>9, <1>10, <1>11, <1>12, <1>13, <1>14, <1>15, <1>16, <1>17, <1>18, <1>19, <1>20, <1>21, <1>22, <1>23, <1>24 DEF Next, Handler, HandlePDU, Sender

\* SetBindType follows every AcceptBind, and the sweep closes only registered sessions.
LEMMA TypedStep == Inv /\ [Next]_vars => Typed'
<1> SUFFICES ASSUME Inv, [Next]_vars PROVE Typed'
    OBVIOUS
<1> USE ConstantsAssumption DEF Inv, TypeOK, Location, SLocation, BindTypes, connVars, senderVars, NoDeadEntry, Typed
<1>1. ASSUME Cleanup PROVE Typed'
    BY <1>1 DEF Cleanup, Stale
<1>2. ASSUME NEW c \in Conns, Accept(c) PROVE Typed'
    BY <1>2 DEF Accept
<1>3. ASSUME NEW c \in Conns, ReadPDU(c) \/ ReadFail(c) PROVE Typed'
    BY <1>3 DEF ReadPDU, ReadFail
<1>4. ASSUME NEW c \in Conns, RefuseBind(c) PROVE Typed'
    BY <1>4 DEF RefuseBind, Receive
<1>5. ASSUME NEW c \in Conns, AcceptBind(c) PROVE Typed'
    BY <1>5 DEF AcceptBind, Receive
<1>6. ASSUME NEW c \in Conns, SetBindType(c) PROVE Typed'
    BY <1>6 DEF SetBindType
<1>7. ASSUME NEW c \in Conns, StoreSession(c) PROVE Typed'
    BY <1>7 DEF StoreSession
<1>8. ASSUME NEW c \in Conns, HandleUnbind(c) PROVE Typed'
    BY <1>8 DEF HandleUnbind, Receive
<1>9. ASSUME NEW c \in Conns, HandleSubmit(c) PROVE Typed'
    BY <1>9 DEF HandleSubmit, Receive
<1>10. ASSUME NEW c \in Conns, HandleEnquireLink(c) PROVE Typed'
    BY <1>10 DEF HandleEnquireLink, Receive
<1>11. ASSUME NEW c \in Conns, HandleDeliverSMResp(c) PROVE Typed'
    BY <1>11 DEF HandleDeliverSMResp, Receive
<1>12. ASSUME NEW c \in Conns, Respond(c) PROVE Typed'
    BY <1>12 DEF Respond
<1>13. ASSUME NEW c \in Conns, ExitLoop(c) PROVE Typed'
    BY <1>13 DEF ExitLoop
<1>14. ASSUME NEW c \in Conns, CloseConn(c) PROVE Typed'
    BY <1>14 DEF CloseConn
<1>15. ASSUME NEW c \in Conns, GoIdle(c) PROVE Typed'
    BY <1>15 DEF GoIdle
<1>16. ASSUME NEW s \in Senders, Sender(s) PROVE Typed'
    BY <1>16, SenderFrame
<1>17. CASE UNCHANGED vars
    BY <1>17 DEF vars
<1>18. QED
    BY <1>1, <1>2, <1>3, <1>4, <1>5, <1>6, <1>7, <1>8, <1>9, <1>10, <1>11, <1>12, <1>13, <1>14, <1>15, <1>16, <1>17 DEF Next, Handler, HandlePDU

----
THEOREM Invariant == Spec => []Inv
<1>1. Init => Inv
    BY ConstantsAssumption DEF Init, Inv, TypeOK, Location, SLocation, Credentials,
       EntryOwned, NoDeadEntry, SendersReady, Reachable, Numbering, Typed
<1>2. Inv /\ [Next]_vars => Inv'
    BY TypeStep, CredentialsStep, EntryOwnedStep, NoDeadEntryStep, SendersReadyStep,
       ReachableStep, NumberingStep, TypedStep DEF Inv
<1>3. QED
    BY <1>1, <1>2, PTL DEF Spec

\* Every variable keeps its type.
THEOREM TypeCorrect == Spec => []TypeOK
<1>1. Inv => TypeOK
    BY DEF Inv
<1>2. QED
    BY <1>1, Invariant, PTL

\* handleConnection never leaves an entry of a finished connection in s.sessions.
THEOREM NoDeadEntryHolds == Spec => []NoDeadEntry
<1>1. Inv => NoDeadEntry
    BY DEF Inv
<1>2. QED
    BY <1>1, Invariant, PTL

\* A bound client loses its place in s.sessions only to a client of the same system_id.
THEOREM UnreachableOnlyByRebindHolds == Spec => []UnreachableOnlyByRebind
<1>1. Inv => UnreachableOnlyByRebind
    BY DEF Inv, Reachable, UnreachableOnlyByRebind
<1>2. QED
    BY <1>1, Invariant, PTL

----
(* SessionRegistry implements SmppConnection. *)

States == [c \in Conns |-> SessionState(c)]

\* A step that moves no session between SMPP states and delivers nothing is a stutter.
LEMMA Stutter ==
    ASSUME \A d \in Conns : SessionState(d)' = SessionState(d),
           UNCHANGED <<sysId, delivered>>
    PROVE  UNCHANGED Connection!vars
BY DEF Connection!vars

\* Handler steps that leave the SMPP state alone.
LEMMA QuietHandler ==
    ASSUME Inv, NEW c \in Conns,
           \/ ReadPDU(c) \/ ReadFail(c) \/ RefuseBind(c) \/ StoreSession(c) \/ HandleSubmit(c)
           \/ HandleEnquireLink(c) \/ HandleDeliverSMResp(c) \/ Respond(c) \/ ExitLoop(c)
           \/ GoIdle(c)
    PROVE  UNCHANGED Connection!vars
<1> USE DEF Inv, TypeOK, SessionState
<1> DEFINE Quiet == /\ UNCHANGED <<closed, bound, bindType, sysId, delivered>>
                    /\ \A d \in Conns : /\ (pc[d] = "new") <=> (pc'[d] = "new")
                                        /\ (pc[d] = "setType") <=> (pc'[d] = "setType")
<1>1. CASE ReadPDU(c) \/ ReadFail(c)
    <2>1. Quiet
        BY <1>1 DEF ReadPDU, ReadFail
    <2>2. QED
        BY <2>1, Stutter
<1>2. CASE RefuseBind(c)
    <2>1. Quiet
        BY <1>2 DEF RefuseBind, Receive
    <2>2. QED
        BY <2>1, Stutter
<1>3. CASE StoreSession(c)
    <2>1. Quiet
        BY <1>3 DEF StoreSession
    <2>2. QED
        BY <2>1, Stutter
<1>4. CASE HandleSubmit(c)
    <2>1. Quiet
        BY <1>4 DEF HandleSubmit, Receive
    <2>2. QED
        BY <2>1, Stutter
<1>5. CASE HandleEnquireLink(c)
    <2>1. Quiet
        BY <1>5 DEF HandleEnquireLink, Receive
    <2>2. QED
        BY <2>1, Stutter
<1>6. CASE HandleDeliverSMResp(c)
    <2>1. Quiet
        BY <1>6 DEF HandleDeliverSMResp, Receive
    <2>2. QED
        BY <2>1, Stutter
<1>7. CASE Respond(c)
    <2>1. Quiet
        BY <1>7 DEF Respond
    <2>2. QED
        BY <2>1, Stutter
<1>8. CASE ExitLoop(c)
    <2>1. Quiet
        BY <1>8 DEF ExitLoop
    <2>2. QED
        BY <2>1, Stutter
<1>9. CASE GoIdle(c)
    <2>1. Quiet
        BY <1>9 DEF GoIdle
    <2>2. QED
        BY <2>1, Stutter
<1>10. QED
    BY <1>1, <1>2, <1>3, <1>4, <1>5, <1>6, <1>7, <1>8, <1>9

\* What one connection does to the SMPP states.
LEMMA OneState ==
    ASSUME NEW c \in Conns, NEW v,
           SessionState(c)' = v,
           \A d \in Conns \ {c} : SessionState(d)' = SessionState(d)
    PROVE  States' = [States EXCEPT ![c] = v]
BY DEF States

\* Every step of the server is a step of SmppConnection or leaves it unchanged.
LEMMA ImplementsStep == Inv /\ [Next]_vars => [Connection!Next]_Connection!vars
<1> SUFFICES ASSUME Inv, [Next]_vars PROVE [Connection!Next]_Connection!vars
    OBVIOUS
<1> USE DEF Inv, TypeOK
<1>1. ASSUME NEW c \in Conns, Accept(c) PROVE Connection!Open(c)
    <2>1. SessionState(c) = "none" /\ SessionState(c)' = "open"
        BY <1>1, ConstantsAssumption DEF Accept, SessionState, Typed, Credentials
    <2>2. \A d \in Conns \ {c} : SessionState(d)' = SessionState(d)
        BY <1>1 DEF Accept, SessionState
    <2>3. QED
        BY <1>1, <2>1, <2>2, OneState DEF States, Accept, Connection!Open
<1>2. ASSUME NEW c \in Conns, AcceptBind(c)
      PROVE  Connection!Authenticate(c) \/ UNCHANGED Connection!vars
    <2>1. \A d \in Conns \ {c} : SessionState(d)' = SessionState(d)
        BY <1>2 DEF AcceptBind, Receive, SessionState
    <2>2. CASE closed[c]
        <3>1. sysId[c] = ServerID /\ sysId'[c] = ServerID
            BY <1>2, <2>2 DEF AcceptBind, Receive, Credentials
        <3>2. UNCHANGED <<sysId, delivered>>
            BY <1>2, <3>1 DEF AcceptBind
        <3>3. SessionState(c)' = SessionState(c)
            BY <1>2, <2>2 DEF AcceptBind, Receive, SessionState
        <3>4. QED
            BY <2>1, <3>2, <3>3, Stutter
    <2>3. CASE ~closed[c]
        <3>1. SessionState(c) = "open" /\ SessionState(c)' = "binding"
            BY <1>2, <2>3 DEF AcceptBind, Receive, SessionState
        <3>2. {d \in Conns : sysId[d] # None}' = {d \in Conns : sysId[d] # None} \cup {c}
            BY <1>2, ConstantsAssumption DEF AcceptBind
        <3>3. QED
            BY <1>2, <2>1, <3>1, <3>2, OneState
            DEF States, AcceptBind, Connection!Authenticate
    <2>4. QED
        BY <2>2, <2>3
<1>3. ASSUME NEW c \in Conns, SetBindType(c)
      PROVE  Connection!Bind(c) \/ UNCHANGED Connection!vars
    <2>1. \A d \in Conns \ {c} : SessionState(d)' = SessionState(d)
        BY <1>3 DEF SetBindType, SessionState
    <2>2. CASE closed[c]
        <3>1. SessionState(c)' = SessionState(c)
            BY <1>3, <2>2 DEF SetBindType, SessionState
        <3>2. QED
            BY <1>3, <2>1, <3>1, Stutter DEF SetBindType
    <2>3. CASE ~closed[c]
        <3>1. SessionState(c) = "binding"
            BY <1>3, <2>3 DEF SetBindType, SessionState
        <3>2. bound[c] /\ asked[c] \in BindTypes
            BY <1>3 DEF SetBindType, Typed
        <3>3. SessionState(c)' = asked[c]
            BY <1>3, <2>3, <3>2 DEF SetBindType, SessionState
        <3>4. QED
            BY <1>3, <2>1, <3>1, <3>2, <3>3, OneState
            DEF States, SetBindType, Connection!Bind
    <2>4. QED
        BY <2>2, <2>3
<1>4. ASSUME NEW c \in Conns, HandleUnbind(c)
      PROVE  Connection!Unbind(c) \/ UNCHANGED Connection!vars
    <2>1. \A d \in Conns \ {c} : SessionState(d)' = SessionState(d)
        BY <1>4 DEF HandleUnbind, Receive, SessionState
    <2>2. ~closed[c] => SessionState(c)' = "open"
        BY <1>4 DEF HandleUnbind, Receive, SessionState
    <2>3. CASE bound[c] /\ ~closed[c]
        <3>1. SessionState(c) \in BindTypes
            BY <1>4, <2>3 DEF HandleUnbind, Receive, SessionState, Typed
        <3>2. QED
            BY <1>4, <2>1, <2>2, <2>3, <3>1, OneState
            DEF States, HandleUnbind, Connection!Unbind
    <2>4. CASE ~bound[c] \/ closed[c]
        <3>1. SessionState(c)' = SessionState(c)
            BY <1>4, <2>4 DEF HandleUnbind, Receive, SessionState
        <3>2. QED
            BY <1>4, <2>1, <3>1, Stutter DEF HandleUnbind
    <2>5. QED
        BY <2>3, <2>4
<1>5. ASSUME Cleanup \/ \E c \in Conns : CloseConn(c) PROVE Connection!Close
    <2> DEFINE S == {c \in Conns : closed'[c] /\ ~closed[c]}
    <2>1. /\ UNCHANGED <<bound, bindType, sysId, delivered>>
          /\ \A c \in Conns : /\ (pc[c] = "new") <=> (pc'[c] = "new")
                              /\ (pc[c] = "setType") <=> (pc'[c] = "setType")
                              /\ closed[c] => closed'[c]
          /\ \A c \in S : pc[c] # "new"
        <3>1. CASE Cleanup
            <4>1. ASSUME NEW c \in S PROVE pc[c] # "new"
                <5>1. PICK id \in SystemIDs : sessions[id] = c
                    BY <3>1, <4>1 DEF Cleanup
                <5>2. QED
                    BY <4>1, <5>1, ConstantsAssumption DEF NoDeadEntry
            <4>2. QED
                BY <3>1, <4>1 DEF Cleanup
        <3>2. CASE \E c \in Conns : CloseConn(c)
            BY <3>2 DEF CloseConn
        <3>3. QED
            BY <1>5, <3>1, <3>2
    <2>2. \A c \in S : SessionState(c) # "none" /\ SessionState(c)' = "closed"
        BY <2>1, ConstantsAssumption DEF SessionState, Typed, BindTypes
    <2>3. \A c \in Conns \ S : SessionState(c)' = SessionState(c)
        BY <2>1 DEF SessionState
    <2>4. States' = [c \in Conns |-> IF c \in S THEN "closed" ELSE States[c]]
        BY <2>2, <2>3 DEF States
    <2>5. S \in SUBSET {c \in Conns : States[c] # "none"}
        BY <2>2 DEF States
    <2>6. QED
        BY <2>1, <2>4, <2>5 DEF States, Connection!Close
<1>6. ASSUME NEW s \in Senders, WriteDeliver(s) PROVE Connection!Deliver(sess[s])
    <2>1. /\ sess[s] \in Conns
          /\ sysId[sess[s]] # None
          /\ seq[s] \in 1..MaxSeq /\ delivered[sess[s]][seq[s]] = 0
        BY <1>6, ConstantsAssumption DEF WriteDeliver, SendersReady, Numbering
    <2>2. SessionState(sess[s]) # "closed"
        BY <1>6, <2>1 DEF WriteDeliver, SessionState, Typed, BindTypes
    <2>3. \A d \in Conns : SessionState(d)' = SessionState(d)
        BY <1>6 DEF WriteDeliver, connVars, SessionState
    <2>4. States' = States /\ UNCHANGED sysId
        BY <1>6, <2>3 DEF WriteDeliver, connVars, States
    <2>5. delivered' = [delivered EXCEPT ![sess[s]][seq[s]] = 1]
        BY <1>6, <2>1 DEF WriteDeliver
    <2>6. QED
        BY <2>1, <2>2, <2>4, <2>5 DEF States, Connection!Deliver
<1>7. ASSUME NEW s \in Senders,
             \/ UserMessage(s) \/ Lookup(s) \/ NotFound(s) \/ CheckBound(s) \/ NotBound(s)
             \/ TakeSeq(s) \/ WriteFail(s)
      PROVE  UNCHANGED Connection!vars
    <2>1. UNCHANGED <<connVars, delivered>>
        BY <1>7 DEF UserMessage, Lookup, NotFound, CheckBound, NotBound, TakeSeq, WriteFail
    <2>2. QED
        BY <2>1, Stutter DEF connVars, SessionState
<1>8. CASE UNCHANGED vars
    BY <1>8, Stutter DEF vars, SessionState
<1>9. ASSUME NEW c \in Conns, Handler(c) \/ GoIdle(c)
      PROVE  [Connection!Next]_Connection!vars
    BY <1>1, <1>2, <1>3, <1>4, <1>5, <1>9, QuietHandler
    DEF Handler, HandlePDU, Connection!Next
<1>10. ASSUME NEW s \in Senders, Sender(s) PROVE [Connection!Next]_Connection!vars
    <2>1. CASE WriteDeliver(s)
        BY <1>6, <2>1 DEF SendersReady, WriteDeliver, Connection!Next
    <2>2. CASE ~WriteDeliver(s)
        BY <1>7, <1>10, <2>2 DEF Sender
    <2>3. QED
        BY <2>1, <2>2
<1>11. QED
    BY <1>5, <1>8, <1>9, <1>10 DEF Next, Connection!Next

\* The server implements the abstract connection: SMPP session states, credentials before
\* a bind, and fresh deliver_sm numbers, whatever the interleaving.
THEOREM Refinement == Spec => ImplementsConnection
<1>1. Init => Connection!Init
    BY DEF Init, Connection!Init, SessionState
<1>2. QED
    BY <1>1, ImplementsStep, Invariant, PTL DEF Spec, ImplementsConnection, Connection!Spec
====
