---- MODULE UssdSessions ----
(***************************************************************************)
(* USSD sessions of server/server.go: the table s.ussdSessions from        *)
(* address to session, the counter session ids are made of, the two kinds  *)
(* of requests that use them (a message typed at the user simulator, a     *)
(* submit_sm with USSD content from the ESME), and the one-minute sweep    *)
(* cleanupUssdSessions.                                                    *)
(*                                                                         *)
(* Every access to the table is one step under s.sessionMutex; a request   *)
(* makes several.  handleUSSDRequest keeps a pointer to the session across *)
(* an unlock, so sessions are objects (here: their number), which outlive  *)
(* their entry in the table.                                               *)
(*                                                                         *)
(* Requests take milliseconds and ticks minutes, but a request may wait    *)
(* for a mutex as long as a write that holds it blocks: the requests       *)
(* during which time has passed are slow.                                  *)
(*                                                                         *)
(* Abstracted: texts, menus, system_ids, and all of SendDeliverSM but the  *)
(* choice of the session id it puts into the message_id; time is the       *)
(* number of ticks until ExpiryTime.                                       *)
(***************************************************************************)
EXTENDS Integers

CONSTANTS
    Addrs,         \* MSISDNs and service codes
    EmptyAddr,     \* the empty address
    Requests,      \* USSD messages that arrive, from users and from the ESME
    None,          \* no address
    TTL,           \* lifetime of a session after its last use, in ticks (10 minutes)
    MaxSid         \* bound: sessions created

ASSUME ConstantsAssumption ==
    /\ None \notin Addrs
    /\ TTL \in Nat \ {0}
    /\ MaxSid \in Nat

Sids == 1..MaxSid
NoSid == 0

VARIABLES
    ussdSessions,    \* [Addrs -> Sids \cup {NoSid}]: s.ussdSessions
    sessionCounter,  \* 0..MaxSid: s.sessionCounter, less the 1000 it starts at
    userAddr,        \* [Sids -> Addrs \cup {None}]: UserAddr of a created session
    ttl,             \* [Sids -> -1..TTL]: ticks to ExpiryTime; 0 is ExpiryTime itself
    rpc,             \* [Requests -> RLocation]: what a request does next
    src,             \* [Requests -> Addrs \cup {None}]: source address of the request
    dst,             \* [Requests -> Addrs \cup {None}]: its destination address
    held,            \* [Requests -> Sids \cup {NoSid}]: session pointer it holds
    sent,            \* [Requests -> Sids \cup {NoSid}]: session id in its deliver_sm
    slow             \* SUBSET Requests: time has passed since they began

reqVars == <<src, dst>>
tableVars == <<ussdSessions, sessionCounter, userAddr, ttl>>
vars == <<tableVars, rpc, reqVars, held, sent, slow>>

RLocation == {"new", "create", "moSend", "moFallback",
              "lookup", "refresh", "replySend", "replyFallback", "done"}

Init ==
    /\ ussdSessions = [a \in Addrs |-> NoSid]
    /\ sessionCounter = 0
    /\ userAddr = [s \in Sids |-> None]
    /\ ttl = [s \in Sids |-> -1]
    /\ rpc = [r \in Requests |-> "new"]
    /\ src = [r \in Requests |-> None]
    /\ dst = [r \in Requests |-> None]
    /\ held = [r \in Requests |-> NoSid]
    /\ sent = [r \in Requests |-> NoSid]
    /\ slow = {}

InProgress(r) == rpc[r] \notin {"new", "done"}

----
(* The table. *)

Valid(s) == s # NoSid /\ ttl[s] > 0        \* time.Now().Before(ExpiryTime)
Expired(s) == s # NoSid /\ ttl[s] < 0      \* now.After(ExpiryTime)

\* Mutant of GetOrCreate: without the lock the increment of the counter may be lost.
GetOrCreateUnlocked(a, s) ==
    \/ /\ Valid(ussdSessions[a])
       /\ s = ussdSessions[a]
       /\ ttl' = [ttl EXCEPT ![s] = TTL]
       /\ UNCHANGED <<ussdSessions, sessionCounter, userAddr>>
    \/ /\ ~Valid(ussdSessions[a])
       /\ sessionCounter < MaxSid
       /\ sessionCounter' \in {sessionCounter, sessionCounter + 1}
       /\ s = sessionCounter + 1
       /\ userAddr' = [userAddr EXCEPT ![s] = a]
       /\ ttl' = [ttl EXCEPT ![s] = TTL]
       /\ ussdSessions' = [ussdSessions EXCEPT ![a] = s]

\* getOrCreateUSSDSession(a) gives session s: the entry of a, extended, when it is valid;
\* else a new session under the next number, in place of an expired one.
GetOrCreate(a, s) ==
    \/ /\ Valid(ussdSessions[a])
       /\ s = ussdSessions[a]
       /\ ttl' = [ttl EXCEPT ![s] = TTL]
       /\ UNCHANGED <<ussdSessions, sessionCounter, userAddr>>
    \/ /\ ~Valid(ussdSessions[a])
       /\ sessionCounter < MaxSid
       /\ sessionCounter' = sessionCounter + 1
       /\ s = sessionCounter'
       /\ userAddr' = [userAddr EXCEPT ![s] = a]
       /\ ttl' = [ttl EXCEPT ![s] = TTL]
       /\ ussdSessions' = [ussdSessions EXCEPT ![a] = s]

\* Mutant of Resolved: the session of the destination comes first.
ResolvedByDestination(a, b) ==
    IF ussdSessions[b] # NoSid THEN ussdSessions[b] ELSE ussdSessions[a]

\* SendDeliverSM's choice of the session id for a message from a to b.
Resolved(a, b) == IF ussdSessions[a] # NoSid THEN ussdSessions[a] ELSE ussdSessions[b]

\* The address SendDeliverSM creates a session for when neither has one.
FallbackAddr(a, b) == IF a # EmptyAddr THEN a ELSE b

----
(* Requests. *)

\* A USSD line from a user simulator (processUserMessage), or a USSD submit_sm from the
\* ESME (handleUSSDRequest).
Start(r) ==
    /\ rpc[r] = "new"
    /\ \E a, b \in Addrs :
          /\ src' = [src EXCEPT ![r] = a]
          /\ dst' = [dst EXCEPT ![r] = b]
    /\ \E next \in {"create", "lookup"} : rpc' = [rpc EXCEPT ![r] = next]
    /\ UNCHANGED <<tableVars, held, sent, slow>>

\* processUserMessage: getOrCreateUSSDSession(fromAddr, ...).
Create(r) ==
    /\ rpc[r] = "create"
    /\ \E s \in Sids :
          /\ GetOrCreate(src[r], s)
          /\ held' = [held EXCEPT ![r] = s]
    /\ rpc' = [rpc EXCEPT ![r] = "moSend"]
    /\ UNCHANGED <<reqVars, sent, slow>>

\* handleUSSDRequest: the session of the source address, under the read lock.
LookupSession(r) ==
    /\ rpc[r] = "lookup"
    /\ held' = [held EXCEPT ![r] = ussdSessions[src[r]]]
    /\ rpc' = [rpc EXCEPT ![r] =
                  IF ussdSessions[src[r]] = NoSid THEN "replySend" ELSE "refresh"]
    /\ UNCHANGED <<tableVars, reqVars, sent, slow>>

\* Mutant of RefreshSession: ten minutes are added to the expiry instead of to now.
RefreshAdds(r) ==
    /\ rpc[r] = "refresh"
    /\ ttl' = [ttl EXCEPT ![held[r]] = @ + TTL]
    /\ rpc' = [rpc EXCEPT ![r] = "replySend"]
    /\ UNCHANGED <<ussdSessions, sessionCounter, userAddr, reqVars, held, sent, slow>>

\* handleUSSDRequest: its expiry is put off, under the lock, expired or removed or not.
RefreshSession(r) ==
    /\ rpc[r] = "refresh"
    /\ ttl' = [ttl EXCEPT ![held[r]] = TTL]
    /\ rpc' = [rpc EXCEPT ![r] = "replySend"]
    /\ UNCHANGED <<ussdSessions, sessionCounter, userAddr, reqVars, held, sent, slow>>

\* The request is over, and its variables are gone.
End(r) ==
    /\ rpc' = [rpc EXCEPT ![r] = "done"]
    /\ src' = [src EXCEPT ![r] = None]
    /\ dst' = [dst EXCEPT ![r] = None]
    /\ held' = [held EXCEPT ![r] = NoSid]
    /\ slow' = slow \ {r}

\* The message of SendDeliverSM carries session id s, and the request is over.
Deliver(r, s) ==
    /\ sent' = [sent EXCEPT ![r] = s]
    /\ End(r)

\* The addresses of the message sent: a reply goes the other way.
From(r) == IF rpc[r] \in {"moSend", "moFallback"} THEN src[r] ELSE dst[r]
To(r)   == IF rpc[r] \in {"moSend", "moFallback"} THEN dst[r] ELSE src[r]

\* SendDeliverSM finds a session of the source or the destination, under the read lock.
Resolve(r) ==
    /\ rpc[r] \in {"moSend", "replySend"}
    /\ Resolved(From(r), To(r)) # NoSid
    /\ Deliver(r, Resolved(From(r), To(r)))
    /\ UNCHANGED tableVars

\* It finds none and gives up the read lock.
Unresolved(r) ==
    /\ rpc[r] \in {"moSend", "replySend"}
    /\ Resolved(From(r), To(r)) = NoSid
    /\ rpc' = [rpc EXCEPT ![r] = IF @ = "moSend" THEN "moFallback" ELSE "replyFallback"]
    /\ UNCHANGED <<tableVars, reqVars, held, sent, slow>>

\* Mutant of Fallback: a session is created without looking again for one.
FallbackCreates(r) ==
    /\ rpc[r] \in {"moFallback", "replyFallback"}
    /\ sessionCounter < MaxSid
    /\ LET a == FallbackAddr(From(r), To(r))
           s == sessionCounter + 1
       IN  /\ sessionCounter' = s
           /\ userAddr' = [userAddr EXCEPT ![s] = a]
           /\ ttl' = [ttl EXCEPT ![s] = TTL]
           /\ ussdSessions' = [ussdSessions EXCEPT ![a] = s]
           /\ Deliver(r, s)

\* "Fallback - create new session if none exists"
Fallback(r) ==
    /\ rpc[r] \in {"moFallback", "replyFallback"}
    /\ \E s \in Sids :
          /\ GetOrCreate(FallbackAddr(From(r), To(r)), s)
          /\ Deliver(r, s)

\* "session not found or not bound", before any session id is chosen.
NotBound(r) ==
    /\ rpc[r] \in {"moSend", "replySend"}
    /\ End(r)
    /\ UNCHANGED <<tableVars, sent>>

----
(* Time. *)

\* Every request in progress has become slow.
SlowDown == slow' = slow \cup {r \in Requests : InProgress(r)}

Tick ==
    /\ \E s \in Sids : ttl[s] > -1
    /\ ttl' = [s \in Sids |-> IF ttl[s] > -1 THEN ttl[s] - 1 ELSE -1]
    /\ SlowDown
    /\ UNCHANGED <<ussdSessions, sessionCounter, userAddr, rpc, reqVars, held, sent>>

\* Mutant of Cleanup: the goroutine of cleanupUssdSessions is not started.
CleanupNotStarted ==
    /\ FALSE
    /\ UNCHANGED vars

\* One tick of cleanupUssdSessions: every expired entry is removed, under the lock.
Cleanup ==
    /\ \E a \in Addrs : Expired(ussdSessions[a])
    /\ ussdSessions' = [a \in Addrs |->
                          IF Expired(ussdSessions[a]) THEN NoSid ELSE ussdSessions[a]]
    /\ UNCHANGED <<sessionCounter, userAddr, ttl, rpc, reqVars, held, sent, slow>>

\* ExpireUSSDSession, the hook for tests: time passes for one session.
ExpireUSSDSession(a) ==
    /\ ussdSessions[a] # NoSid
    /\ ttl' = [ttl EXCEPT ![ussdSessions[a]] = -1]
    /\ SlowDown
    /\ UNCHANGED <<ussdSessions, sessionCounter, userAddr, rpc, reqVars, held, sent>>

Proceed(r) ==
    \/ Create(r) \/ LookupSession(r) \/ RefreshSession(r)
    \/ Resolve(r) \/ Unresolved(r) \/ Fallback(r) \/ NotBound(r)

Next ==
    \/ Tick \/ Cleanup
    \/ \E r \in Requests : Start(r) \/ Proceed(r)
    \/ \E a \in Addrs : ExpireUSSDSession(a)

Spec == Init /\ [][Next]_vars

\* Time passes, the sweep's ticker fires, and a request that has begun goes on.
Fairness == WF_vars(Tick) /\ WF_vars(Cleanup) /\ \A r \in Requests : WF_vars(Proceed(r))

FairSpec == Spec /\ Fairness

----
(* Properties. *)

\* Every variable keeps its type.
TypeOK ==
    /\ ussdSessions \in [Addrs -> Sids \cup {NoSid}]
    /\ sessionCounter \in 0..MaxSid
    /\ userAddr \in [Sids -> Addrs \cup {None}]
    /\ ttl \in [Sids -> -1..TTL]
    /\ rpc \in [Requests -> RLocation]
    /\ src \in [Requests -> Addrs \cup {None}]
    /\ dst \in [Requests -> Addrs \cup {None}]
    /\ held \in [Requests -> Sids \cup {NoSid}]
    /\ sent \in [Requests -> Sids \cup {NoSid}]
    /\ slow \in SUBSET Requests

\* No two addresses have the same session, also when requests create, drop and replace
\* sessions concurrently: an entry is the session created for its own address.
SessionsOwned ==
    \A a \in Addrs : ussdSessions[a] # NoSid => userAddr[ussdSessions[a]] = a

\* A session in use keeps its place: while it has not expired, no request, fallback or
\* sweep replaces or removes the entry of its address.
LiveSessionKept ==
    [][\A a \in Addrs : Valid(ussdSessions[a]) => ussdSessions'[a] = ussdSessions[a]]_vars

\* A message typed by a user goes out under the session getOrCreateUSSDSession gave it,
\* although SendDeliverSM looks the session up again and other requests and the sweep run
\* in between, unless the request is slow.
MessageKeepsSession ==
    [][\A r \in Requests \ slow :
          rpc[r] \in {"moSend", "moFallback"} /\ sent'[r] # sent[r]
            => sent'[r] = held[r]]_vars

\* Once requests stop, every session is removed, refreshed ones and those of fallback
\* addresses too.  (Readme: "Sessions are cleaned up after 10 minutes of inactivity".)
SessionsRemoved == <>[](\A a \in Addrs : ussdSessions[a] = NoSid)
====
