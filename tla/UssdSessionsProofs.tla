---- MODULE UssdSessionsProofs ----
(***************************************************************************)
(* Invariants of UssdSessions for any number of addresses, requests and    *)
(* sessions and any lifetime.                                              *)
(***************************************************************************)
EXTENDS UssdSessions, TLAPS

\* Numbers above the counter are unused.
CounterOK == \A s \in Sids : s > sessionCounter => userAddr[s] = None

\* A request in progress has its addresses, and a refresh holds a session.
RequestOK ==
    \A r \in Requests :
        /\ rpc[r] \notin {"new", "done"} => src[r] \in Addrs /\ dst[r] \in Addrs
        /\ rpc[r] = "refresh" => held[r] \in Sids

\* A user's request that is not slow finds the session it was given in its place, and
\* does not come to look for another.
GivenOK ==
    \A r \in Requests \ slow :
        /\ rpc[r] = "moSend" => Valid(held[r]) /\ ussdSessions[src[r]] = held[r]
        /\ rpc[r] # "moFallback"

Inv == TypeOK /\ SessionsOwned /\ CounterOK /\ RequestOK /\ GivenOK

\* LiveSessionKept, for one step.
Keeps == \A b \in Addrs : Valid(ussdSessions[b]) => ussdSessions'[b] = ussdSessions[b]

\* MessageKeepsSession, for one step.
Carries ==
    \A r \in Requests \ slow :
        rpc[r] \in {"moSend", "moFallback"} /\ sent'[r] # sent[r] => sent'[r] = held[r]

----
\* getOrCreateUSSDSession leaves the table and the sessions well typed.
LEMMA GetOrCreateType ==
    ASSUME TypeOK, NEW a \in Addrs, NEW s \in Sids, GetOrCreate(a, s)
    PROVE  /\ ussdSessions' \in [Addrs -> Sids \cup {NoSid}]
           /\ sessionCounter' \in 0..MaxSid
           /\ userAddr' \in [Sids -> Addrs \cup {None}]
           /\ ttl' \in [Sids -> -1..TTL]
<1> USE ConstantsAssumption DEF TypeOK
<1>1. TTL \in -1..TTL
    OBVIOUS
<1>2. CASE Valid(ussdSessions[a])
    BY <1>1, <1>2 DEF GetOrCreate
<1>3. CASE ~Valid(ussdSessions[a])
    BY <1>1, <1>3 DEF GetOrCreate
<1>4. QED
    BY <1>2, <1>3

\* Types are preserved: the table and the requests hold created sessions.
LEMMA TypeStep == Inv /\ [Next]_vars => TypeOK'
<1> SUFFICES ASSUME Inv, [Next]_vars PROVE TypeOK'
    OBVIOUS
<1> USE ConstantsAssumption DEF Inv, TypeOK, Sids, NoSid, RLocation, reqVars, tableVars, RequestOK
<1>1. ASSUME Tick PROVE TypeOK'
    BY <1>1 DEF Tick, SlowDown
<1>2. ASSUME Cleanup PROVE TypeOK'
    BY <1>2 DEF Cleanup, Expired
<1>3. ASSUME NEW r \in Requests, Start(r) PROVE TypeOK'
    BY <1>3 DEF Start
<1>4. ASSUME NEW r \in Requests, Create(r) PROVE TypeOK'
    <2>1. PICK s \in Sids : GetOrCreate(src[r], s) /\ held' = [held EXCEPT ![r] = s]
        BY <1>4 DEF Create
    <2>2. src[r] \in Addrs
        BY <1>4 DEF Create
    <2>3. QED
        BY <1>4, <2>1, <2>2, GetOrCreateType DEF Create
<1>5. ASSUME NEW r \in Requests, LookupSession(r) PROVE TypeOK'
    BY <1>5 DEF LookupSession
<1>6. ASSUME NEW r \in Requests, RefreshSession(r) PROVE TypeOK'
    BY <1>6 DEF RefreshSession
<1>7. ASSUME NEW r \in Requests, Resolve(r) PROVE TypeOK'
    BY <1>7 DEF Resolve, Resolved, Deliver, End, From, To
<1>8. ASSUME NEW r \in Requests, Unresolved(r) PROVE TypeOK'
    BY <1>8 DEF Unresolved
<1>9. ASSUME NEW r \in Requests, Fallback(r) PROVE TypeOK'
    <2>1. FallbackAddr(From(r), To(r)) \in Addrs
        BY <1>9 DEF Fallback, From, To, FallbackAddr
    <2>2. PICK s \in Sids : GetOrCreate(FallbackAddr(From(r), To(r)), s) /\ Deliver(r, s)
        BY <1>9 DEF Fallback
    <2>3. QED
        BY <2>1, <2>2, GetOrCreateType DEF Deliver, End
<1>10. ASSUME NEW r \in Requests, NotBound(r) PROVE TypeOK'
    BY <1>10 DEF NotBound, End
<1>11. ASSUME NEW a \in Addrs, ExpireUSSDSession(a) PROVE TypeOK'
    BY <1>11 DEF ExpireUSSDSession, SlowDown
<1>12. CASE UNCHANGED vars
    BY <1>12 DEF vars
<1>13. QED
    BY <1>1, <1>2, <1>3, <1>4, <1>5, <1>6, <1>7, <1>8, <1>9, <1>10, <1>11, <1>12 DEF Next, Proceed

\* An entry is written only for the address its session is created for.
LEMMA OwnedStep == Inv /\ [Next]_vars => SessionsOwned'
<1> SUFFICES ASSUME Inv, [Next]_vars PROVE SessionsOwned'
    OBVIOUS
<1> USE ConstantsAssumption DEF Inv, TypeOK, Sids, NoSid, RLocation, reqVars, tableVars, RequestOK, CounterOK, SessionsOwned
<1>1. ASSUME Tick PROVE SessionsOwned'
    BY <1>1 DEF Tick, SlowDown
<1>2. ASSUME Cleanup PROVE SessionsOwned'
    BY <1>2 DEF Cleanup, Expired
<1>3. ASSUME NEW r \in Requests, Start(r) PROVE SessionsOwned'
    BY <1>3 DEF Start
<1>4. ASSUME NEW r \in Requests, Create(r) PROVE SessionsOwned'
    BY <1>4 DEF Create, GetOrCreate, Valid
<1>5. ASSUME NEW r \in Requests, LookupSession(r) PROVE SessionsOwned'
    BY <1>5 DEF LookupSession
<1>6. ASSUME NEW r \in Requests, RefreshSession(r) PROVE SessionsOwned'
    BY <1>6 DEF RefreshSession
<1>7. ASSUME NEW r \in Requests, Resolve(r) PROVE SessionsOwned'
    BY <1>7 DEF Resolve, Resolved, Deliver, End, From, To
<1>8. ASSUME NEW r \in Requests, Unresolved(r) PROVE SessionsOwned'
    BY <1>8 DEF Unresolved
<1>9. ASSUME NEW r \in Requests, Fallback(r) PROVE SessionsOwned'
    BY <1>9 DEF Fallback, GetOrCreate, Valid, Deliver, End, From, To, FallbackAddr
<1>10. ASSUME NEW r \in Requests, NotBound(r) PROVE SessionsOwned'
    BY <1>10 DEF NotBound, End
<1>11. ASSUME NEW a \in Addrs, ExpireUSSDSession(a) PROVE SessionsOwned'
    BY <1>11 DEF ExpireUSSDSession, SlowDown
<1>12. CASE UNCHANGED vars
    BY <1>12 DEF vars
<1>13. QED
    BY <1>1, <1>2, <1>3, <1>4, <1>5, <1>6, <1>7, <1>8, <1>9, <1>10, <1>11, <1>12 DEF Next, Proceed

\* Every creation takes the next number.
LEMMA CounterStep == Inv /\ [Next]_vars => CounterOK'
<1> SUFFICES ASSUME Inv, [Next]_vars PROVE CounterOK'
    OBVIOUS
<1> USE ConstantsAssumption DEF Inv, TypeOK, Sids, NoSid, RLocation, reqVars, tableVars, RequestOK, CounterOK
<1>1. ASSUME Tick PROVE CounterOK'
    BY <1>1 DEF Tick, SlowDown
<1>2. ASSUME Cleanup PROVE CounterOK'
    BY <1>2 DEF Cleanup, Expired
<1>3. ASSUME NEW r \in Requests, Start(r) PROVE CounterOK'
    BY <1>3 DEF Start
<1>4. ASSUME NEW r \in Requests, Create(r) PROVE CounterOK'
    BY <1>4 DEF Create, GetOrCreate, Valid
<1>5. ASSUME NEW r \in Requests, LookupSession(r) PROVE CounterOK'
    BY <1>5 DEF LookupSession
<1>6. ASSUME NEW r \in Requests, RefreshSession(r) PROVE CounterOK'
    BY <1>6 DEF RefreshSession
<1>7. ASSUME NEW r \in Requests, Resolve(r) PROVE CounterOK'
    BY <1>7 DEF Resolve, Resolved, Deliver, End, From, To
<1>8. ASSUME NEW r \in Requests, Unresolved(r) PROVE CounterOK'
    BY <1>8 DEF Unresolved
<1>9. ASSUME NEW r \in Requests, Fallback(r) PROVE CounterOK'
    BY <1>9 DEF Fallback, GetOrCreate, Valid, Deliver, End, From, To, FallbackAddr
<1>10. ASSUME NEW r \in Requests, NotBound(r) PROVE CounterOK'
    BY <1>10 DEF NotBound, End
<1>11. ASSUME NEW a \in Addrs, ExpireUSSDSession(a) PROVE CounterOK'
    BY <1>11 DEF ExpireUSSDSession, SlowDown
<1>12. CASE UNCHANGED vars
    BY <1>12 DEF vars
<1>13. QED
    BY <1>1, <1>2, <1>3, <1>4, <1>5, <1>6, <1>7, <1>8, <1>9, <1>10, <1>11, <1>12 DEF Next, Proceed

\* Start gives a request its addresses and LookupSession its session.
LEMMA RequestStep == Inv /\ [Next]_vars => RequestOK'
<1> SUFFICES ASSUME Inv, [Next]_vars PROVE RequestOK'
    OBVIOUS
<1> USE ConstantsAssumption DEF Inv, TypeOK, Sids, NoSid, RLocation, reqVars, tableVars, RequestOK
<1>1. ASSUME Tick PROVE RequestOK'
    BY <1>1 DEF Tick, SlowDown
<1>2. ASSUME Cleanup PROVE RequestOK'
    BY <1>2 DEF Cleanup, Expired
<1>3. ASSUME NEW r \in Requests, Start(r) PROVE RequestOK'
    BY <1>3 DEF Start
<1>4. ASSUME NEW r \in Requests, Create(r) PROVE RequestOK'
    BY <1>4 DEF Create, GetOrCreate, Valid
<1>5. ASSUME NEW r \in Requests, LookupSession(r) PROVE RequestOK'
    BY <1>5 DEF LookupSession
<1>6. ASSUME NEW r \in Requests, RefreshSession(r) PROVE RequestOK'
    BY <1>6 DEF RefreshSession
<1>7. ASSUME NEW r \in Requests, Resolve(r) PROVE RequestOK'
    BY <1>7 DEF Resolve, Resolved, Deliver, End, From, To
<1>8. ASSUME NEW r \in Requests, Unresolved(r) PROVE RequestOK'
    BY <1>8 DEF Unresolved
<1>9. ASSUME NEW r \in Requests, Fallback(r) PROVE RequestOK'
    BY <1>9 DEF Fallback, GetOrCreate, Valid, Deliver, End, From, To, FallbackAddr
<1>10. ASSUME NEW r \in Requests, NotBound(r) PROVE RequestOK'
    BY <1>10 DEF NotBound, End
<1>11. ASSUME NEW a \in Addrs, ExpireUSSDSession(a) PROVE RequestOK'
    BY <1>11 DEF ExpireUSSDSession, SlowDown
<1>12. CASE UNCHANGED vars
    BY <1>12 DEF vars
<1>13. QED
    BY <1>1, <1>2, <1>3, <1>4, <1>5, <1>6, <1>7, <1>8, <1>9, <1>10, <1>11, <1>12 DEF Next, Proceed

\* GetOrCreate replaces, and the sweep removes, only what is not valid.
LEMMA KeepsStep == Inv /\ [Next]_vars => Keeps
<1> SUFFICES ASSUME Inv, [Next]_vars PROVE Keeps
    OBVIOUS
<1> USE ConstantsAssumption DEF Inv, TypeOK, Sids, NoSid, RLocation, reqVars, tableVars, RequestOK, Keeps, Valid
<1>1. ASSUME Tick PROVE Keeps
    BY <1>1 DEF Tick, SlowDown
<1>2. ASSUME Cleanup PROVE Keeps
    BY <1>2 DEF Cleanup, Expired
<1>3. ASSUME NEW r \in Requests, Start(r) PROVE Keeps
    BY <1>3 DEF Start
<1>4. ASSUME NEW r \in Requests, Create(r) PROVE Keeps
    BY <1>4 DEF Create, GetOrCreate, Valid
<1>5. ASSUME NEW r \in Requests, LookupSession(r) PROVE Keeps
    BY <1>5 DEF LookupSession
<1>6. ASSUME NEW r \in Requests, RefreshSession(r) PROVE Keeps
    BY <1>6 DEF RefreshSession
<1>7. ASSUME NEW r \in Requests, Resolve(r) PROVE Keeps
    BY <1>7 DEF Resolve, Resolved, Deliver, End, From, To
<1>8. ASSUME NEW r \in Requests, Unresolved(r) PROVE Keeps
    BY <1>8 DEF Unresolved
<1>9. ASSUME NEW r \in Requests, Fallback(r) PROVE Keeps
    BY <1>9 DEF Fallback, GetOrCreate, Valid, Deliver, End, From, To, FallbackAddr
<1>10. ASSUME NEW r \in Requests, NotBound(r) PROVE Keeps
    BY <1>10 DEF NotBound, End
<1>11. ASSUME NEW a \in Addrs, ExpireUSSDSession(a) PROVE Keeps
    BY <1>11 DEF ExpireUSSDSession, SlowDown
<1>12. CASE UNCHANGED vars
    BY <1>12 DEF vars
<1>13. QED
    BY <1>1, <1>2, <1>3, <1>4, <1>5, <1>6, <1>7, <1>8, <1>9, <1>10, <1>11, <1>12 DEF Next, Proceed

\* No step but time makes a valid session of a user's request invalid or moves it.
LEMMA GivenStep == Inv /\ [Next]_vars => GivenOK'
<1> SUFFICES ASSUME Inv, [Next]_vars PROVE GivenOK'
    OBVIOUS
<1> USE ConstantsAssumption DEF Inv, TypeOK, Sids, NoSid, RLocation, reqVars, tableVars,
        RequestOK, GivenOK, Valid
<1>0. ASSUME NEW q \in Requests \ slow, rpc[q] = "moSend"
      PROVE  /\ src[q] \in Addrs
             /\ held[q] \in Sids /\ held[q] # NoSid /\ ttl[held[q]] > 0
             /\ ussdSessions'[src[q]] = held[q]
    <2>1. src[q] \in Addrs /\ held[q] # NoSid /\ ttl[held[q]] > 0 /\ ussdSessions[src[q]] = held[q]
        BY <1>0
    <2>2. QED
        BY <2>1, KeepsStep DEF Keeps
<1>1. ASSUME Tick PROVE GivenOK'
    BY <1>1 DEF Tick, SlowDown, InProgress
<1>2. ASSUME Cleanup PROVE GivenOK'
    BY <1>0, <1>2 DEF Cleanup
<1>3. ASSUME NEW r \in Requests, Start(r) PROVE GivenOK'
    BY <1>3 DEF Start
<1>4. ASSUME NEW r \in Requests, Create(r) PROVE GivenOK'
    <2>1. PICK s \in Sids : GetOrCreate(src[r], s) /\ held' = [held EXCEPT ![r] = s]
        BY <1>4 DEF Create
    <2>2. Valid(s)' /\ ussdSessions'[src[r]] = s
        BY <1>4, <2>1 DEF Create, GetOrCreate
    <2>3. ASSUME NEW q \in Requests \ slow, q # r
          PROVE  rpc[q] = "moSend" => Valid(held[q])' /\ ussdSessions'[src[q]] = held[q]
        BY <1>0, <1>4, <2>1, <2>3 DEF Create, GetOrCreate
    <2>4. QED
        BY <1>4, <2>1, <2>2, <2>3 DEF Create
<1>5. ASSUME NEW r \in Requests, LookupSession(r) PROVE GivenOK'
    BY <1>5 DEF LookupSession
<1>6. ASSUME NEW r \in Requests, RefreshSession(r) PROVE GivenOK'
    BY <1>6 DEF RefreshSession
<1>7. ASSUME NEW r \in Requests, Resolve(r) PROVE GivenOK'
    BY <1>7 DEF Resolve, Deliver, End
<1>8. ASSUME NEW r \in Requests, Unresolved(r) PROVE GivenOK'
    BY <1>8 DEF Unresolved, Resolved, From, To
<1>9. ASSUME NEW r \in Requests, Fallback(r) PROVE GivenOK'
    <2> DEFINE a == FallbackAddr(From(r), To(r))
    <2>1. PICK s \in Sids : GetOrCreate(a, s) /\ Deliver(r, s)
        BY <1>9 DEF Fallback
    <2>2. ASSUME NEW q \in Requests \ slow, q # r
          PROVE  rpc[q] = "moSend" => Valid(held[q])' /\ ussdSessions'[src[q]] = held[q]
        BY <1>0, <1>9, <2>1, <2>2 DEF Fallback, GetOrCreate, Deliver, End
    <2>3. QED
        BY <1>9, <2>1, <2>2 DEF Fallback, Deliver, End
<1>10. ASSUME NEW r \in Requests, NotBound(r) PROVE GivenOK'
    BY <1>10 DEF NotBound, End
<1>11. ASSUME NEW a \in Addrs, ExpireUSSDSession(a) PROVE GivenOK'
    BY <1>11 DEF ExpireUSSDSession, SlowDown, InProgress
<1>12. CASE UNCHANGED vars
    BY <1>12 DEF vars
<1>13. QED
    BY <1>1, <1>2, <1>3, <1>4, <1>5, <1>6, <1>7, <1>8, <1>9, <1>10, <1>11, <1>12 DEF Next, Proceed

\* Resolve takes the session of the source first, which is the one given.
LEMMA CarriesStep == Inv /\ [Next]_vars => Carries
<1> SUFFICES ASSUME Inv, [Next]_vars,
                    NEW r \in Requests \ slow,
                    rpc[r] \in {"moSend", "moFallback"},
                    sent'[r] # sent[r]
             PROVE  sent'[r] = held[r]
    BY DEF Carries
<1> USE DEF Inv, TypeOK, reqVars, tableVars
<1>1. rpc[r] = "moSend" /\ Valid(held[r]) /\ ussdSessions[src[r]] = held[r]
    BY DEF GivenOK
<1>2. \E q \in Requests : Resolve(q) \/ Fallback(q)
    BY DEF Next, Proceed, vars, Tick, Cleanup, Start, Create, LookupSession, RefreshSession,
           Unresolved, NotBound, ExpireUSSDSession
<1>3. Resolve(r)
    BY <1>1, <1>2 DEF Resolve, Fallback, Deliver
<1>4. QED
    BY <1>1, <1>3 DEF Resolve, Deliver, Resolved, From, To, Valid

----
THEOREM Invariant == Spec => []Inv
<1>1. Init => Inv
    BY ConstantsAssumption DEF Init, Inv, TypeOK, Sids, NoSid, RLocation, SessionsOwned,
       CounterOK, RequestOK, GivenOK
<1>2. Inv /\ [Next]_vars => Inv'
    BY TypeStep, OwnedStep, CounterStep, RequestStep, GivenStep DEF Inv
<1>3. QED
    BY <1>1, <1>2, PTL DEF Spec

\* Every variable keeps its type.
THEOREM TypeCorrect == Spec => []TypeOK
<1>1. Inv => TypeOK
    BY DEF Inv
<1>2. QED
    BY <1>1, Invariant, PTL

\* An entry of s.ussdSessions is the session created for its address: no two addresses
\* share a session in the table.
THEOREM SessionsOwnedHolds == Spec => []SessionsOwned
<1>1. Inv => SessionsOwned
    BY DEF Inv
<1>2. QED
    BY <1>1, Invariant, PTL

\* No step replaces or removes the session of an address before it expires.
THEOREM LiveSessionKeptHolds == Spec => LiveSessionKept
<1>1. Inv /\ [Next]_vars =>
        [\A a \in Addrs : Valid(ussdSessions[a]) => ussdSessions'[a] = ussdSessions[a]]_vars
    BY KeepsStep DEF Keeps
<1>2. QED
    BY <1>1, Invariant, PTL DEF Spec, LiveSessionKept

\* A message typed by a user carries the session that was got or created for it, unless
\* the request is slow.
THEOREM MessageKeepsSessionHolds == Spec => MessageKeepsSession
<1>1. Inv /\ [Next]_vars =>
        [\A r \in Requests \ slow :
          rpc[r] \in {"moSend", "moFallback"} /\ sent'[r] # sent[r]
            => sent'[r] = held[r]]_vars
    BY CarriesStep DEF Carries
<1>2. QED
    BY <1>1, Invariant, PTL DEF Spec, MessageKeepsSession
====
