---- MODULE SmppClientProofs ----
(***************************************************************************)
(* Invariants of SmppClient for PDUs of any number of parts and any number *)
(* of requests and deliveries.                                             *)
(***************************************************************************)
EXTENDS SmppClient, TLAPS

RequestPDU == [type: Requests, seq: 1..MaxSeq]

\* The request that main is about to send.
SendingOK == main = "sending" => pending["main"] \in RequestPDU

\* The reader is started by Connect.
StartOK == main = "connect" => reader = "none"

\* What the reader has of the current PDU, at each place.
ReaderOK ==
    /\ reader \in {"none", "top"} => got = 0
    /\ reader = "reading" => IF Aligned THEN got < Parts ELSE got = 0
    /\ reader = "handling" => got > 0 /\ (Aligned => got = Parts)

\* Numbers of requests, sent or not, are used once.
NumbersOK ==
    /\ \A i \in DOMAIN wire : wire[i].type \in Requests => wire[i].seq <= sequenceNo
    /\ \A t \in Threads : pending[t] # None =>
          /\ pending[t].seq <= sequenceNo
          /\ \A i \in DOMAIN wire : wire[i].type \in Requests => wire[i].seq # pending[t].seq
    /\ \A t, u \in Threads :
          pending[t] # None /\ pending[u] # None /\ pending[t].seq = pending[u].seq => t = u

\* While nothing was cut, the reader has taken the PDUs handled and what it has in hand.
InStep == ~cut => pos - got = Parts * Len(handled)

\* PDUs that were handled whole lie before the current one.
HandledBefore == \A i \in DOMAIN handled : Parts * handled[i] <= pos - got

Inv ==
    /\ TypeOK /\ SendingOK /\ StartOK /\ ReaderOK
    /\ NumbersOK /\ UniqueSequenceNos
    /\ InStep /\ HandledInOrder
    /\ HandledBefore /\ HandledAtMostOnce

----
(* Division. *)

\* Quotient and remainder.
LEMMA DivMod ==
    ASSUME NEW x \in Nat, NEW P \in Nat \ {0}
    PROVE  x \div P \in Int /\ x % P \in 0..P - 1 /\ x = P * (x \div P) + (x % P)
<1>1. P \in Int /\ P > 0 /\ x \in Int
    OBVIOUS
<1>2. x \div P \in Int
    BY <1>1, SMTT(30)
<1>3. x % P \in 0..P - 1
    BY <1>1, SMTT(30)
<1>4. x = P * (x \div P) + (x % P)
    BY <1>1, SMTT(30)
<1>5. QED
    BY <1>2, <1>3, <1>4

\* They are unique.
LEMMA DivUnique ==
    ASSUME NEW P \in Nat \ {0}, NEW q \in Int, NEW r \in 0..P - 1, NEW x \in Nat, x = P * q + r
    PROVE  x \div P = q /\ x % P = r
<1> DEFINE a == x \div P
<1> DEFINE b == x % P
<1> DEFINE d == q - a
<1>1. a \in Int /\ b \in 0..P - 1 /\ x = P * a + b
    BY DivMod
<1> HIDE DEF a, b
<1>2. d \in Int /\ P * d = b - r
    BY <1>1, SMTT(30)
<1> HIDE DEF d
<1>3. d >= 1 => P * d >= P
    BY <1>2, SMTT(30)
<1>4. d <= -1 => P * d <= -P
    BY <1>2, SMTT(30)
<1>5. d = 0
    BY <1>1, <1>2, <1>3, <1>4
<1>6. q = a /\ b = r
    BY <1>1, <1>2, <1>5 DEF d
<1>7. QED
    BY <1>6 DEF a, b

\* Multiples.
LEMMA Multiple ==
    ASSUME NEW P \in Nat \ {0}, NEW n \in Nat
    PROVE  (P * n) % P = 0 /\ (P * n) \div P = n
<1>1. 0 \in 0..P - 1 /\ P * n \in Nat /\ P * n = P * n + 0
    BY SMTT(30)
<1>2. QED
    BY <1>1, DivUnique

\* A quotient is in the range its number allows.
LEMMA DivRange ==
    ASSUME NEW P \in Nat \ {0}, NEW n \in Nat, NEW x \in 0..P * n
    PROVE  x \div P \in 0..n
<1> DEFINE q == x \div P
<1>1. x \in Nat /\ P * n \in Nat /\ x <= P * n
    BY SMTT(30)
<1>2. q \in Int /\ x % P \in 0..P - 1 /\ x = P * q + (x % P)
    BY <1>1, DivMod
<1> HIDE DEF q
<1> DEFINE y == P * q
<1> DEFINE z == P * n
<1>3. y \in Int /\ z \in Nat /\ x <= z /\ x = y + (x % P) /\ x % P \in 0..P - 1
          /\ P \in Nat /\ P > 0
    BY <1>1, <1>2
<1>4. (q <= -1 => y <= -P) /\ (q >= n + 1 => y >= z + P)
    BY <1>2, SMTT(30)
<1> DEFINE r == x % P
<1> HIDE DEF y, z, r
<1>5. ~(q <= -1) /\ ~(q >= n + 1)
    <2>1. r \in 0..P - 1 /\ x = y + r
        BY <1>3 DEF r
    <2>2. y \in Int /\ z \in Nat /\ x <= z /\ P \in Nat /\ P > 0 /\ x \in Nat /\ q \in Int
        BY <1>1, <1>2, <1>3
    <2>3. QED
        BY <1>4, <2>1, <2>2
<1>6. QED
    BY <1>2, <1>5 DEF q

----
(* The reader's position. *)

\* The PDU in hand is one of those the server sent, or garbage.
LEMMA CurrentRange == TypeOK => Current \in 0..Len(sent)
<1> SUFFICES ASSUME TypeOK PROVE Current \in 0..Len(sent)
    OBVIOUS
<1>1. Parts \in Nat \ {0} /\ Len(sent) \in Nat /\ pos \in 0..Parts * Len(sent)
    BY ConstantsAssumption DEF TypeOK, Chunks
<1>2. pos \div Parts \in 0..Len(sent)
    BY <1>1, DivRange
<1>3. QED
    BY <1>1, <1>2 DEF Current

\* A PDU in hand begins after the ones before it.
LEMMA CurrentPosition ==
    ASSUME TypeOK, Current # 0
    PROVE  got = Parts /\ Parts * Current = pos /\ Parts * (Current - 1) = pos - got
<1> DEFINE m == (pos - got) \div Parts
<1>1. Parts \in Nat \ {0} /\ pos \in Nat /\ got \in Nat /\ pos - got \in Nat
    BY ConstantsAssumption DEF TypeOK, Chunks
<1>2. got = Parts /\ (pos - got) % Parts = 0 /\ Current = pos \div Parts
    BY DEF Current, Aligned
<1>3. m \in Nat /\ pos - got = Parts * m
    <2>1. m \in Int /\ pos - got = Parts * m
        BY <1>1, <1>2, DivMod
    <2>2. m <= -1 => Parts * m <= -Parts
        BY <1>1, <2>1, SMTT(30)
    <2>3. QED
        BY <1>1, <2>1, <2>2
<1> HIDE DEF m
<1>4. m + 1 \in Nat /\ pos = Parts * (m + 1)
    BY <1>1, <1>2, <1>3, SMTT(30)
<1>5. Current = m + 1
    <2>1. (Parts * (m + 1)) \div Parts = m + 1
        BY <1>1, <1>4, Multiple
    <2>2. QED
        BY <1>2, <1>4, <2>1
<1>6. QED
    BY <1>1, <1>2, <1>3, <1>4, <1>5

\* While nothing was cut, the reader is aligned, and the PDU in hand is the next one.
LEMMA NextPDU ==
    ASSUME TypeOK, InStep, ~cut
    PROVE  Aligned /\ (got = Parts => Current = Len(handled) + 1)
<1> DEFINE n == Len(handled)
<1>1. Parts \in Nat \ {0} /\ n \in Nat /\ pos \in Int /\ got \in Int
    BY ConstantsAssumption DEF TypeOK, Chunks
<1>2. pos - got = Parts * n
    BY DEF InStep
<1> HIDE DEF n
<1>3. Aligned
    BY <1>1, <1>2, Multiple DEF Aligned
<1>4. ASSUME got = Parts PROVE Current = n + 1
    <2>1. pos = Parts * (n + 1)
        <3>1. pos - Parts = Parts * n
            BY <1>2, <1>4
        <3>2. pos = Parts * n + Parts
            BY <1>1, <3>1, SMTT(30)
        <3>3. QED
            BY <1>1, <3>2, SMTT(30)
    <2>2. pos \div Parts = n + 1
        BY <1>1, <2>1, Multiple
    <2>3. QED
        BY <1>3, <1>4, <2>2 DEF Current
<1>5. QED
    BY <1>3, <1>4 DEF n

----
\* A longer list of PDUs from the server leaves what was handled in range.
LEMMA SentGrows ==
    ASSUME TypeOK, NEW p \in PDU, sent' = Append(sent, p), UNCHANGED <<pos, got, handled>>
    PROVE  /\ sent' \in Seq(PDU) /\ handled' \in Seq(0..Len(sent)')
           /\ pos' \in 0..Chunks' /\ got' \in 0..pos'
<1>1. Len(sent) \in Nat /\ sent' \in Seq(PDU) /\ Len(sent') = Len(sent) + 1
    BY DEF TypeOK
<1>2. Parts \in Nat /\ Parts * Len(sent) \in Nat /\ Parts * (Len(sent) + 1) = Parts * Len(sent) + Parts
    BY <1>1, ConstantsAssumption, SMTT(30)
<1>3. pos' \in 0..Chunks' /\ got' \in 0..pos'
    <2> DEFINE c == Parts * Len(sent)
    <2>1. Chunks' = c + Parts /\ pos \in 0..c /\ c \in Nat
        BY <1>1, <1>2 DEF Chunks, TypeOK
    <2> HIDE DEF c
    <2>2. QED
        BY <1>2, <2>1 DEF TypeOK
<1>4. 0..Len(sent) \subseteq 0..Len(sent')
    BY <1>1
<1>5. handled \in Seq(0..Len(sent'))
    BY <1>4 DEF TypeOK
<1>6. QED
    BY <1>1, <1>3, <1>5

\* What a write puts on the wire is a PDU.
LEMMA WireGrows ==
    ASSUME TypeOK, NEW p \in PDU, wire' = Append(wire, p)
    PROVE  wire' \in Seq(PDU) /\ served \in 0..Len(wire')
BY DEF TypeOK

\* Types are preserved.
LEMMA TypeStep == Inv /\ [Next]_vars => TypeOK'
<1> SUFFICES ASSUME Inv, [Next]_vars PROVE TypeOK'
    OBVIOUS
<1> USE DEF Inv, TypeOK, mainVars, serverVars, readVars, MainLocations, ReaderLocations, Chunks,
            Aligned
<1>0. Parts \in Nat /\ Parts > 0 /\ MaxSeq \in Nat /\ MaxDeliver \in Nat
    BY ConstantsAssumption
<1>1. ASSUME Connect PROVE TypeOK'
    BY <1>1 DEF Connect
<1>2. ASSUME Bind \/ SendMessage \/ MenuEnquireLink \/ Unbind PROVE TypeOK'
    <2>1. ASSUME NEW from, NEW type \in Requests, Request(from, type) PROVE TypeOK'
        <3>1. sequenceNo' \in 1..MaxSeq
            BY <1>0, <2>1 DEF Request, Number
        <3>2. [type |-> type, seq |-> sequenceNo'] \in [type: Requests, seq: 1..MaxSeq]
            BY <2>1, <3>1
        <3>3. pending' \in [Threads -> [type: Requests, seq: 1..MaxSeq] \cup {None}]
            BY <2>1, <3>2 DEF Request, Number
        <3>4. QED
            BY <2>1, <3>1, <3>3 DEF Request
    <2>2. {"bind", "submit", "enquire_link", "unbind"} \subseteq Requests
        BY DEF Requests
    <2>3. QED
        BY <1>2, <2>1, <2>2 DEF Bind, SendMessage, MenuEnquireLink, Unbind
<1>3. ASSUME SendRequest PROVE TypeOK'
    <2>1. PICK ok \in WriteOutcomes :
              Put("main", ok) /\ main' = AfterRequest(pending["main"].type, ok)
        BY <1>3 DEF SendRequest
    <2>2. pending["main"] \in RequestPDU /\ RequestPDU \subseteq PDU
        BY <1>0, <1>3 DEF SendRequest, SendingOK, RequestPDU, PDU, PDUTypes
    <2>3. wire' \in Seq(PDU) /\ served \in 0..Len(wire') /\ UNCHANGED served
        BY <1>3, <2>1, <2>2, WireGrows DEF Put, SendRequest
    <2>4. main' \in MainLocations
        BY <2>1, <2>2 DEF AfterRequest, RequestPDU, Requests
    <2>5. pending' \in [Threads -> [type: Requests, seq: 1..MaxSeq] \cup {None}]
        BY <2>1 DEF Put
    <2>6. QED
        BY <1>3, <2>3, <2>4, <2>5 DEF SendRequest
<1>4. ASSUME CheckBound \/ Signal \/ Close \/ Exit PROVE TypeOK'
    BY <1>4 DEF CheckBound, Signal, Close, Exit
<1>5. ASSUME Tick PROVE TypeOK'
    BY <1>0, <1>5 DEF Tick, Number, Requests, Threads
<1>6. ASSUME SendTick PROVE TypeOK'
    <2>1. PICK ok \in WriteOutcomes : Put("ticker", ok)
        BY <1>6 DEF SendTick
    <2>2. pending["ticker"] \in RequestPDU /\ RequestPDU \subseteq PDU
        BY <1>0, <1>6 DEF SendTick, RequestPDU, PDU, PDUTypes, Threads
    <2>3. wire' \in Seq(PDU) /\ served \in 0..Len(wire') /\ UNCHANGED served
        BY <1>6, <2>1, <2>2, WireGrows DEF Put, SendTick
    <2>4. pending' \in [Threads -> [type: Requests, seq: 1..MaxSeq] \cup {None}]
        BY <2>1 DEF Put
    <2>5. QED
        BY <1>6, <2>3, <2>4 DEF SendTick
<1>7. ASSUME SeeStop \/ SetDeadline \/ ReadFail PROVE TypeOK'
    BY <1>7 DEF SeeStop, SetDeadline, ReadFail, Reader
<1>8. ASSUME ReadChunk PROVE TypeOK'
    <2> DEFINE c == Parts * Len(sent)
    <2>1. c \in Int
        BY <1>0, SMTT(30)
    <2>2. pos \in 0..c /\ got \in 0..pos /\ pos < c /\ pos' = pos + 1 /\ got' = got + 1
        BY <1>8 DEF ReadChunk
    <2>3. UNCHANGED sent /\ got < Parts /\ reader' \in ReaderLocations
        BY <1>8 DEF ReadChunk, Reader, ReaderOK
    <2>4. Chunks' = c
        BY <2>3
    <2> HIDE DEF c
    <2>5. pos' \in 0..c /\ got' \in 0..pos' /\ got' <= Parts
        BY <1>0, <2>1, <2>2, <2>3
    <2>6. UNCHANGED <<mainVars, bound, sequenceNo, pending, wire, serverVars, handled, cut>>
        BY <1>8 DEF ReadChunk, Reader
    <2>7. QED
        BY <2>3, <2>4, <2>5, <2>6
<1>9. ASSUME ReadGarbage PROVE TypeOK'
    <2> DEFINE c == Parts * Len(sent)
    <2>1. c \in Int
        BY <1>0, SMTT(30)
    <2>2. pos \in 0..c /\ pos < c /\ got = 0 /\ ~Aligned
        BY <1>9 DEF ReadGarbage, ReaderOK, Reader
    <2>3. /\ UNCHANGED <<mainVars, bound, sequenceNo, pending, wire, serverVars, handled, cut>>
          /\ reader' \in ReaderLocations
        BY <1>9 DEF ReadGarbage, Reader
    <2>4. Chunks' = c
        BY <2>3
    <2>5. \/ UNCHANGED <<pos, got>>
          \/ \E n \in 1..c - pos : pos' = pos + n /\ got' \in {n, 0}
        BY <1>9 DEF ReadGarbage
    <2>6. pos' \in 0..c /\ got' \in 0..pos'
        <3> HIDE DEF c
        <3>1. QED
            BY <2>1, <2>2, <2>5
    <2>7. (pos' - got') % Parts = 0 => got' <= Parts
        <3>1. CASE UNCHANGED <<pos, got>>
            BY <1>0, <2>2, <3>1
        <3>2. ASSUME NEW n \in 1..c - pos, pos' = pos + n, got' \in {n, 0}
              PROVE  (pos' - got') % Parts = 0 => got' <= Parts
            <4>1. CASE got' = 0
                BY <1>0, <4>1
            <4>2. CASE got' = n
                <5>1. pos' - got' = pos /\ pos - got = pos
                    BY <2>1, <2>2, <3>2, <4>2
                <5>2. QED
                    BY <2>2, <5>1
            <4>3. QED
                BY <3>2, <4>1, <4>2
        <3>3. QED
            BY <2>5, <3>1, <3>2
    <2>8. QED
        BY <2>3, <2>4, <2>6, <2>7
<1>10. ASSUME Timeout PROVE TypeOK'
    BY <1>0, <1>10 DEF Timeout, Reader
<1>11. ASSUME NEW k \in 0..Len(sent), HandledPDU(k),
              bound' \in BOOLEAN, wire' \in Seq(PDU), served \in 0..Len(wire')
       PROVE  TypeOK'
    BY <1>0, <1>11 DEF HandledPDU, Reader
<1>12. ASSUME HandleBindResp \/ HandleLogged PROVE TypeOK'
    BY <1>11, <1>12, CurrentRange DEF HandleBindResp, HandleLogged
<1>13. ASSUME HandleDeliverSM PROVE TypeOK'
    <2>1. Current \in DOMAIN sent
        BY <1>13, CurrentRange DEF HandleDeliverSM
    <2>2. [type |-> "deliver_sm_resp", seq |-> sent[Current].seq] \in PDU
        <3>1. sent[Current] \in PDU
            BY <2>1
        <3>2. sent[Current].seq \in Nat
            BY <3>1 DEF PDU
        <3>3. QED
            BY <3>2 DEF PDU, PDUTypes
    <2>3. wire' \in Seq(PDU) /\ served \in 0..Len(wire')
        BY <1>13, <2>2, WireGrows DEF HandleDeliverSM
    <2>4. QED
        BY <1>11, <1>13, <2>3, CurrentRange DEF HandleDeliverSM
<1>14. ASSUME HandleGarbage PROVE TypeOK'
    <2>1. [type |-> "deliver_sm_resp", seq |-> 0] \in PDU
        BY DEF PDU, PDUTypes
    <2>2. wire' \in Seq(PDU) /\ served \in 0..Len(wire')
        BY <1>14, <2>1, WireGrows DEF HandleGarbage
    <2>3. 0 \in 0..Len(sent)
        OBVIOUS
    <2>4. bound' \in BOOLEAN
        BY <1>14, Zenon DEF HandleGarbage
    <2>5. QED
        BY <1>11, <1>14, <2>2, <2>3, <2>4 DEF HandleGarbage
<1>15. ASSUME ServerAnswer PROVE TypeOK'
    <2> DEFINE request == wire[served + 1]
    <2>1. served + 1 \in DOMAIN wire /\ request \in PDU /\ served' \in 0..Len(wire)
        BY <1>15 DEF ServerAnswer
    <2>2. serverBound' \in BOOLEAN
        BY <1>15, Zenon DEF ServerAnswer
    <2>3. CASE request.type \in Requests
        <3>1. sent' = Append(sent, [type |-> AnswerType(request.type), seq |-> request.seq])
            BY <1>15, <2>3 DEF ServerAnswer
        <3>2. AnswerType(request.type) \in PDUTypes
            BY <2>3 DEF AnswerType, Requests, PDUTypes, Answers
        <3>3. [type |-> AnswerType(request.type), seq |-> request.seq] \in PDU
            <4>1. request.seq \in Nat
                BY <2>1 DEF PDU
            <4>2. QED
                BY <3>2, <4>1 DEF PDU
        <3>4. /\ sent' \in Seq(PDU) /\ handled' \in Seq(0..Len(sent)')
              /\ pos' \in 0..Chunks' /\ got' \in 0..pos'
            BY <1>15, <3>1, <3>3, SentGrows DEF ServerAnswer
        <3>5. QED
            BY <1>15, <2>1, <2>2, <3>4 DEF ServerAnswer
    <2>4. CASE request.type \notin Requests
        BY <1>15, <2>1, <2>2, <2>4 DEF ServerAnswer
    <2>5. QED
        BY <2>3, <2>4
<1>16. ASSUME ServerDeliver PROVE TypeOK'
    <2>1. PICK n \in 1..deliverNo : sent' = Append(sent, [type |-> "deliver_sm", seq |-> n])
        BY <1>16 DEF ServerDeliver
    <2>2. [type |-> "deliver_sm", seq |-> n] \in PDU
        BY DEF PDU, PDUTypes
    <2>3. /\ sent' \in Seq(PDU) /\ handled' \in Seq(0..Len(sent)')
          /\ pos' \in 0..Chunks' /\ got' \in 0..pos'
        BY <1>16, <2>1, <2>2, SentGrows DEF ServerDeliver
    <2>4. QED
        BY <1>16, <2>3 DEF ServerDeliver
<1>17. ASSUME ServerClose PROVE TypeOK'
    BY <1>17 DEF ServerClose
<1>18. ASSUME PanicOnGarbage PROVE TypeOK'
    BY <1>18 DEF PanicOnGarbage
<1>19. ASSUME ServerBind \/ ServerNumber PROVE TypeOK'
    <2>1. serverBound' \in BOOLEAN
        BY <1>19 DEF ServerBind, ServerNumber
    <2>2. deliverNo' \in 0..MaxDeliver
        BY <1>0, <1>19 DEF ServerBind, ServerNumber
    <2>3. UNCHANGED <<mainVars, bound, sequenceNo, pending, wire, served, sent, peerClosed, readVars>>
        BY <1>19 DEF ServerBind, ServerNumber
    <2>4. QED
        BY <2>1, <2>2, <2>3
<1>20. CASE UNCHANGED vars
    BY <1>20 DEF vars
<1>21. QED
    BY <1>1, <1>2, <1>3, <1>4, <1>5, <1>6, <1>7, <1>8, <1>9, <1>10, <1>12, <1>13, <1>14, <1>15,
       <1>16, <1>17, <1>18, <1>19, <1>20 DEF Next, Receive

----
\* The request that main has numbered is pending until main sends it.
LEMMA SendingStep == Inv /\ [Next]_vars => SendingOK'
<1> SUFFICES ASSUME Inv, [Next]_vars PROVE SendingOK'
    OBVIOUS
<1> USE DEF Inv, TypeOK, SendingOK, mainVars, serverVars, readVars
<1>1. ASSUME NEW from, NEW type \in Requests, Request(from, type) PROVE SendingOK'
    <2>1. sequenceNo' \in 1..MaxSeq
        BY <1>1, ConstantsAssumption DEF Request, Number
    <2>2. pending'["main"] = [type |-> type, seq |-> sequenceNo']
        BY <1>1 DEF Request, Number, Threads
    <2>3. QED
        BY <2>1, <2>2 DEF RequestPDU
<1>2. ASSUME Bind \/ SendMessage \/ MenuEnquireLink \/ Unbind PROVE SendingOK'
    <2>1. {"bind", "submit", "enquire_link", "unbind"} \subseteq Requests
        BY DEF Requests
    <2>2. QED
        BY <1>1, <1>2, <2>1 DEF Bind, SendMessage, MenuEnquireLink, Unbind
<1>3. ASSUME SendRequest PROVE SendingOK'
    BY <1>3 DEF SendRequest, AfterRequest, RequestPDU, Requests
<1>4. ASSUME Connect \/ CheckBound \/ Signal \/ Close \/ Exit PROVE SendingOK'
    BY <1>4 DEF Connect, CheckBound, Signal, Close, Exit
<1>5. ASSUME Tick \/ SendTick PROVE SendingOK'
    <2>1. UNCHANGED main /\ pending'["main"] = pending["main"]
        BY <1>5 DEF Tick, SendTick, Number, Put, Threads
    <2>2. QED
        BY <2>1 DEF RequestPDU
<1>6. ASSUME Receive \/ ServerBind \/ ServerAnswer \/ ServerNumber \/ ServerDeliver \/ ServerClose
      PROVE  SendingOK'
    BY <1>6 DEF Receive, SeeStop, SetDeadline, ReadChunk, ReadGarbage, Timeout, ReadFail, Reader,
                HandleBindResp, HandleDeliverSM, HandleLogged, HandleGarbage, HandledPDU,
                PanicOnGarbage, ServerBind, ServerAnswer, ServerNumber, ServerDeliver, ServerClose
<1>7. CASE UNCHANGED vars
    BY <1>7 DEF vars
<1>8. QED
    BY <1>2, <1>3, <1>4, <1>5, <1>6, <1>7 DEF Next

\* The steps that leave what the reader has taken alone.
Reads ==
    \/ SeeStop \/ SetDeadline \/ ReadChunk \/ ReadGarbage \/ Timeout \/ ReadFail
    \/ \E k \in 0..Len(sent) : k = Current /\ HandledPDU(k)
    \/ reader = "handling" /\ main' = "panic" /\ UNCHANGED readVars

LEMMA ReceiveReads == TypeOK /\ Receive => Reads
BY CurrentRange DEF Receive, Reads, HandleBindResp, HandleDeliverSM, HandleLogged, HandleGarbage,
       PanicOnGarbage

\* A step that is not one of the reader's, or starts it.
LEMMA OtherSteps ==
    ASSUME [Next]_vars
    PROVE  \/ Receive
           \/ Connect
           \/ UNCHANGED readVars
BY DEF Next, vars, readVars, Bind, SendRequest, CheckBound, SendMessage, MenuEnquireLink, Unbind,
       Request, Signal, Close, Exit, Tick, SendTick, ServerBind, ServerAnswer, ServerNumber,
       ServerDeliver, ServerClose

\* Nothing starts the reader before Connect.
LEMMA StartStep == Inv /\ [Next]_vars => StartOK'
<1> SUFFICES ASSUME Inv, [Next]_vars PROVE StartOK'
    OBVIOUS
<1>1. CASE Receive
    <2>1. reader # "none" /\ (UNCHANGED main \/ main' = "panic")
        BY <1>1, ReceiveReads DEF Inv, Reads, SeeStop, SetDeadline, ReadChunk, ReadGarbage, Timeout,
           ReadFail, HandledPDU, Reader, mainVars
    <2>2. QED
        BY <2>1 DEF Inv, StartOK
<1>2. CASE ~Receive
    <2>1. main' = "connect" => main = "connect" /\ UNCHANGED reader
        BY <1>2 DEF Next, vars, mainVars, readVars, Connect, Bind, SendRequest, CheckBound,
           SendMessage, MenuEnquireLink, Unbind, Request, Signal, Close, Exit, Tick, SendTick,
           ServerBind, ServerAnswer, ServerNumber, ServerDeliver, ServerClose, AfterRequest, Inv, SendingOK, RequestPDU,
           Requests
    <2>2. QED
        BY <2>1 DEF Inv, StartOK
<1>3. QED
    BY <1>1, <1>2

\* What the reader has in hand stays in range.
LEMMA ReaderStep == Inv /\ [Next]_vars => ReaderOK'
<1> SUFFICES ASSUME Inv, [Next]_vars PROVE ReaderOK'
    OBVIOUS
<1> USE DEF ReaderOK, Reader
<1>0. Parts \in Nat /\ Parts > 0 /\ pos \in Nat /\ got \in 0..pos
    BY ConstantsAssumption DEF Inv, TypeOK, Chunks
<1>1. CASE SeeStop \/ SetDeadline \/ ReadFail
    BY <1>0, <1>1 DEF SeeStop, SetDeadline, ReadFail, Aligned, Inv, readVars
<1>2. CASE ReadChunk
    <2>1. pos' - got' = pos - got /\ Aligned
        BY <1>0, <1>2 DEF ReadChunk
    <2>2. Aligned'
        BY <2>1 DEF Aligned
    <2>3. got' = got + 1 /\ got < Parts /\ reader' = IF got + 1 = Parts THEN "handling" ELSE "reading"
        BY <1>2, <2>1 DEF ReadChunk, Inv
    <2>4. QED
        BY <1>0, <2>2, <2>3
<1>3. CASE ReadGarbage
    <2>1. ~Aligned /\ got = 0 /\ reader = "reading"
        BY <1>3 DEF ReadGarbage, Inv
    <2>2. CASE reader' = "handling"
        <3>1. PICK n \in 1..(Chunks - pos) : pos' = pos + n /\ got' = n
            BY <1>3, <2>2 DEF ReadGarbage
        <3>2. n \in Int /\ n > 0
            BY <1>0, <3>1
        <3>3. pos' - got' = pos - got
            BY <1>0, <2>1, <3>1, <3>2
        <3>4. ~Aligned'
            BY <2>1, <3>3 DEF Aligned
        <3>5. QED
            BY <2>2, <3>1, <3>2, <3>4
    <2>3. CASE reader' = "top"
        BY <1>3, <2>3 DEF ReadGarbage
    <2>4. CASE reader' = "failed"
        BY <2>4
    <2>5. QED
        BY <1>3, <2>2, <2>3, <2>4 DEF ReadGarbage
<1>4. CASE Timeout
    BY <1>4 DEF Timeout
<1>5. CASE \E k \in 0..Len(sent) : HandledPDU(k)
    BY <1>5 DEF HandledPDU
<1>6. CASE Connect
    <2>1. got' = got /\ reader' \in {"none", "top"} /\ reader = "none"
        BY <1>6 DEF Connect, Inv, StartOK
    <2>2. QED
        BY <2>1 DEF Inv
<1>7. CASE UNCHANGED readVars
    BY <1>7 DEF readVars, Inv, Aligned
<1>8. QED
    BY <1>1, <1>2, <1>3, <1>4, <1>5, <1>6, <1>7, OtherSteps, ReceiveReads DEF Inv, Reads

\* Differences, one at least another.
LEMMA LargerDifference ==
    ASSUME NEW n \in Int, NEW p \in Int, NEW g \in Int, NEW p2 \in Int, NEW g2 \in Int,
           n <= p - g, p2 - g2 >= p - g
    PROVE  n <= p2 - g2
OBVIOUS

\* A step by which the reader takes some of the stream, and handles nothing.
LEMMA TakesStep ==
    ASSUME Inv, [Next]_vars, UNCHANGED handled
    PROVE  InStep' /\ HandledInOrder' /\ HandledBefore' /\ HandledAtMostOnce'
<1>0. /\ Parts \in Nat /\ Parts > 0 /\ pos \in Nat /\ got \in 0..pos
      /\ \A i \in DOMAIN handled : Parts * handled[i] \in Nat
      /\ Parts * Len(handled) \in Nat
    <2>1. \A i \in DOMAIN handled : handled[i] \in Nat
        BY DEF Inv, TypeOK
    <2>2. Parts \in Nat /\ Len(handled) \in Nat
        BY ConstantsAssumption DEF Inv, TypeOK
    <2>3. \A x \in Nat : Parts * x \in Nat
        BY <2>2, SMTT(30)
    <2>4. QED
        BY <2>1, <2>2, <2>3, ConstantsAssumption DEF Inv, TypeOK, Chunks
<1> DEFINE Moves == /\ pos' \in Int /\ got' \in Int /\ pos' - got' >= pos - got
                    /\ pos' - got' # pos - got => cut'
                    /\ cut => cut'
<1>1. Moves
    <2>1. CASE SeeStop \/ SetDeadline \/ ReadFail
        <3>1. UNCHANGED <<pos, got, cut>>
            BY <2>1 DEF SeeStop, SetDeadline, ReadFail
        <3>2. QED
            BY <1>0, <3>1
    <2>2. CASE ReadChunk
        <3>1. pos' = pos + 1 /\ got' = got + 1 /\ cut' = cut
            BY <2>2 DEF ReadChunk
        <3>2. QED
            BY <1>0, <3>1
    <2>3. CASE ReadGarbage
        <3>1. ~Aligned /\ got = 0 /\ UNCHANGED cut
            BY <2>3 DEF ReadGarbage, Reader, Inv, ReaderOK
        <3>2. cut
            BY <3>1, NextPDU DEF Inv
        <3>3. \/ UNCHANGED <<pos, got>>
              \/ \E n \in 1..(Chunks - pos) : pos' = pos + n /\ got' \in {n, 0}
            BY <2>3 DEF ReadGarbage
        <3>4. pos' \in Int /\ got' \in Int /\ pos' - got' >= pos - got
            BY <1>0, <3>1, <3>3
        <3>5. QED
            BY <3>1, <3>2, <3>4
    <2>4. CASE Timeout
        <3>1. pos' = pos /\ got' = 0 /\ cut' = (cut \/ got > 0)
            BY <2>4 DEF Timeout
        <3>2. pos' \in Int /\ got' \in Int /\ pos' - got' >= pos - got
            BY <1>0, <3>1
        <3>3. pos' - got' # pos - got => got > 0
            BY <1>0, <3>1
        <3>4. QED
            BY <3>1, <3>2, <3>3
    <2>5. CASE Connect \/ UNCHANGED readVars
        <3>1. UNCHANGED <<pos, got, cut>>
            BY <2>5 DEF Connect, readVars
        <3>2. QED
            BY <1>0, <3>1
    <2>6. ASSUME NEW k \in 0..Len(sent), HandledPDU(k) PROVE FALSE
        <3>1. handled' = Append(handled, k) /\ handled \in Seq(0..Len(sent))
            BY <2>6 DEF HandledPDU, Inv, TypeOK
        <3>2. Len(handled') = Len(handled) + 1 /\ Len(handled) \in Nat
            BY <3>1
        <3>3. QED
            BY <3>2
    <2>7. Receive => \/ SeeStop \/ SetDeadline \/ ReadFail \/ ReadChunk \/ ReadGarbage \/ Timeout
                      \/ UNCHANGED readVars
        BY <2>6, ReceiveReads DEF Inv, Reads
    <2> HIDE DEF Moves
    <2>8. QED
        BY <2>1, <2>2, <2>3, <2>4, <2>5, <2>7, OtherSteps
<1>2. InStep'
    <2>1. ~cut' => pos' - got' = pos - got /\ ~cut
        BY <1>1
    <2>2. QED
        BY <2>1 DEF Inv, InStep
<1>3. HandledInOrder' /\ HandledAtMostOnce'
    BY <1>1 DEF Inv, HandledInOrder, HandledAtMostOnce
<1>4. HandledBefore'
    <2>1. SUFFICES ASSUME NEW i \in DOMAIN handled PROVE Parts * handled[i] <= pos' - got'
        BY DEF HandledBefore
    <2>2. PICK n \in Nat : n = Parts * handled[i]
        BY <1>0
    <2>3. n <= pos - got
        BY <2>2 DEF Inv, HandledBefore
    <2>4. pos' \in Int /\ got' \in Int /\ pos' - got' >= pos - got
        BY <1>1
    <2>5. n \in Int /\ pos \in Int /\ got \in Int
        BY <1>0, <2>2
    <2>6. n <= pos' - got'
        BY <2>3, <2>4, <2>5, LargerDifference, Zenon
    <2>7. QED
        BY <2>2, <2>6
<1>5. QED
    BY <1>2, <1>3, <1>4

\* A PDU is handled: a whole one, next in turn unless some were cut, or garbage.
LEMMA HandlesStep ==
    ASSUME Inv, NEW k \in 0..Len(sent), k = Current, HandledPDU(k)
    PROVE  InStep' /\ HandledInOrder' /\ HandledBefore' /\ HandledAtMostOnce'
<1> DEFINE n == Len(handled)
<1>0. /\ Parts \in Nat /\ Parts > 0 /\ pos \in Nat /\ got \in 0..pos
      /\ handled \in Seq(0..Len(sent)) /\ n \in Nat
      /\ reader = "handling" /\ handled' = Append(handled, k)
      /\ got' = 0 /\ UNCHANGED <<pos, cut>>
    BY ConstantsAssumption DEF Inv, TypeOK, Chunks, HandledPDU, Reader
<1>1. /\ DOMAIN handled' = 1..n + 1 /\ Len(handled') = n + 1 /\ DOMAIN handled = 1..n
      /\ \A i \in 1..n : handled'[i] = handled[i] /\ handled[i] \in Nat
      /\ handled'[n + 1] = k
    BY <1>0
<1>2. k # 0 => /\ got = Parts /\ Parts * k = pos /\ Parts * (k - 1) = pos - got
    BY CurrentPosition DEF Inv
<1>3. ~cut => got = Parts /\ k = n + 1
    <2> SUFFICES ASSUME ~cut PROVE got = Parts /\ k = n + 1
        OBVIOUS
    <2>1. Aligned /\ (got = Parts => Current = n + 1)
        BY NextPDU DEF Inv
    <2>2. got = Parts
        BY <1>0, <2>1 DEF Inv, ReaderOK
    <2>3. Current = n + 1
        BY <2>1, <2>2
    <2>4. QED
        BY <2>2, <2>3
<1>4. InStep'
    <2> SUFFICES ASSUME ~cut' PROVE pos' - got' = Parts * Len(handled')
        BY DEF InStep
    <2>1. got = Parts /\ pos - got = Parts * n
        BY <1>0, <1>3 DEF Inv, InStep
    <2>2. pos - 0 = Parts * (n + 1)
        BY <1>0, <2>1, SMTT(30)
    <2>3. QED
        BY <1>0, <1>1, <2>2
<1>5. HandledInOrder'
    <2> SUFFICES ASSUME ~cut' PROVE handled' = [j \in 1..Len(handled') |-> j]
        BY DEF HandledInOrder
    <2>1. \A j \in 1..n : handled[j] = j
        BY <1>0 DEF Inv, HandledInOrder
    <2>2. \A j \in 1..n + 1 : handled'[j] = j
        BY <1>0, <1>1, <1>3, <2>1
    <2>3. handled' \in Seq(0..Len(sent))
        BY <1>0
    <2>4. handled' = [j \in 1..Len(handled') |-> handled'[j]]
        BY <2>3
    <2>5. QED
        BY <1>1, <2>2, <2>4
<1>6. HandledBefore'
    <2>1. SUFFICES ASSUME NEW i \in 1..n + 1 PROVE Parts * handled'[i] <= pos
        BY <1>0, <1>1 DEF HandledBefore
    <2>2. CASE i \in 1..n
        <3>1. PICK m \in Nat : m = Parts * handled[i]
            BY <1>0, <1>1, <2>2, SMTT(30)
        <3>2. m <= pos - got
            BY <1>1, <2>2, <3>1 DEF Inv, HandledBefore
        <3>3. m <= pos
            BY <1>0, <3>2
        <3>4. QED
            BY <1>1, <2>2, <3>1, <3>3
    <2>3. CASE i = n + 1
        <3>1. CASE k = 0
            BY <1>0, <1>1, <2>3, <3>1
        <3>2. CASE k # 0
            BY <1>0, <1>1, <1>2, <2>3, <3>2
        <3>3. QED
            BY <3>1, <3>2
    <2>4. QED
        BY <1>0, <2>2, <2>3
<1>7. HandledAtMostOnce'
    <2>1. SUFFICES ASSUME NEW i \in 1..n + 1, NEW j \in 1..n + 1, i < j,
                          handled'[i] # 0, handled'[j] # 0
                   PROVE  handled'[i] < handled'[j]
        BY <1>1, Zenon DEF HandledAtMostOnce
    <2>2. CASE j \in 1..n
        BY <1>0, <1>1, <2>1, <2>2 DEF Inv, HandledAtMostOnce
    <2>3. CASE j = n + 1
        <3>1. i \in 1..n /\ k # 0
            BY <1>0, <1>1, <2>1, <2>3
        <3>2. Parts * handled[i] <= Parts * (k - 1)
            BY <1>1, <1>2, <3>1 DEF Inv, HandledBefore
        <3>3. handled[i] \in Nat /\ k - 1 \in Nat
            BY <1>1, <3>1
        <3>4. handled[i] <= k - 1
            <4>1. \A x, y \in Nat : x >= y + 1 => Parts * x >= Parts * y + Parts
                BY <1>0, SMTT(30)
            <4>2. handled[i] >= k => Parts * handled[i] >= Parts * (k - 1) + Parts
                BY <3>3, <4>1
            <4>3. Parts * (k - 1) \in Nat /\ Parts * handled[i] \in Nat
                BY <1>0, <3>3, SMTT(30)
            <4>4. QED
                BY <1>0, <3>2, <3>3, <4>2, <4>3
        <3>5. QED
            BY <1>1, <2>3, <3>1, <3>3, <3>4
    <2>4. QED
        BY <1>0, <2>2, <2>3
<1>8. QED
    BY <1>4, <1>5, <1>6, <1>7

\* The order in which PDUs are handled is preserved.
LEMMA HandledStep ==
    Inv /\ [Next]_vars => InStep' /\ HandledInOrder' /\ HandledBefore' /\ HandledAtMostOnce'
<1> SUFFICES ASSUME Inv, [Next]_vars
             PROVE  InStep' /\ HandledInOrder' /\ HandledBefore' /\ HandledAtMostOnce'
    OBVIOUS
<1>1. CASE UNCHANGED handled
    BY <1>1, TakesStep
<1>2. CASE \E k \in 0..Len(sent) : k = Current /\ HandledPDU(k)
    BY <1>2, HandlesStep
<1>3. CASE Connect \/ UNCHANGED readVars
    BY <1>1, <1>3 DEF Connect, readVars
<1>4. CASE Receive /\ ~(\E k \in 0..Len(sent) : k = Current /\ HandledPDU(k))
    <2>1. UNCHANGED handled
        BY <1>4, ReceiveReads DEF Inv, Reads, SeeStop, SetDeadline, ReadChunk, ReadGarbage, Timeout,
           ReadFail, readVars
    <2>2. QED
        BY <1>1, <2>1
<1>5. QED
    BY <1>2, <1>3, <1>4, OtherSteps

----
(* Sequence numbers. *)

\* A request is given the next number.
LEMMA NumberStep ==
    ASSUME Inv, NEW t \in Threads, NEW type, Number(t, type), UNCHANGED wire
    PROVE  NumbersOK' /\ UniqueSequenceNos'
<1>0. sequenceNo \in Nat
    BY ConstantsAssumption DEF Inv, TypeOK
<1>1. /\ pending \in [Threads -> RequestPDU \cup {None}]
      /\ sequenceNo' = sequenceNo + 1
      /\ pending' = [pending EXCEPT ![t] = [type |-> type, seq |-> sequenceNo + 1]]
    BY DEF Inv, TypeOK, Number, RequestPDU
<1>2. /\ pending'[t].seq = sequenceNo + 1
      /\ \A u \in Threads \ {t} : pending'[u] = pending[u]
    BY <1>1
<1>3. \A u \in Threads \ {t} : pending[u] # None => pending[u].seq \in Nat /\ pending[u].seq <= sequenceNo
    BY <1>1, ConstantsAssumption DEF Inv, NumbersOK, RequestPDU
<1>4. \A i \in DOMAIN wire : wire[i].type \in Requests => wire[i].seq \in Nat /\ wire[i].seq <= sequenceNo
    <2>1. \A i \in DOMAIN wire : wire[i] \in PDU
        BY DEF Inv, TypeOK
    <2>2. QED
        BY <2>1 DEF Inv, NumbersOK, PDU
<1>5. UniqueSequenceNos'
    BY DEF Inv, UniqueSequenceNos
<1>6. \A i \in DOMAIN wire' : wire'[i].type \in Requests => wire'[i].seq <= sequenceNo'
    BY <1>0, <1>1, <1>4
<1>7. ASSUME NEW u \in Threads, pending'[u] # None
      PROVE  /\ pending'[u].seq <= sequenceNo'
             /\ \A i \in DOMAIN wire' : wire'[i].type \in Requests => wire'[i].seq # pending'[u].seq
    <2>1. CASE u = t
        BY <1>0, <1>1, <1>2, <1>4, <2>1
    <2>2. CASE u # t
        BY <1>0, <1>1, <1>2, <1>3, <1>7, <2>2 DEF Inv, NumbersOK
    <2>3. QED
        BY <2>1, <2>2
<1>8. ASSUME NEW u \in Threads, NEW v \in Threads, pending'[u] # None, pending'[v] # None,
             pending'[u].seq = pending'[v].seq
      PROVE  u = v
    <2>1. CASE u # t /\ v # t
        BY <1>2, <1>8, <2>1 DEF Inv, NumbersOK
    <2>2. CASE u = t \/ v = t
        BY <1>0, <1>2, <1>3, <1>8, <2>2
    <2>3. QED
        BY <2>1, <2>2
<1>9. QED
    BY <1>5, <1>6, <1>7, <1>8 DEF NumbersOK

\* A numbered request is sent, or given up.
LEMMA PutStep ==
    ASSUME Inv, NEW t \in Threads, pending[t] # None, NEW ok, Put(t, ok), UNCHANGED sequenceNo
    PROVE  NumbersOK' /\ UniqueSequenceNos'
<1>0. sequenceNo \in Nat /\ wire \in Seq(PDU)
    BY ConstantsAssumption DEF Inv, TypeOK
<1>1. /\ pending \in [Threads -> RequestPDU \cup {None}]
      /\ pending' = [pending EXCEPT ![t] = None]
    BY DEF Inv, TypeOK, Put, RequestPDU
<1>2. pending'[t] = None /\ \A u \in Threads \ {t} : pending'[u] = pending[u]
    BY <1>1
<1>3. CASE UNCHANGED wire
    BY <1>2, <1>3 DEF Inv, NumbersOK, UniqueSequenceNos
<1>4. CASE wire' = Append(wire, pending[t])
    <2> DEFINE n == Len(wire) + 1
    <2>1. /\ DOMAIN wire' = DOMAIN wire \cup {n} /\ wire'[n] = pending[t]
          /\ \A i \in DOMAIN wire : i # n /\ wire'[i] = wire[i]
        BY <1>0, <1>4
    <2>2. NumbersOK'
        <3>1. \A i \in DOMAIN wire' : wire'[i].type \in Requests => wire'[i].seq <= sequenceNo'
            BY <2>1 DEF Inv, NumbersOK
        <3>2. ASSUME NEW u \in Threads, pending'[u] # None
              PROVE  /\ pending'[u].seq <= sequenceNo'
                     /\ \A i \in DOMAIN wire' : wire'[i].type \in Requests => wire'[i].seq # pending'[u].seq
            BY <1>2, <2>1, <3>2 DEF Inv, NumbersOK
        <3>3. ASSUME NEW u \in Threads, NEW v \in Threads, pending'[u] # None, pending'[v] # None,
                     pending'[u].seq = pending'[v].seq
              PROVE  u = v
            BY <1>2, <3>3 DEF Inv, NumbersOK
        <3>4. QED
            BY <3>1, <3>2, <3>3 DEF NumbersOK
    <2>3. UniqueSequenceNos'
        BY <2>1 DEF Inv, NumbersOK, UniqueSequenceNos
    <2>4. QED
        BY <2>2, <2>3
<1>5. QED
    BY <1>3, <1>4 DEF Put

\* What is no request has no number of the client's.
LEMMA AnswerStep ==
    ASSUME Inv, NEW n, wire' = Append(wire, [type |-> "deliver_sm_resp", seq |-> n]),
           UNCHANGED <<sequenceNo, pending>>
    PROVE  NumbersOK' /\ UniqueSequenceNos'
<1> DEFINE m == Len(wire) + 1
<1>0. wire \in Seq(PDU)
    BY DEF Inv, TypeOK
<1>1. /\ DOMAIN wire' = DOMAIN wire \cup {m} /\ wire'[m].type \notin Requests
      /\ \A i \in DOMAIN wire : wire'[i] = wire[i]
    BY <1>0 DEF Requests
<1>2. QED
    BY <1>1 DEF Inv, NumbersOK, UniqueSequenceNos

\* Numbers stay unique.
LEMMA NumbersStep == Inv /\ [Next]_vars => NumbersOK' /\ UniqueSequenceNos'
<1> SUFFICES ASSUME Inv, [Next]_vars PROVE NumbersOK' /\ UniqueSequenceNos'
    OBVIOUS
<1> USE DEF mainVars, serverVars, readVars
<1>1. CASE Bind \/ SendMessage \/ MenuEnquireLink \/ Unbind \/ Tick
    <2>1. "main" \in Threads /\ "ticker" \in Threads
        BY DEF Threads
    <2>2. QED
        BY <1>1, <2>1, NumberStep DEF Bind, SendMessage, MenuEnquireLink, Unbind, Request, Tick
<1>2. CASE SendRequest
    <2>1. "main" \in Threads /\ pending["main"] # None
        BY <1>2, NoneAssumption DEF SendRequest, Threads, Inv, SendingOK, RequestPDU
    <2>2. QED
        BY <1>2, <2>1, PutStep DEF SendRequest
<1>3. CASE SendTick
    <2>1. "ticker" \in Threads
        BY DEF Threads
    <2>2. QED
        BY <1>3, <2>1, PutStep DEF SendTick
<1>4. CASE HandleDeliverSM \/ HandleGarbage
    <2>1. UNCHANGED <<sequenceNo, pending>>
        BY <1>4 DEF HandleDeliverSM, HandleGarbage, HandledPDU, Reader
    <2>2. UNCHANGED wire \/ \E n : wire' = Append(wire, [type |-> "deliver_sm_resp", seq |-> n])
        BY <1>4 DEF HandleDeliverSM, HandleGarbage
    <2>3. CASE UNCHANGED wire
        BY <2>1, <2>3 DEF Inv, NumbersOK, UniqueSequenceNos
    <2>4. QED
        BY <2>1, <2>2, <2>3, AnswerStep
<1>5. CASE UNCHANGED <<wire, sequenceNo, pending>>
    BY <1>5 DEF Inv, NumbersOK, UniqueSequenceNos
<1>6. QED
    BY <1>1, <1>2, <1>3, <1>4, <1>5
       DEF Next, vars, Connect, CheckBound, Signal, Close, Exit, Receive, SeeStop, SetDeadline,
           ReadChunk, ReadGarbage, Timeout, ReadFail, Reader, HandleBindResp, HandleLogged,
           HandledPDU, PanicOnGarbage, ServerBind, ServerAnswer, ServerNumber, ServerDeliver, ServerClose

----
\* Inv holds in every reachable state.
LEMMA Invariant == Spec => []Inv
<1>1. Init => Inv
    <2> SUFFICES ASSUME Init PROVE Inv
        OBVIOUS
    <2>1. Parts \in Nat /\ Parts > 0 /\ MaxSeq \in Nat /\ MaxDeliver \in Nat /\ Parts * 0 = 0
        BY ConstantsAssumption, SMTT(30)
    <2>2. sent = <<>> /\ wire = <<>> /\ handled = <<>> /\ Chunks = 0
        BY <2>1 DEF Init, Chunks
    <2>3. TypeOK
        <3>1. sent \in Seq(PDU) /\ wire \in Seq(PDU) /\ handled \in Seq(0..Len(sent))
            BY <2>2
        <3>2. pos \in 0..Chunks /\ got \in 0..pos /\ served \in 0..Len(wire) /\ got <= Parts
            BY <2>1, <2>2 DEF Init
        <3>3. sequenceNo \in 0..MaxSeq /\ deliverNo \in 0..MaxDeliver
            BY <2>1 DEF Init
        <3>4. QED
            BY <3>1, <3>2, <3>3 DEF Init, TypeOK, MainLocations, ReaderLocations
    <2>4. SendingOK /\ StartOK /\ ReaderOK /\ NumbersOK /\ UniqueSequenceNos
        BY <2>2 DEF Init, SendingOK, StartOK, ReaderOK, NumbersOK, UniqueSequenceNos
    <2>5. InStep /\ HandledInOrder /\ HandledBefore /\ HandledAtMostOnce
        <3>1. Len(handled) = 0 /\ DOMAIN handled = {} /\ pos = 0 /\ got = 0
            BY <2>2 DEF Init
        <3>2. handled = [k \in 1..0 |-> k]
            BY <2>2
        <3>3. InStep
            BY <2>1, <3>1 DEF InStep
        <3>4. QED
            BY <3>1, <3>2, <3>3 DEF HandledInOrder, HandledBefore, HandledAtMostOnce
    <2>6. QED
        BY <2>3, <2>4, <2>5 DEF Inv
<1>2. Inv /\ [Next]_vars => Inv'
    <2> SUFFICES ASSUME Inv, [Next]_vars PROVE Inv'
        OBVIOUS
    <2>1. TypeOK' /\ SendingOK' /\ StartOK' /\ ReaderOK'
        BY TypeStep, SendingStep, StartStep, ReaderStep
    <2>2. NumbersOK' /\ UniqueSequenceNos'
        BY NumbersStep
    <2>3. InStep' /\ HandledInOrder' /\ HandledBefore' /\ HandledAtMostOnce'
        BY HandledStep
    <2>4. QED
        BY <2>1, <2>2, <2>3 DEF Inv
<1>3. QED
    BY <1>1, <1>2, PTL DEF Spec

\* Every variable keeps its type; the reader has at most one PDU of the server in hand.
THEOREM TypeCorrect == Spec => []TypeOK
BY Invariant, PTL DEF Inv

\* Until a read deadline cuts a PDU, the client handles what the server sent, in order.
THEOREM HandledInOrderHolds == Spec => []HandledInOrder
BY Invariant, PTL DEF Inv

\* Whatever the deadlines cut, no PDU is handled twice, and none before an earlier one.
THEOREM HandledAtMostOnceHolds == Spec => []HandledAtMostOnce
BY Invariant, PTL DEF Inv

\* The menu and the ticker use each sequence number for one request.
THEOREM UniqueSequenceNosHolds == Spec => []UniqueSequenceNos
BY Invariant, PTL DEF Inv
====
