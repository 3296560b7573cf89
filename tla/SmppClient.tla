---- MODULE SmppClient ----
(***************************************************************************)
(* The SMPP client of client/client.go: the main goroutine (connect, bind, *)
(* menu, unbind), the ticker that sends ENQUIRE_LINK, and the goroutine    *)
(* receivePDUs, which share the connection, bound and sequenceNo.          *)
(*                                                                         *)
(* A PDU from the server is Parts chunks on the stream, read one at a time *)
(* under a deadline; a header is read from the first chunk.  pos counts    *)
(* the chunks taken from the stream, got those of the PDU being read.      *)
(* Of the server (SessionRegistry) the client sees that it answers each    *)
(* request in turn, delivers short messages as soon as its session is      *)
(* bound, in the order in which its goroutines write them, and that it     *)
(* closes the connection when it sweeps it or ends.                        *)
(* Abstracted: message texts, addresses and TLVs.                          *)
(* SendPDUAndWait has no caller, so respChan is always empty: left out.    *)
(***************************************************************************)
EXTENDS Integers, SequencesExt

CONSTANTS
    Parts,       \* chunks of a PDU
    MaxSeq,      \* bound: requests the client makes
    MaxDeliver,  \* bound: DELIVER_SM the server numbers
    None

ASSUME ConstantsAssumption ==
    /\ Parts \in Nat \ {0} /\ MaxSeq \in Nat /\ MaxDeliver \in Nat

Threads == {"main", "ticker"}
Requests == {"bind", "submit", "enquire_link", "unbind"}
Answers == {"bind_ok", "bind_failed", "submit_resp", "enquire_link_resp", "unbind_resp"}

ASSUME NoneAssumption == None \notin [type: Requests, seq: 1..MaxSeq]

VARIABLES
    main,        \* where the main goroutine is
    reader,      \* where receivePDUs is
    conn,        \* "none", "open", "closed": the connection, as the client sees it
    bound,       \* BOOLEAN: c.bound
    sequenceNo,  \* c.sequenceNo
    stopReading, \* BOOLEAN: c.stopReading is closed
    pending,     \* [Threads -> request or None]: request it has numbered and not sent
    wire,        \* Seq: what the client has written
    served,      \* number of PDUs of wire that the server has processed
    sent,        \* Seq: what the server has written
    peerClosed,  \* BOOLEAN: the server has closed the connection
    serverBound, \* BOOLEAN: session.bound on the server
    deliverNo,   \* session.sequenceNo on the server: DELIVER_SM numbered so far
    pos, got,    \* chunks the reader took from the stream, and has of the current PDU
    handled,     \* Seq(Nat): the PDUs handled, by index in sent, 0 for garbage
    cut          \* BOOLEAN: a read deadline has passed in the middle of a PDU

mainVars == <<main, conn, stopReading>>
serverVars == <<served, sent, peerClosed, serverBound, deliverNo>>
readVars == <<reader, pos, got, handled, cut>>
vars == <<mainVars, bound, sequenceNo, pending, wire, serverVars, readVars>>

MainLocations == {"connect", "bind", "sending", "waitBind", "menu", "unbind", "signal",
                  "close", "closed", "exit", "fatal", "panic"}
ReaderLocations == {"none", "top", "reading", "handling", "stopped", "failed"}

Init ==
    /\ main = "connect" /\ reader = "none" /\ conn = "none"
    /\ bound = FALSE /\ sequenceNo = 0 /\ stopReading = FALSE
    /\ pending = [t \in Threads |-> None]
    /\ wire = <<>> /\ served = 0
    /\ sent = <<>> /\ peerClosed = FALSE /\ serverBound = FALSE /\ deliverNo = 0
    /\ pos = 0 /\ got = 0 /\ handled = <<>> /\ cut = FALSE

\* The program ends when main returns or calls log.Fatal, or a goroutine panics.
Running == main \notin {"exit", "fatal", "panic"}

\* net.Conn.Write: fails on a connection closed here, may fail on one closed there.
WriteOutcomes ==
    CASE conn # "open" -> {FALSE}
      [] conn = "open" /\ peerClosed -> {TRUE, FALSE}
      [] conn = "open" /\ ~peerClosed -> {TRUE}

----
(* Requests. *)

\* Mutant: sequenceNo is incremented without the mutex, from a stale value.
NumberRace(t, type) ==
    /\ sequenceNo < MaxSeq
    /\ \E n \in {sequenceNo, sequenceNo + 1} \ {0} :
          /\ sequenceNo' = n
          /\ pending' = [pending EXCEPT ![t] = [type |-> type, seq |-> n]]

\* c.sequenceNo++ under the mutex; the request is built with the number.
Number(t, type) ==
    /\ sequenceNo < MaxSeq
    /\ sequenceNo' = sequenceNo + 1
    /\ pending' = [pending EXCEPT ![t] = [type |-> type, seq |-> sequenceNo']]

\* sendPDU of a numbered request: ok says whether the connection took it.
Put(t, ok) ==
    /\ wire' = IF ok THEN Append(wire, pending[t]) ELSE wire
    /\ pending' = [pending EXCEPT ![t] = None]

\* What main does once its request is sent, or is not.
AfterRequest(type, ok) ==
    CASE type = "bind" -> IF ok THEN "waitBind" ELSE "fatal"
      [] type \in {"submit", "enquire_link"} -> "menu"
      [] type = "unbind" -> "signal"

SendRequest ==
    /\ main = "sending"
    /\ \E ok \in WriteOutcomes :
          /\ Put("main", ok)
          /\ main' = AfterRequest(pending["main"].type, ok)
    /\ UNCHANGED <<conn, stopReading, bound, sequenceNo, serverVars, readVars>>

\* Dial, and start the reader; or log.Fatal.
Connect ==
    /\ main = "connect"
    /\ \/ /\ main' = "bind" /\ conn' = "open" /\ reader' = "top"
       \/ /\ main' = "fatal" /\ UNCHANGED <<conn, reader>>
    /\ UNCHANGED <<stopReading, bound, sequenceNo, pending, wire, serverVars, pos, got, handled, cut>>

Request(from, type) ==
    /\ main = from
    /\ Number("main", type)
    /\ main' = "sending"
    /\ UNCHANGED <<conn, stopReading, bound, wire, serverVars, readVars>>

Bind == Request("bind", "bind")

\* One second after the bind request: on to the menu, or log.Fatal.
CheckBound ==
    /\ main = "waitBind"
    /\ main' = IF bound THEN "menu" ELSE "fatal"
    /\ UNCHANGED <<conn, stopReading, bound, sequenceNo, pending, wire, serverVars, readVars>>

\* Menu options 1, 2, 3 and each message of 5; SendMessage refuses when not bound.
SendMessage == bound /\ Request("menu", "submit")
MenuEnquireLink == Request("menu", "enquire_link")

\* Option 6, or the end of the input: Unbind, in four steps.
Unbind == Request("menu", "unbind")

Signal ==
    /\ main = "signal"
    /\ stopReading' = TRUE
    /\ main' = "close"
    /\ UNCHANGED <<conn, bound, sequenceNo, pending, wire, serverVars, readVars>>

\* 100 ms later, less than the read deadline: the reader may be anywhere.
Close ==
    /\ main = "close"
    /\ conn' = "closed"
    /\ bound' = FALSE
    /\ main' = "closed"
    /\ UNCHANGED <<stopReading, sequenceNo, pending, wire, serverVars, readVars>>

Exit ==
    /\ main = "closed"
    /\ main' = "exit"
    /\ UNCHANGED <<conn, stopReading, bound, sequenceNo, pending, wire, serverVars, readVars>>

\* The ticker is started before the menu and never stopped.
Ticking ==
    \/ main \in {"menu", "signal", "close", "closed"}
    \/ main = "sending" /\ pending["main"].type # "bind"

Tick ==
    /\ Ticking
    /\ pending["ticker"] = None
    /\ Number("ticker", "enquire_link")
    /\ UNCHANGED <<mainVars, bound, wire, serverVars, readVars>>

SendTick ==
    /\ Running
    /\ pending["ticker"] # None
    /\ \E ok \in WriteOutcomes : Put("ticker", ok)
    /\ UNCHANGED <<mainVars, bound, sequenceNo, serverVars, readVars>>

----
(* receivePDUs and readPDU. *)

Chunks == Parts * Len(sent)  \* chunks the server has written so far

Reader(from, to) ==
    /\ Running
    /\ reader = from
    /\ reader' = to
    /\ UNCHANGED <<mainVars, sequenceNo, pending, serverVars>>

SeeStop ==
    /\ stopReading
    /\ Reader("top", "stopped")
    /\ UNCHANGED <<bound, wire, pos, got, handled, cut>>

\* SetReadDeadline, which fails on a closed connection.
SetDeadline ==
    /\ ~stopReading
    /\ Reader("top", IF conn = "open" THEN "reading" ELSE "failed")
    /\ UNCHANGED <<bound, wire, pos, got, handled, cut>>

\* The first chunk of a PDU is at a multiple of Parts, unless some were lost.
Aligned == (pos - got) % Parts = 0

\* Mutant: Read in place of io.ReadFull, whatever it returns is the PDU.
ReadAny ==
    /\ conn = "open" /\ pos < Chunks /\ Aligned
    /\ \E to \in {"reading", "handling"} :
          /\ (got + 1 = Parts => to = "handling")
          /\ Reader("reading", to)
    /\ pos' = pos + 1 /\ got' = got + 1
    /\ UNCHANGED <<bound, wire, handled, cut>>

\* Mutant: the body length is not less the header.
ReadTooLong ==
    /\ conn = "open" /\ pos < Chunks /\ Aligned
    /\ Reader("reading", IF got = Parts THEN "handling" ELSE "reading")
    /\ pos' = pos + 1 /\ got' = got + 1
    /\ UNCHANGED <<bound, wire, handled, cut>>

\* io.ReadFull of header and body goes on until the PDU is complete.
ReadChunk ==
    /\ conn = "open" /\ pos < Chunks /\ Aligned
    /\ Reader("reading", IF got + 1 = Parts THEN "handling" ELSE "reading")
    /\ pos' = pos + 1 /\ got' = got + 1
    /\ UNCHANGED <<bound, wire, handled, cut>>

\* A header read from the middle of a PDU: its length is out of range, which ends the
\* reader, or so many chunks make a PDU, or begin one that the deadline cuts short.
ReadGarbage ==
    /\ conn = "open" /\ pos < Chunks /\ ~Aligned
    /\ \/ Reader("reading", "failed") /\ UNCHANGED <<pos, got>>
       \/ \E n \in 1..(Chunks - pos) :
             /\ pos' = pos + n
             /\ \/ Reader("reading", "handling") /\ got' = n
                \/ Reader("reading", "top") /\ got' = 0
    /\ UNCHANGED <<bound, wire, handled, cut>>

\* Mutant: a timeout is taken for an error of the connection.
TimeoutEndsReader ==
    /\ got > 0 \/ pos = Chunks
    /\ Reader("reading", "failed")
    /\ got' = 0
    /\ cut' = (cut \/ got > 0)
    /\ UNCHANGED <<bound, wire, pos, handled>>

\* The deadline passes while nothing comes, or not the rest of a PDU: what was read of
\* the PDU is dropped, and the loop goes on.
Timeout ==
    /\ got > 0 \/ pos = Chunks
    /\ Reader("reading", "top")
    /\ got' = 0
    /\ cut' = (cut \/ got > 0)
    /\ UNCHANGED <<bound, wire, pos, handled>>

\* EOF or a reset by the server, or a connection closed by Unbind.
ReadFail ==
    /\ conn = "closed" \/ peerClosed
    /\ Reader("reading", "failed")
    /\ UNCHANGED <<bound, wire, pos, got, handled, cut>>

----
(* handlePDU. *)

\* The PDU that was read, an index of sent, or 0.
Current == IF Aligned /\ got = Parts THEN pos \div Parts ELSE 0

\* Mutant: the bytes of the PDU are still there when the next one is read.
HandledAgain(k) ==
    /\ Reader("handling", "top")
    /\ handled' = Append(handled, k)
    /\ pos' = pos - got /\ got' = 0
    /\ UNCHANGED cut

\* PDU k is done with, and the loop goes on.
HandledPDU(k) ==
    /\ Reader("handling", "top")
    /\ handled' = Append(handled, k)
    /\ got' = 0
    /\ UNCHANGED <<pos, cut>>

HandleBindResp ==
    /\ Current # 0 /\ sent[Current].type = "bind_ok"
    /\ HandledPDU(Current)
    /\ bound' = TRUE
    /\ UNCHANGED wire

\* Every DELIVER_SM is answered, with its number; an error of the write is ignored.
HandleDeliverSM ==
    /\ Current # 0 /\ sent[Current].type = "deliver_sm"
    /\ HandledPDU(Current)
    /\ \E ok \in WriteOutcomes :
          wire' = IF ok THEN Append(wire, [type |-> "deliver_sm_resp", seq |-> sent[Current].seq])
                        ELSE wire
    /\ UNCHANGED bound

\* A failed bind and the other responses are only logged.
HandleLogged ==
    /\ Current # 0 /\ sent[Current].type \in Answers \ {"bind_ok"}
    /\ HandledPDU(Current)
    /\ UNCHANGED <<bound, wire>>

\* Garbage is logged as unknown, or passes for one of the PDUs above.
HandleGarbage ==
    /\ Current = 0
    /\ HandledPDU(0)
    /\ bound' \in {bound, TRUE}
    /\ \/ UNCHANGED wire
       \/ conn = "open" /\ wire' = Append(wire, [type |-> "deliver_sm_resp", seq |-> 0])

\* Garbage that passes for a DELIVER_SM, or for a SUBMIT_SM_RESP, and whose fields lie
\* outside its body: parseDeliverSM or extractCString panics.
PanicOnGarbage ==
    /\ Running /\ reader = "handling" /\ Current = 0
    /\ main' = "panic"
    /\ UNCHANGED <<conn, stopReading, bound, sequenceNo, pending, wire, serverVars, readVars>>

----
(* The server, as the client sees it. *)

\* handleBind accepts the bind: the session is bound and registered, and its response is
\* written later.
ServerBind ==
    /\ Running /\ ~peerClosed /\ ~serverBound
    /\ served < Len(wire) /\ wire[served + 1].type = "bind"
    /\ serverBound' = TRUE
    /\ UNCHANGED <<mainVars, bound, sequenceNo, pending, wire, served, sent, peerClosed,
                   deliverNo, readVars>>

AnswerType(type) ==
    CASE type = "bind" -> IF serverBound THEN "bind_ok" ELSE "bind_failed"
      [] type = "submit" -> "submit_resp"
      [] type = "enquire_link" -> "enquire_link_resp"
      [] type = "unbind" -> "unbind_resp"

\* A request is answered, in turn; a DELIVER_SM_RESP is only logged.  After an unbind the
\* session is not bound, and the server goes on reading.
ServerAnswer ==
    /\ Running /\ ~peerClosed
    /\ served < Len(wire)
    /\ served' = served + 1
    /\ LET request == wire[served + 1] IN
       /\ sent' = IF request.type \in Requests
                  THEN Append(sent, [type |-> AnswerType(request.type), seq |-> request.seq])
                  ELSE sent
       /\ serverBound' = (serverBound /\ request.type # "unbind")
    /\ UNCHANGED <<mainVars, bound, sequenceNo, pending, wire, peerClosed, deliverNo, readVars>>

\* SendDeliverSM finds the session bound and takes the next number.
ServerNumber ==
    /\ Running /\ ~peerClosed /\ serverBound
    /\ deliverNo < MaxDeliver
    /\ deliverNo' = deliverNo + 1
    /\ UNCHANGED <<mainVars, bound, sequenceNo, pending, wire, served, sent, peerClosed,
                   serverBound, readVars>>

Delivered(n) == \E k \in DOMAIN sent : sent[k] = [type |-> "deliver_sm", seq |-> n]

\* A goroutine in SendDeliverSM writes its DELIVER_SM, before or after others, and also when
\* the client has unbound since.
ServerDeliver ==
    /\ Running /\ ~peerClosed
    /\ \E n \in 1..deliverNo :
          /\ ~Delivered(n)
          /\ sent' = Append(sent, [type |-> "deliver_sm", seq |-> n])
    /\ UNCHANGED <<mainVars, bound, sequenceNo, pending, wire, served, peerClosed, serverBound,
                   deliverNo, readVars>>

\* The sweep closes the connection, or the server ends.
ServerClose ==
    /\ Running /\ conn = "open" /\ ~peerClosed
    /\ peerClosed' = TRUE
    /\ UNCHANGED <<mainVars, bound, sequenceNo, pending, wire, served, sent, serverBound,
                   deliverNo, readVars>>

Receive ==
    \/ SeeStop \/ SetDeadline \/ ReadChunk \/ ReadGarbage \/ Timeout \/ ReadFail
    \/ HandleBindResp \/ HandleDeliverSM \/ HandleLogged \/ HandleGarbage \/ PanicOnGarbage

Next ==
    \/ Connect \/ Bind \/ SendRequest \/ CheckBound
    \/ SendMessage \/ MenuEnquireLink \/ Unbind \/ Signal \/ Close \/ Exit
    \/ Tick \/ SendTick \/ Receive
    \/ ServerBind \/ ServerAnswer \/ ServerNumber \/ ServerDeliver \/ ServerClose

Spec == Init /\ [][Next]_vars

\* The reader goroutine is scheduled, and what the server writes arrives.
FairSpec == Spec /\ WF_vars(Receive)

----
(* Properties. *)

PDUTypes == Requests \cup Answers \cup {"deliver_sm", "deliver_sm_resp"}
PDU == [type: PDUTypes, seq: Nat]

\* Every variable keeps its type; the reader has read no more than was written, and has
\* at most one PDU of the server in hand.
TypeOK ==
    /\ main \in MainLocations /\ reader \in ReaderLocations
    /\ conn \in {"none", "open", "closed"}
    /\ bound \in BOOLEAN /\ stopReading \in BOOLEAN
    /\ peerClosed \in BOOLEAN /\ serverBound \in BOOLEAN /\ deliverNo \in 0..MaxDeliver
    /\ sequenceNo \in 0..MaxSeq
    /\ pending \in [Threads -> [type: Requests, seq: 1..MaxSeq] \cup {None}]
    /\ wire \in Seq(PDU) /\ sent \in Seq(PDU)
    /\ served \in 0..Len(wire)
    /\ pos \in 0..Chunks /\ got \in 0..pos /\ (Aligned => got <= Parts)
    /\ handled \in Seq(0..Len(sent))
    /\ cut \in BOOLEAN

\* While no PDU was cut by the read deadline, the client handles what the server sent: all
\* of it so far, each PDU whole, once, in the order of sending, however often the deadline
\* passes between PDUs.
HandledInOrder == ~cut => handled = [k \in 1..Len(handled) |-> k]

\* Also when deadlines have passed in the middle of PDUs, the PDUs that are handled whole are
\* handled once and in the order of sending: others are lost, none is repeated.
HandledAtMostOnce ==
    \A i, j \in DOMAIN handled :
        i < j /\ handled[i] # 0 /\ handled[j] # 0 => handled[i] < handled[j]

\* The ticker and the menu never send two requests with one sequence number, so a
\* response belongs to one request.
UniqueSequenceNos ==
    \A i, j \in DOMAIN wire :
        wire[i].type \in Requests /\ wire[j].type \in Requests /\ wire[i].seq = wire[j].seq
            => i = j

\* A short message that the server delivers is answered, whether it comes before the bind
\* response, after it or while the client unbinds, unless the deadline cuts a PDU, the client
\* stops reading or ends, or the sweep closes the connection first.
Answered(n) == \E k \in DOMAIN wire : wire[k] = [type |-> "deliver_sm_resp", seq |-> n]
DeliveriesAnswered ==
    \A n \in 1..MaxDeliver :
        Delivered(n) ~> (Answered(n) \/ cut \/ stopReading \/ peerClosed \/ ~Running)

----
(* What a comment says, and the code does not do. *)

\* "It was just a timeout, loop again to check stopReading": the reader is at the start
\* of a PDU when it loops again.
TimeoutLosesNothing == reader \in {"top", "reading"} => Aligned
====
