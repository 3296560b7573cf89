---- MODULE DeliveryReceipts ----
(***************************************************************************)
(* Delivery receipts of server/server.go: the table s.trackedMessages from *)
(* message_id to tracked message, the goroutine that simulates delivery of *)
(* one message, and the goroutine processDeliveryReceipts.                 *)
(*                                                                         *)
(* The table is locked; the tracked messages it points to are not, once    *)
(* they are in the processor's batch.  So collecting, deciding, sending    *)
(* and removing are separate steps, and the processor holds pointers to    *)
(* messages where the table and the delivery timers go by message_id.      *)
(* A submit draws its message_id without the lock and stores the message   *)
(* later, and starts the simulated delivery later still, after SendToUser. *)
(*                                                                         *)
(* Abstracted: message texts and addresses; time, of which the code tests  *)
(* only "more than a second" and "more than an hour" since the submit, and *)
(* the second that is part of a message_id; the ESME, reduced to whether a *)
(* SendDeliverSM to it succeeds.                                           *)
(***************************************************************************)
EXTENDS Integers, Sequences

CONSTANTS
    Msgs,        \* messages submitted over SMS whose registered_delivery is not zero
    MsgIDs,      \* values of message_id
    None         \* no message, no message_id

ASSUME ConstantsAssumption == None \notin Msgs \cup MsgIDs

\* registered_delivery: the RD_ constants, and any other byte.  A message with RD_NONE is
\* not tracked, and no delivery of it is simulated.
RegisteredDelivery == {"success_failure", "failure", "success", "other"}
States == {"accepted", "delivered", "undeliverable"}
Age == {"fresh", "ripe", "old"}   \* up to a second, up to an hour, more

\* Where a submit is: its message_id is drawn, the message is stored, the goroutine of its
\* simulated delivery sleeps, and has ended.
Phase == {"new", "drawn", "stored", "timer", "done"}

VARIABLES
    trackedMessages,  \* [MsgIDs -> Msgs \cup {None}]: s.trackedMessages
    msgId,            \* [Msgs -> MsgIDs \cup {None}]: TrackedMessage.MessageID
    rd,               \* [Msgs -> RegisteredDelivery]: TrackedMessage.RegisteredDelivery
    status,           \* [Msgs -> States]: TrackedMessage.Status
    age,              \* [Msgs -> Age]: time since TrackedMessage.SubmitTime
    phase,            \* [Msgs -> Phase]: where processMessage and its goroutine are
    recent,           \* SUBSET Msgs: those whose message_id was drawn in this second
    rpc,              \* where processDeliveryReceipts is
    batch,            \* SUBSET Msgs: receiptsToSend, not yet handled
    cur,              \* Msgs \cup {None}: the message being handled
    receipts,         \* [Msgs -> Seq(States)]: the states reported to the ESME
    refused,          \* history: the messages whose receipt SendDeliverSM did not send
    failed,           \* history: the messages SimulateDeliveryFailure was called for
    late              \* history: the messages stored after the second of their message_id

msgVars == <<msgId, rd, age, phase, recent, late>>
vars == <<trackedMessages, msgVars, status, rpc, batch, cur, receipts, refused, failed>>

Init ==
    /\ trackedMessages = [i \in MsgIDs |-> None]
    /\ msgId = [m \in Msgs |-> None]
    /\ rd \in [Msgs -> RegisteredDelivery]
    /\ status = [m \in Msgs |-> "accepted"]
    /\ age = [m \in Msgs |-> "fresh"]
    /\ phase = [m \in Msgs |-> "new"]
    /\ recent = {}
    /\ rpc = "wait"
    /\ batch = {}
    /\ cur = None
    /\ receipts = [m \in Msgs |-> <<>>]
    /\ refused = {} /\ failed = {} /\ late = {}

\* Another message has drawn the message_id of message m.
Collided(m) == msgId[m] # None /\ \E n \in Msgs \ {m} : msgId[n] = msgId[m]

Tracked(m) == msgId[m] # None /\ trackedMessages[msgId[m]] = m

----
(* processMessage and handleSMSRequest, for an SMS. *)

\* Mutant of MayDraw: the message_id is the nanoseconds only, and comes back at any time.
MayDrawAnytime(i) == i \in MsgIDs

\* A message_id is the second and the nanoseconds modulo 1000: it may come back within
\* the second in which it was drawn, and not later.
MayDraw(i) == \A m \in Msgs : msgId[m] = i => m \in recent

\* The message_id is drawn without a lock, and the submit time is read.
Draw(m) ==
    /\ phase[m] = "new" /\ phase' = [phase EXCEPT ![m] = "drawn"]
    /\ \E i \in MsgIDs : MayDraw(i) /\ msgId' = [msgId EXCEPT ![m] = i]
    /\ recent' = recent \cup {m}
    /\ UNCHANGED <<trackedMessages, rd, status, age, rpc, batch, cur, receipts,
                   refused, failed, late>>

\* Mutant of Track: the new message starts as MSG_STATE_UNKNOWN.
TrackUnknown(m) ==
    /\ phase[m] = "drawn" /\ phase' = [phase EXCEPT ![m] = "stored"]
    /\ trackedMessages' = [trackedMessages EXCEPT ![msgId[m]] = m]
    /\ status' = [status EXCEPT ![m] = "unknown"]
    /\ UNCHANGED <<msgId, rd, age, recent, late, rpc, batch, cur, receipts, refused, failed>>

\* Mutant of Track: the new message starts as MSG_STATE_DELIVERED.
TrackDelivered(m) ==
    /\ phase[m] = "drawn" /\ phase' = [phase EXCEPT ![m] = "stored"]
    /\ trackedMessages' = [trackedMessages EXCEPT ![msgId[m]] = m]
    /\ status' = [status EXCEPT ![m] = "delivered"]
    /\ UNCHANGED <<msgId, rd, age, recent, late, rpc, batch, cur, receipts, refused, failed>>

\* The message is tracked under its message_id.
Track(m) ==
    /\ phase[m] = "drawn" /\ phase' = [phase EXCEPT ![m] = "stored"]
    /\ trackedMessages' = [trackedMessages EXCEPT ![msgId[m]] = m]
    /\ late' = IF m \in recent THEN late ELSE late \cup {m}
    /\ UNCHANGED <<msgId, rd, age, recent, status, rpc, batch, cur, receipts, refused, failed>>

\* handleSMSRequest, when SendToUser has returned: the simulated delivery starts.
StartDelivery(m) ==
    /\ phase[m] = "stored" /\ phase' = [phase EXCEPT ![m] = "timer"]
    /\ UNCHANGED <<trackedMessages, msgId, rd, age, recent, late, status, rpc,
                   batch, cur, receipts, refused, failed>>

\* The goroutine of handleSMSRequest, 1 to 5 seconds later: whatever is tracked under
\* the message_id becomes delivered.
TimerFires(m) ==
    /\ phase[m] = "timer" /\ phase' = [phase EXCEPT ![m] = "done"]
    /\ age[m] # "fresh"
    /\ status' = [n \in Msgs |->
                    IF trackedMessages[msgId[m]] = n THEN "delivered" ELSE status[n]]
    /\ UNCHANGED <<trackedMessages, msgId, rd, age, recent, late, rpc, batch, cur,
                   receipts, refused, failed>>

\* SimulateDeliveryFailure(messageID), the hook for tests.
SimulateDeliveryFailure(i) ==
    /\ trackedMessages[i] # None
    /\ status' = [status EXCEPT ![trackedMessages[i]] = "undeliverable"]
    /\ failed' = failed \cup {trackedMessages[i]}
    /\ UNCHANGED <<trackedMessages, msgVars, rpc, batch, cur, receipts, refused>>

----
(* processDeliveryReceipts, every two seconds. *)

\* Mutant of Collect: old messages are never forgotten.
CollectKeepsOld ==
    /\ rpc = "wait"
    /\ batch' = {m \in Msgs : Tracked(m) /\ status[m] = "delivered" /\ age[m] # "fresh"}
    /\ rpc' = IF batch' = {} THEN "wait" ELSE "next"
    /\ UNCHANGED <<trackedMessages, msgVars, status, cur, receipts, refused, failed>>

\* Mutant of Collect: old messages are forgotten before the delivered ones are collected.
CollectForgetsFirst ==
    /\ rpc = "wait"
    /\ batch' = {m \in Msgs : Tracked(m) /\ status[m] = "delivered" /\ age[m] = "ripe"}
    /\ trackedMessages' = [i \in MsgIDs |->
          IF trackedMessages[i] # None /\ age[trackedMessages[i]] = "old"
          THEN None ELSE trackedMessages[i]]
    /\ rpc' = IF batch' = {} THEN "wait" ELSE "next"
    /\ UNCHANGED <<msgVars, status, cur, receipts, refused, failed>>

\* Under the read lock: collect what is delivered, forget what is an hour old.
Collect ==
    /\ rpc = "wait"
    /\ batch' = {m \in Msgs : Tracked(m) /\ status[m] = "delivered" /\ age[m] # "fresh"}
    /\ trackedMessages' = [i \in MsgIDs |->
          IF trackedMessages[i] # None /\ age[trackedMessages[i]] = "old"
          THEN None ELSE trackedMessages[i]]
    /\ rpc' = IF batch' = {} THEN "wait" ELSE "next"
    /\ UNCHANGED <<msgVars, status, cur, receipts, refused, failed>>

\* Mutant of ShouldSend: RD_FAILURE is taken for RD_SUCCESS_FAILURE.
ShouldSendAny(m) ==
    \/ rd[m] \in {"success_failure", "failure"} /\ status[m] \in {"delivered", "undeliverable"}
    \/ rd[m] = "success" /\ status[m] = "delivered"

\* shouldSendDeliveryReceipt
ShouldSend(m) ==
    \/ rd[m] = "success_failure" /\ status[m] \in {"delivered", "undeliverable"}
    \/ rd[m] = "failure" /\ status[m] = "undeliverable"
    \/ rd[m] = "success" /\ status[m] = "delivered"

\* The processor is done with message m of the batch.
Advance(m) ==
    /\ batch' = batch \ {m}
    /\ rpc' = IF batch \ {m} = {} THEN "wait" ELSE "next"

\* shouldSendDeliveryReceipt of the next message of the batch, without the lock.
Decide(m) ==
    /\ rpc = "next"
    /\ m \in batch
    /\ IF ShouldSend(m)
       THEN rpc' = "send" /\ cur' = m /\ UNCHANGED batch
       ELSE Advance(m) /\ UNCHANGED cur
    /\ UNCHANGED <<trackedMessages, msgVars, status, receipts, refused, failed>>

\* sendDeliveryReceipt reads the status again; an error of SendDeliverSM, when the ESME has
\* unbound or gone, is only logged.
Send ==
    /\ rpc = "send" /\ rpc' = "remove"
    /\ \/ receipts' = [receipts EXCEPT ![cur] = Append(@, status[cur])] /\ UNCHANGED refused
       \/ refused' = refused \cup {cur} /\ UNCHANGED receipts
    /\ UNCHANGED <<trackedMessages, msgVars, status, batch, cur, failed>>

\* Mutant of Remove: the message stays in the table.
RemoveForgotten ==
    /\ rpc = "remove"
    /\ Advance(cur)
    /\ cur' = None
    /\ UNCHANGED <<trackedMessages, msgVars, status, receipts, refused, failed>>

\* "Remove from tracking after sending receipt": by message_id, under the lock.
Remove ==
    /\ rpc = "remove"
    /\ trackedMessages' = [trackedMessages EXCEPT ![msgId[cur]] = None]
    /\ Advance(cur)
    /\ cur' = None
    /\ UNCHANGED <<msgVars, status, receipts, refused, failed>>

----
(* The environment: time. *)

\* The clock goes on to the next second.
SecondPasses ==
    /\ recent # {} /\ recent' = {}
    /\ UNCHANGED <<trackedMessages, msgId, rd, age, phase, late, status, rpc, batch,
                   cur, receipts, refused, failed>>

\* More than a second after the submit time, which was read after the message_id was drawn.
Ripen(m) ==
    /\ phase[m] # "new" /\ m \notin recent
    /\ age[m] = "fresh" /\ age' = [age EXCEPT ![m] = "ripe"]
    /\ UNCHANGED <<trackedMessages, msgId, rd, phase, recent, late, status, rpc,
                   batch, cur, receipts, refused, failed>>

\* An hour: storing the message waits for a lock that no holder of it keeps, and a sleep is
\* over after five seconds; SendToUser, in between, may wait for longer.
GetOld(m) ==
    /\ phase[m] \in {"stored", "done"}
    /\ age[m] = "ripe" /\ age' = [age EXCEPT ![m] = "old"]
    /\ UNCHANGED <<trackedMessages, msgId, rd, phase, recent, late, status, rpc,
                   batch, cur, receipts, refused, failed>>

Processor == Collect \/ (\E m \in Msgs : Decide(m)) \/ Send \/ Remove

Next ==
    \/ Processor
    \/ SecondPasses
    \/ \E m \in Msgs :
          \/ Draw(m) \/ Track(m) \/ StartDelivery(m) \/ TimerFires(m)
          \/ Ripen(m) \/ GetOld(m)
    \/ \E i \in MsgIDs : SimulateDeliveryFailure(i)

Spec == Init /\ [][Next]_vars

\* Time passes, sleeping goroutines wake up, and the processor's ticker fires; a write
\* to the ESME returns.  Nothing makes SendToUser return.
Fairness ==
    /\ WF_vars(Processor) /\ WF_vars(SecondPasses)
    /\ \A m \in Msgs : WF_vars(TimerFires(m)) /\ WF_vars(Ripen(m)) /\ WF_vars(GetOld(m))

FairSpec == Spec /\ Fairness

----
(* Properties. *)

\* Every variable keeps its type; rpc is the line the processor is at.
TypeOK ==
    /\ trackedMessages \in [MsgIDs -> Msgs \cup {None}]
    /\ msgId \in [Msgs -> MsgIDs \cup {None}]
    /\ rd \in [Msgs -> RegisteredDelivery]
    /\ status \in [Msgs -> States]
    /\ age \in [Msgs -> Age]
    /\ phase \in [Msgs -> Phase]
    /\ recent \in SUBSET Msgs /\ late \in SUBSET Msgs
    /\ rpc \in {"wait", "next", "send", "remove"}
    /\ batch \in SUBSET Msgs
    /\ cur \in Msgs \cup {None}
    /\ receipts \in [Msgs -> Seq(States)]
    /\ refused \in SUBSET Msgs /\ failed \in SUBSET Msgs

\* No message is reported twice, although a message stays in the table while its receipt
\* is sent, a collision may take its place there, and removal goes by message_id.
AtMostOneReceipt == \A m \in Msgs : Len(receipts[m]) <= 1

\* The removal by message_id, done without the lock that collected the message, takes
\* another message out of the table only if that one was stored late: a message_id comes
\* back only within its second, and what is handled is older.  (A submit that waits for more
\* than a second between drawing its message_id and storing its message may lose it.)
RemovesOnlyItsOwn ==
    \A m \in batch \cup {cur} :
        m # None => trackedMessages[msgId[m]] \in {m, None} \cup late

\* A receipt goes only to a message that asked for a success receipt, although status is
\* read without the lock, twice; but for a message that was made to fail meanwhile.
OnlyRequestedReceipts ==
    \A m \in Msgs \ failed :
        receipts[m] # <<>>
          => rd[m] \in {"success_failure", "success"} /\ receipts[m] = <<"delivered">>

\* A message is not reported before its own simulated delivery is over, unless another
\* one has drawn its message_id.
NoEarlyReceipt ==
    \A m \in Msgs :
        receipts[m] # <<>> /\ ~Collided(m) => phase[m] = "done" /\ age[m] # "fresh"

\* Nothing stays in the table for ever: neither a receipt that is not wanted, nor a
\* failed or lost message, nor one whose place another message took.
TrackedUntilDone == \A m \in Msgs : Tracked(m) ~> ~Tracked(m)

\* A requested success receipt is sent, whatever becomes of other messages, unless the
\* ESME is gone when it is sent, an injected failure or a collision comes in between, or
\* SendToUser holds the simulated delivery up for an hour.  (Readme: "If requested, the server
\* simulates delivery receipts for SMS".)
RequestedReceiptSent ==
    \A m \in Msgs :
        Tracked(m) /\ rd[m] \in {"success_failure", "success"} /\ ~(rpc = "remove" /\ cur = m)
          ~> \/ receipts[m] # <<>> \/ m \in refused \cup failed \/ Collided(m)
             \/ phase[m] # "done" /\ age[m] = "old"
====
