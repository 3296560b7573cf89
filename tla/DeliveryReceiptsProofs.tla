---- MODULE DeliveryReceiptsProofs ----
(***************************************************************************)
(* Invariants of DeliveryReceipts for any number of messages and           *)
(* message_ids, with collisions, late stores and failures.                 *)
(***************************************************************************)
EXTENDS DeliveryReceipts, TLAPS

\* The message is, or has been, in the table.
Stored(m) == phase[m] \notin {"new", "drawn"}

\* A message is found in the table under its own message_id, and only once stored; only
\* one of this second is too young to be handled for that reason.
TableOK ==
    /\ \A i \in MsgIDs :
          trackedMessages[i] # None
            => msgId[trackedMessages[i]] = i /\ Stored(trackedMessages[i])
    /\ \A m \in Msgs : phase[m] = "new" <=> msgId[m] = None
    /\ \A m \in Msgs : age[m] # "fresh" => msgId[m] # None /\ m \notin recent
    /\ \A m \in recent : msgId[m] # None

\* Messages that share a message_id have drawn it in the same second.
SecondOK ==
    \A m, n \in Msgs :
        msgId[m] # None /\ msgId[m] = msgId[n] => (m \in recent <=> n \in recent)

\* The message being handled is in the batch.
CurrentOK ==
    /\ rpc \in {"send", "remove"} => cur \in batch
    /\ rpc \in {"wait", "next"} => cur = None

\* What is in the batch is over a second old, so who takes its place is late.
BatchOK ==
    \A m \in batch :
        /\ Stored(m)
        /\ age[m] # "fresh"
        /\ trackedMessages[msgId[m]] \in {m, None} \cup late

\* A reported message has left the table and the batch, or is about to.
ReportedOK ==
    \A m \in Msgs :
        \/ receipts[m] = <<>>
        \/ /\ Len(receipts[m]) = 1
           /\ Stored(m)
           /\ (~Tracked(m) /\ m \notin batch) \/ (rpc = "remove" /\ cur = m)

\* A message that shares its message_id with none is delivered once its timer has fired.
TimelyOK ==
    /\ \A m \in Msgs : ~Stored(m) => status[m] = "accepted"
    /\ \A m \in Msgs :
          ~Collided(m) /\ (status[m] = "delivered" \/ m \in batch \/ receipts[m] # <<>>)
            => phase[m] = "done" /\ age[m] # "fresh"

\* In the batch, a message that was not made to fail is delivered and stays so.
RequestedOK ==
    \A m \in Msgs \ failed :
        /\ status[m] # "undeliverable"
        /\ m \in batch => status[m] = "delivered"
        /\ rpc \in {"send", "remove"} /\ cur = m => rd[m] \in {"success_failure", "success"}
        /\ receipts[m] # <<>> =>
              rd[m] \in {"success_failure", "success"} /\ receipts[m] = <<"delivered">>

Inv ==
    /\ TypeOK /\ TableOK /\ SecondOK /\ CurrentOK /\ BatchOK
    /\ ReportedOK /\ TimelyOK /\ RequestedOK

----
\* Types are preserved: the message handled by Send and Remove is a submitted one.
LEMMA TypeStep == Inv /\ [Next]_vars => TypeOK'
<1> SUFFICES ASSUME Inv, [Next]_vars PROVE TypeOK'
    OBVIOUS
<1> USE ConstantsAssumption DEF Inv, TypeOK, States, Age, RegisteredDelivery, msgVars, Phase, TableOK, SecondOK, CurrentOK, BatchOK, Stored
<1>1. ASSUME NEW m \in Msgs, Draw(m) PROVE TypeOK'
    BY <1>1 DEF Draw, MayDraw
<1>2. ASSUME NEW m \in Msgs, Track(m) PROVE TypeOK'
    BY <1>2 DEF Track
<1>3. ASSUME NEW m \in Msgs, StartDelivery(m) PROVE TypeOK'
    BY <1>3 DEF StartDelivery
<1>4. ASSUME SecondPasses PROVE TypeOK'
    BY <1>4 DEF SecondPasses
<1>5. ASSUME NEW m \in Msgs, TimerFires(m) PROVE TypeOK'
    BY <1>5 DEF TimerFires
<1>6. ASSUME NEW i \in MsgIDs, SimulateDeliveryFailure(i) PROVE TypeOK'
    BY <1>6 DEF SimulateDeliveryFailure
<1>7. ASSUME Collect PROVE TypeOK'
    BY <1>7 DEF Collect, Tracked
<1>8. ASSUME NEW m \in Msgs, Decide(m) PROVE TypeOK'
    BY <1>8 DEF Decide, Advance, ShouldSend
<1>9. ASSUME Send PROVE TypeOK'
    <2>1. cur \in Msgs /\ status[cur] \in States
        BY <1>9 DEF Send
    <2>2. CASE receipts' = [receipts EXCEPT ![cur] = Append(@, status[cur])] /\ UNCHANGED refused
        BY <1>9, <2>1, <2>2 DEF Send
    <2>3. CASE refused' = refused \cup {cur} /\ UNCHANGED receipts
        BY <1>9, <2>1, <2>3 DEF Send
    <2>4. QED
        BY <1>9, <2>2, <2>3 DEF Send
<1>10. ASSUME Remove PROVE TypeOK'
    BY <1>10 DEF Remove, Advance
<1>11. ASSUME NEW m \in Msgs, Ripen(m) PROVE TypeOK'
    BY <1>11 DEF Ripen
<1>12. ASSUME NEW m \in Msgs, GetOld(m) PROVE TypeOK'
    BY <1>12 DEF GetOld
<1>13. CASE UNCHANGED vars
    BY <1>13 DEF vars
<1>14. QED
    BY <1>1, <1>2, <1>3, <1>4, <1>5, <1>6, <1>7, <1>8, <1>9, <1>10, <1>11, <1>12, <1>13 DEF Next, Processor

\* A message enters the table under the message_id it keeps.
LEMMA TableStep == Inv /\ [Next]_vars => TableOK'
<1> SUFFICES ASSUME Inv, [Next]_vars PROVE TableOK'
    OBVIOUS
<1> USE ConstantsAssumption DEF Inv, TypeOK, States, Age, RegisteredDelivery, msgVars, Phase, TableOK, SecondOK, CurrentOK, BatchOK, Stored
<1>1. ASSUME NEW m \in Msgs, Draw(m) PROVE TableOK'
    BY <1>1 DEF Draw, MayDraw
<1>2. ASSUME NEW m \in Msgs, Track(m) PROVE TableOK'
    BY <1>2 DEF Track
<1>3. ASSUME NEW m \in Msgs, StartDelivery(m) PROVE TableOK'
    BY <1>3 DEF StartDelivery
<1>4. ASSUME SecondPasses PROVE TableOK'
    BY <1>4 DEF SecondPasses
<1>5. ASSUME NEW m \in Msgs, TimerFires(m) PROVE TableOK'
    BY <1>5 DEF TimerFires
<1>6. ASSUME NEW i \in MsgIDs, SimulateDeliveryFailure(i) PROVE TableOK'
    BY <1>6 DEF SimulateDeliveryFailure
<1>7. ASSUME Collect PROVE TableOK'
    BY <1>7 DEF Collect, Tracked
<1>8. ASSUME NEW m \in Msgs, Decide(m) PROVE TableOK'
    BY <1>8 DEF Decide, Advance, ShouldSend
<1>9. ASSUME Send PROVE TableOK'
    BY <1>9 DEF Send
<1>10. ASSUME Remove PROVE TableOK'
    BY <1>10 DEF Remove, Advance
<1>11. ASSUME NEW m \in Msgs, Ripen(m) PROVE TableOK'
    BY <1>11 DEF Ripen
<1>12. ASSUME NEW m \in Msgs, GetOld(m) PROVE TableOK'
    BY <1>12 DEF GetOld
<1>13. CASE UNCHANGED vars
    BY <1>13 DEF vars
<1>14. QED
    BY <1>1, <1>2, <1>3, <1>4, <1>5, <1>6, <1>7, <1>8, <1>9, <1>10, <1>11, <1>12, <1>13 DEF Next, Processor

\* A message_id is drawn again only while its second lasts, and the second ends for all.
LEMMA SecondStep == Inv /\ [Next]_vars => SecondOK'
<1> SUFFICES ASSUME Inv, [Next]_vars PROVE SecondOK'
    OBVIOUS
<1> USE ConstantsAssumption DEF Inv, TypeOK, States, Age, RegisteredDelivery, msgVars, Phase, TableOK, SecondOK, CurrentOK, BatchOK, Stored
<1>1. ASSUME NEW m \in Msgs, Draw(m) PROVE SecondOK'
    BY <1>1 DEF Draw, MayDraw
<1>2. ASSUME NEW m \in Msgs, Track(m) PROVE SecondOK'
    BY <1>2 DEF Track
<1>3. ASSUME NEW m \in Msgs, StartDelivery(m) PROVE SecondOK'
    BY <1>3 DEF StartDelivery
<1>4. ASSUME SecondPasses PROVE SecondOK'
    BY <1>4 DEF SecondPasses
<1>5. ASSUME NEW m \in Msgs, TimerFires(m) PROVE SecondOK'
    BY <1>5 DEF TimerFires
<1>6. ASSUME NEW i \in MsgIDs, SimulateDeliveryFailure(i) PROVE SecondOK'
    BY <1>6 DEF SimulateDeliveryFailure
<1>7. ASSUME Collect PROVE SecondOK'
    BY <1>7 DEF Collect, Tracked
<1>8. ASSUME NEW m \in Msgs, Decide(m) PROVE SecondOK'
    BY <1>8 DEF Decide, Advance, ShouldSend
<1>9. ASSUME Send PROVE SecondOK'
    BY <1>9 DEF Send
<1>10. ASSUME Remove PROVE SecondOK'
    BY <1>10 DEF Remove, Advance
<1>11. ASSUME NEW m \in Msgs, Ripen(m) PROVE SecondOK'
    BY <1>11 DEF Ripen
<1>12. ASSUME NEW m \in Msgs, GetOld(m) PROVE SecondOK'
    BY <1>12 DEF GetOld
<1>13. CASE UNCHANGED vars
    BY <1>13 DEF vars
<1>14. QED
    BY <1>1, <1>2, <1>3, <1>4, <1>5, <1>6, <1>7, <1>8, <1>9, <1>10, <1>11, <1>12, <1>13 DEF Next, Processor

\* Only Decide starts the handling of a message, taken from the batch.
LEMMA CurrentStep == Inv /\ [Next]_vars => CurrentOK'
<1> SUFFICES ASSUME Inv, [Next]_vars PROVE CurrentOK'
    OBVIOUS
<1> USE ConstantsAssumption DEF Inv, TypeOK, States, Age, RegisteredDelivery, msgVars, Phase, CurrentOK
<1>1. ASSUME NEW m \in Msgs, Draw(m) PROVE CurrentOK'
    BY <1>1 DEF Draw, MayDraw
<1>2. ASSUME NEW m \in Msgs, Track(m) PROVE CurrentOK'
    BY <1>2 DEF Track
<1>3. ASSUME NEW m \in Msgs, StartDelivery(m) PROVE CurrentOK'
    BY <1>3 DEF StartDelivery
<1>4. ASSUME SecondPasses PROVE CurrentOK'
    BY <1>4 DEF SecondPasses
<1>5. ASSUME NEW m \in Msgs, TimerFires(m) PROVE CurrentOK'
    BY <1>5 DEF TimerFires
<1>6. ASSUME NEW i \in MsgIDs, SimulateDeliveryFailure(i) PROVE CurrentOK'
    BY <1>6 DEF SimulateDeliveryFailure
<1>7. ASSUME Collect PROVE CurrentOK'
    BY <1>7 DEF Collect, Tracked
<1>8. ASSUME NEW m \in Msgs, Decide(m) PROVE CurrentOK'
    BY <1>8 DEF Decide, Advance, ShouldSend
<1>9. ASSUME Send PROVE CurrentOK'
    BY <1>9 DEF Send
<1>10. ASSUME Remove PROVE CurrentOK'
    BY <1>10 DEF Remove, Advance
<1>11. ASSUME NEW m \in Msgs, Ripen(m) PROVE CurrentOK'
    BY <1>11 DEF Ripen
<1>12. ASSUME NEW m \in Msgs, GetOld(m) PROVE CurrentOK'
    BY <1>12 DEF GetOld
<1>13. CASE UNCHANGED vars
    BY <1>13 DEF vars
<1>14. QED
    BY <1>1, <1>2, <1>3, <1>4, <1>5, <1>6, <1>7, <1>8, <1>9, <1>10, <1>11, <1>12, <1>13 DEF Next, Processor

\* A submit cannot draw the message_id of a message over a second old.
LEMMA BatchStep == Inv /\ [Next]_vars => BatchOK'
<1> SUFFICES ASSUME Inv, [Next]_vars PROVE BatchOK'
    OBVIOUS
<1> USE ConstantsAssumption DEF Inv, TypeOK, States, Age, RegisteredDelivery, msgVars, Phase, TableOK, SecondOK, CurrentOK, BatchOK, Stored
<1>1. ASSUME NEW m \in Msgs, Draw(m) PROVE BatchOK'
    BY <1>1 DEF Draw, MayDraw
<1>2. ASSUME NEW m \in Msgs, Track(m) PROVE BatchOK'
    BY <1>2 DEF Track
<1>3. ASSUME NEW m \in Msgs, StartDelivery(m) PROVE BatchOK'
    BY <1>3 DEF StartDelivery
<1>4. ASSUME SecondPasses PROVE BatchOK'
    BY <1>4 DEF SecondPasses
<1>5. ASSUME NEW m \in Msgs, TimerFires(m) PROVE BatchOK'
    BY <1>5 DEF TimerFires
<1>6. ASSUME NEW i \in MsgIDs, SimulateDeliveryFailure(i) PROVE BatchOK'
    BY <1>6 DEF SimulateDeliveryFailure
<1>7. ASSUME Collect PROVE BatchOK'
    BY <1>7 DEF Collect, Tracked
<1>8. ASSUME NEW m \in Msgs, Decide(m) PROVE BatchOK'
    BY <1>8 DEF Decide, Advance, ShouldSend
<1>9. ASSUME Send PROVE BatchOK'
    BY <1>9 DEF Send
<1>10. ASSUME Remove PROVE BatchOK'
    BY <1>10 DEF Remove, Advance
<1>11. ASSUME NEW m \in Msgs, Ripen(m) PROVE BatchOK'
    BY <1>11 DEF Ripen
<1>12. ASSUME NEW m \in Msgs, GetOld(m) PROVE BatchOK'
    BY <1>12 DEF GetOld
<1>13. CASE UNCHANGED vars
    BY <1>13 DEF vars
<1>14. QED
    BY <1>1, <1>2, <1>3, <1>4, <1>5, <1>6, <1>7, <1>8, <1>9, <1>10, <1>11, <1>12, <1>13 DEF Next, Processor

\* Send reports a message not reported before; Remove takes it out at once.
LEMMA ReportedStep == Inv /\ [Next]_vars => ReportedOK'
<1> SUFFICES ASSUME Inv, [Next]_vars PROVE ReportedOK'
    OBVIOUS
<1> USE ConstantsAssumption DEF Inv, TypeOK, States, Age, RegisteredDelivery, msgVars, Phase, TableOK, SecondOK, CurrentOK, BatchOK, Stored, ReportedOK, Tracked
<1>1. ASSUME NEW m \in Msgs, Draw(m) PROVE ReportedOK'
    BY <1>1 DEF Draw, MayDraw
<1>2. ASSUME NEW m \in Msgs, Track(m) PROVE ReportedOK'
    BY <1>2 DEF Track
<1>3. ASSUME NEW m \in Msgs, StartDelivery(m) PROVE ReportedOK'
    BY <1>3 DEF StartDelivery
<1>4. ASSUME SecondPasses PROVE ReportedOK'
    BY <1>4 DEF SecondPasses
<1>5. ASSUME NEW m \in Msgs, TimerFires(m) PROVE ReportedOK'
    BY <1>5 DEF TimerFires
<1>6. ASSUME NEW i \in MsgIDs, SimulateDeliveryFailure(i) PROVE ReportedOK'
    BY <1>6 DEF SimulateDeliveryFailure
<1>7. ASSUME Collect PROVE ReportedOK'
    BY <1>7 DEF Collect, Tracked
<1>8. ASSUME NEW m \in Msgs, Decide(m) PROVE ReportedOK'
    BY <1>8 DEF Decide, Advance, ShouldSend
<1>9. ASSUME Send PROVE ReportedOK'
    <2>1. cur \in Msgs /\ cur \in batch /\ receipts[cur] = <<>> /\ Stored(cur)
        BY <1>9 DEF Send
    <2>2. receipts'[cur] = <<>> \/ Len(receipts'[cur]) = 1
        BY <1>9, <2>1 DEF Send
    <2>3. \A m \in Msgs \ {cur} : receipts'[m] = receipts[m]
        BY <1>9, <2>1 DEF Send
    <2>4. QED
        BY <1>9, <2>1, <2>2, <2>3 DEF Send
<1>10. ASSUME Remove PROVE ReportedOK'
    BY <1>10 DEF Remove, Advance
<1>11. ASSUME NEW m \in Msgs, Ripen(m) PROVE ReportedOK'
    BY <1>11 DEF Ripen
<1>12. ASSUME NEW m \in Msgs, GetOld(m) PROVE ReportedOK'
    BY <1>12 DEF GetOld
<1>13. CASE UNCHANGED vars
    BY <1>13 DEF vars
<1>14. QED
    BY <1>1, <1>2, <1>3, <1>4, <1>5, <1>6, <1>7, <1>8, <1>9, <1>10, <1>11, <1>12, <1>13 DEF Next, Processor

\* Where message_ids differ a timer marks its own message.
LEMMA TimelyStep == Inv /\ [Next]_vars => TimelyOK'
<1> SUFFICES ASSUME Inv, [Next]_vars PROVE TimelyOK'
    OBVIOUS
<1> USE ConstantsAssumption DEF Inv, TypeOK, States, Age, RegisteredDelivery, msgVars, Phase, TableOK, SecondOK, CurrentOK, BatchOK, Stored, ReportedOK, TimelyOK, Collided
<1>1. ASSUME NEW m \in Msgs, Draw(m) PROVE TimelyOK'
    BY <1>1 DEF Draw, MayDraw
<1>2. ASSUME NEW m \in Msgs, Track(m) PROVE TimelyOK'
    BY <1>2 DEF Track
<1>3. ASSUME NEW m \in Msgs, StartDelivery(m) PROVE TimelyOK'
    BY <1>3 DEF StartDelivery
<1>4. ASSUME SecondPasses PROVE TimelyOK'
    BY <1>4 DEF SecondPasses
<1>5. ASSUME NEW m \in Msgs, TimerFires(m) PROVE TimelyOK'
    BY <1>5 DEF TimerFires
<1>6. ASSUME NEW i \in MsgIDs, SimulateDeliveryFailure(i) PROVE TimelyOK'
    BY <1>6 DEF SimulateDeliveryFailure
<1>7. ASSUME Collect PROVE TimelyOK'
    BY <1>7 DEF Collect, Tracked
<1>8. ASSUME NEW m \in Msgs, Decide(m) PROVE TimelyOK'
    BY <1>8 DEF Decide, Advance, ShouldSend
<1>9. ASSUME Send PROVE TimelyOK'
    BY <1>9 DEF Send
<1>10. ASSUME Remove PROVE TimelyOK'
    BY <1>10 DEF Remove, Advance
<1>11. ASSUME NEW m \in Msgs, Ripen(m) PROVE TimelyOK'
    BY <1>11 DEF Ripen
<1>12. ASSUME NEW m \in Msgs, GetOld(m) PROVE TimelyOK'
    BY <1>12 DEF GetOld
<1>13. CASE UNCHANGED vars
    BY <1>13 DEF vars
<1>14. QED
    BY <1>1, <1>2, <1>3, <1>4, <1>5, <1>6, <1>7, <1>8, <1>9, <1>10, <1>11, <1>12, <1>13 DEF Next, Processor

\* But for failures the status read by Send is the one read by Decide.
LEMMA RequestedStep == Inv /\ [Next]_vars => RequestedOK'
<1> SUFFICES ASSUME Inv, [Next]_vars PROVE RequestedOK'
    OBVIOUS
<1> USE ConstantsAssumption DEF Inv, TypeOK, States, Age, RegisteredDelivery, msgVars, Phase, TableOK, SecondOK, CurrentOK, BatchOK, Stored, ReportedOK, RequestedOK
<1>1. ASSUME NEW m \in Msgs, Draw(m) PROVE RequestedOK'
    BY <1>1 DEF Draw, MayDraw
<1>2. ASSUME NEW m \in Msgs, Track(m) PROVE RequestedOK'
    BY <1>2 DEF Track
<1>3. ASSUME NEW m \in Msgs, StartDelivery(m) PROVE RequestedOK'
    BY <1>3 DEF StartDelivery
<1>4. ASSUME SecondPasses PROVE RequestedOK'
    BY <1>4 DEF SecondPasses
<1>5. ASSUME NEW m \in Msgs, TimerFires(m) PROVE RequestedOK'
    BY <1>5 DEF TimerFires
<1>6. ASSUME NEW i \in MsgIDs, SimulateDeliveryFailure(i) PROVE RequestedOK'
    BY <1>6 DEF SimulateDeliveryFailure
<1>7. ASSUME Collect PROVE RequestedOK'
    BY <1>7 DEF Collect, Tracked
<1>8. ASSUME NEW m \in Msgs, Decide(m) PROVE RequestedOK'
    BY <1>8 DEF Decide, Advance, ShouldSend
<1>9. ASSUME Send PROVE RequestedOK'
    <2>1. cur \in Msgs /\ cur \in batch /\ receipts[cur] = <<>>
        BY <1>9 DEF Send
    <2>2. cur \notin failed => receipts'[cur] \in {<<>>, <<"delivered">>}
        BY <1>9, <2>1 DEF Send
    <2>3. \A m \in Msgs \ {cur} : receipts'[m] = receipts[m]
        BY <1>9, <2>1 DEF Send
    <2>4. QED
        BY <1>9, <2>1, <2>2, <2>3 DEF Send
<1>10. ASSUME Remove PROVE RequestedOK'
    BY <1>10 DEF Remove, Advance
<1>11. ASSUME NEW m \in Msgs, Ripen(m) PROVE RequestedOK'
    BY <1>11 DEF Ripen
<1>12. ASSUME NEW m \in Msgs, GetOld(m) PROVE RequestedOK'
    BY <1>12 DEF GetOld
<1>13. CASE UNCHANGED vars
    BY <1>13 DEF vars
<1>14. QED
    BY <1>1, <1>2, <1>3, <1>4, <1>5, <1>6, <1>7, <1>8, <1>9, <1>10, <1>11, <1>12, <1>13 DEF Next, Processor

----
THEOREM Invariant == Spec => []Inv
<1>1. Init => Inv
    BY ConstantsAssumption DEF Init, Inv, TypeOK, States, Age, Phase, RegisteredDelivery,
       TableOK, SecondOK, CurrentOK, BatchOK, ReportedOK, TimelyOK, RequestedOK, Stored,
       Collided
<1>2. Inv /\ [Next]_vars => Inv'
    BY TypeStep, TableStep, SecondStep, CurrentStep, BatchStep, ReportedStep, TimelyStep, RequestedStep
    DEF Inv
<1>3. QED
    BY <1>1, <1>2, PTL DEF Spec

\* Every variable keeps its type.
THEOREM TypeCorrect == Spec => []TypeOK
<1>1. Inv => TypeOK
    BY DEF Inv
<1>2. QED
    BY <1>1, Invariant, PTL

\* processDeliveryReceipts reports no message twice, with collisions, late stores and failures.
THEOREM AtMostOneReceiptHolds == Spec => []AtMostOneReceipt
<1>1. Inv => AtMostOneReceipt
    <2> SUFFICES ASSUME Inv, NEW m \in Msgs PROVE Len(receipts[m]) <= 1
        BY DEF AtMostOneReceipt
    <2>1. CASE receipts[m] = <<>>
        BY <2>1
    <2>2. CASE Len(receipts[m]) = 1
        BY <2>2
    <2>3. QED
        BY <2>1, <2>2 DEF Inv, ReportedOK
<1>2. QED
    BY <1>1, Invariant, PTL

\* Removing by message_id takes out no other message than the one reported, but one that
\* was stored after the second of its message_id.
THEOREM RemovesOnlyItsOwnHolds == Spec => []RemovesOnlyItsOwn
<1>1. Inv => RemovesOnlyItsOwn
    BY DEF Inv, CurrentOK, BatchOK, TypeOK, RemovesOnlyItsOwn
<1>2. QED
    BY <1>1, Invariant, PTL

\* Unless message_ids collide no receipt is sent before the message's simulated delivery.
THEOREM NoEarlyReceiptHolds == Spec => []NoEarlyReceipt
<1>1. Inv => NoEarlyReceipt
    BY DEF Inv, TimelyOK, NoEarlyReceipt, Collided
<1>2. QED
    BY <1>1, Invariant, PTL

\* Unless made to fail a message is reported as delivered: only success receipts are sent, and only where asked for.
THEOREM OnlyRequestedReceiptsHolds == Spec => []OnlyRequestedReceipts
<1>1. Inv => OnlyRequestedReceipts
    BY DEF Inv, RequestedOK, OnlyRequestedReceipts
<1>2. QED
    BY <1>1, Invariant, PTL
====
