# A TLA+ model of the SMPP simulators

This directory models the programs of the repository in TLA+: the SMPP server
(`server/server.go`), its client (`client/client.go`), the USSD menu application
(`ussd_simulator/main.go`), and the two programs a user runs against the server, the user
simulator (`user/user.go`) and the USSD console (`ussd_user/`). TLC checks the modules on
small instances; TLAPS proves every safety property, and the refinement, for every value of
the constants. The code is the reference for every definition; `PROJECT.json` gives the lines
each one translates.

## 1. Inventory

| component | state | operations | interacts with |
|---|---|---|---|
| **Client sessions and registry** (server) | `s.sessions` (system_id -> session), per session `bound`, `bindType`, `systemID`, `sequenceNo`, `lastActivity` | accept, bind, unbind, submit_sm, enquire_link, deliver_sm_resp, end of a connection, `SendDeliverSM`, `cleanupSessions` every 30 s | one goroutine per connection; auto-replies, receipts and users call `SendDeliverSM` |
| **Delivery receipts** (server) | `s.trackedMessages` (message_id -> message) | `processMessage`, the simulated delivery, `SimulateDeliveryFailure`, `processDeliveryReceipts` every 2 s | sends through `SendDeliverSM` |
| **USSD sessions** (server) | `s.ussdSessions` (address -> session), `s.sessionCounter` | `getOrCreateUSSDSession`, `handleUSSDRequest`, the choice of a session id in `SendDeliverSM`, `cleanupUssdSessions`, `ExpireUSSDSession` | user messages, submit_sm |
| **User gateway** (server) | `s.userConnections`, `s.mutex`, `session.mutex` | `handleUserConnection`, `processUserMessage`, `SendToUser` | shares `s.mutex` with everything above |
| **PDU codec** (server and client) | none | `buildSubmitSMBody`, `parseSubmitSM`, `buildDeliverSMBody`, `parseDeliverSM`, `extractCString`, `buildTLV` | every handler of either side |
| **SMPP client** | connection, `bound`, `sequenceNo`, `stopReading`, stream position | `Connect`, `Bind`, menu, `SendMessage`, `SendEnquireLink` (ticker), `Unbind`, `receivePDUs` | the server, over TCP |
| **USSD menu application** | `sessions` (sessionId -> menu session), `CurrentMenu`, `History` | `handleUssdMo`, `getSession`, `getMenuResponse` | HTTP with an SDP server |
| **User simulator** (`user/user.go`) | connection, stop channel | typed lines, `receiveMessages` | user port of the server |
| **USSD user console** (`ussd_user/`) | `activeSession`, per session channel, buffer, `closed` | `processUSSDInput`, `listenForResponses`, `handleResponseBuffer`, `displayBufferedResponses` | user port of the server |
| **USSD request model** | none | validation | no caller |
| **Configuration** | none after start | read JSON/YAML once | all |

What is hard here: goroutines that read `session.bound`, tracked messages or `activeSession`
without a lock and act on what they read; two writers of one registry entry; tables keyed by a
name (system_id, message_id, address) whose entries are replaced while pointers to the old ones
are in use; expiry by the clock; read deadlines in the middle of a PDU or a line; writes that
block under a lock; errors that are only logged. `PROJECT.json` lists each such hazard at its
line, with the properties that watch it.

What makes each component correct, in short: the registry names live clients and finds those
that are bound; each `deliver_sm` of a session has a number of its own; a message gets the
receipts it asked for, at most once, and leaves the table; a USSD session belongs to one
address, is kept while alive and removed afterwards; a lock that is wanted is had in the end; a
PDU means to its reader what it meant to its writer; the menu history leads back the way the
user came; the client and the two user programs handle what they are sent, whole, once and in
order.

## 2. Modules

| module | models | used by |
|---|---|---|
| `SmppConnection` | abstract: what one client connection is promised | implemented by `SessionRegistry` |
| `SessionRegistry` | registry, PDU handlers, `SendDeliverSM`, sweep | `MCSessionRegistry`, `SessionRegistryProofs` |
| `DeliveryReceipts` | tracked messages and receipts | `MCDeliveryReceipts`, `DeliveryReceiptsProofs` |
| `UssdSessions` | USSD sessions of the server | `MCUssdSessions`, `UssdSessionsProofs` |
| `ServerLocks` | who waits for whom in the server | `MCServerLocks`, `ServerProofs` |
| `PduCodec` | bodies of submit_sm and deliver_sm | `MCPduCodec`, `ServerProofs` |
| `SmppClient` | the client, with the server as it sees it | `MCSmppClient`, `SmppClientProofs` |
| `UssdMenu` | the menu application | `MCUssdMenu`, `UssdMenuProofs` |
| `UserSimulator` | the user simulator | `MCUserSimulator`, `UserSimulatorProofs` |
| `UssdUser` | the USSD console | `MCUssdUser`, `UssdUserProofs` |

Each `.cfg` is one run and is named like it.

### SessionRegistry

One `pc` per connection goroutine and one `spc` per goroutine in `SendDeliverSM`. A PDU that has
been read (`ReadPDU`) is not yet noted in `lastActivity`, so that the sweep may come between the two;
noting it and the part of its handler that touches only the connection's own session are one step.
What other goroutines can observe is split: `handleBind` sets `bound` (`AcceptBind`), then `bindType`
(`SetBindType`), then the map (`StoreSession`), then answers (`Respond`). `SendDeliverSM` is
`Lookup`, `CheckBound`, `TakeSeq`, `WriteDeliver`, with the error returns `NotFound`, `NotBound`,
`WriteFail`. `ExitLoop` is the deletion by system_id when a connection ends. The configured
system_id is taken to be non-empty (as in `server_config.json`; an empty one is never deleted
by `handleConnection`). A submit starts at most two senders: the auto-reply and the receipt. In
this module a receipt or reply may come at any time after its submit.
The five-minute clock is an event `GoIdle`, which may come at any statement of a handler as well; a
connection is idle until its next PDU is handled.

`ImplementsConnection` is the refinement: the `state` of `SmppConnection` is computed from
`pc`, `closed`, `bound` and `bindType` (`SessionState`), `authenticated` from `sysId`.

### DeliveryReceipts

A message is an object `m`; the table goes by message_id. Time is an age (`fresh`: at most a
second since the submit, `ripe`, `old`: more than an hour), because the code tests nothing else.
A submit draws its message_id without the lock (`Draw`), stores the message (`Track`) and starts the
simulated delivery when `SendToUser` has returned (`StartDelivery`); any time may pass between.
`Collect` is the part of `processDeliveryReceipts` under the lock, `Decide`, `Send`, `Remove`
what it does to each message of the batch afterwards. Four troubles may come at any time: two
messages draw one message_id, a submit is held up until the second of its message_id is over, a
failure is injected, `SendDeliverSM` refuses a receipt; the properties name the messages that meet
one (`Collided`, and the history variables `late`, `failed` and `refused`). `MayDraw` is the
message_id: seconds and nanoseconds modulo 1000, which may be drawn again within its second
(`recent`) only.

### UssdSessions

A session is a number; `ussdSessions` says whose entry it is and `held` is the pointer a request
keeps across an unlock. `ttl` counts ticks to `ExpiryTime`: positive is valid, negative expired,
zero is neither (`Before` and `After` are both strict). A request is either a user's (`create`,
then `moSend`) or the ESME's (`lookup`, `refresh`, `replySend`, with the addresses of the reply
exchanged). A request takes milliseconds and a tick minutes, but a request may wait for a mutex
while a write that holds it blocks. `slow` is a history variable: the requests during which time
has passed, or a session was expired by hand. Only `MessageKeepsSession` speaks of it.

### ServerLocks

One `pc` per goroutine: those of user and client connections, the senders and the sweep. Asking
for `s.mutex` and having it are two locations (`add` and `adding`, for instance). `writer`,
`readers` and `waiting` are the Go `sync.RWMutex`: a writer that waits keeps new readers out, and
when it is done the readers that came meanwhile go before the next writer. `SendToUser` is
`BeginSend`, one `WriteUser` per connection, in any order as Go ranges over a map, and `EndSend`,
all with the read lock. `sendPDU` is `LockSession` and `WritePDU` or `WriteFail`. A write
returns while the peer reads (`HasRoom`), fails when the connection is broken, and otherwise
waits: that is the mood `full`, which a peer may enter and leave at any time. What is sent, and
who is found by a lookup, is left to the other modules.

### PduCodec

A body is a sequence of bytes. The builders append the fields in the order of the code; the
parsers find each offset from the one before with `ExtractCString` and test it where the code
does. A PDU is sent by one side (the client, another ESME that uses `message_payload`, an ESME
that cuts its body short, the server) and read by the other, or refused by `readPDU` for its
length. What a parser does before its loop over the TLVs is one step (`ServerReads`,
`ClientReads`), and each round of the loop is one (`ServerTlv`, `ClientTlv`), with the loop
variable `offset`; so nothing is recursive and the loop has an invariant. The number of values of a byte is the constant `Byte`, and tags and fixed strings are
shortened accordingly; esm_class keeps the one flag that is looked at. `parseDeliverSM` and
`handleDeliverSM` find the text and the TLVs in two ways, which agree because the two times are
always empty in what the server sends; `ParseDeliverSM` is the one, `DeliverTlvs` the other. The
module's names differ from those of `ServerLocks` (`CodecInit`, `codecVars`, ...), so that one
module can hold the proofs of both.

### SmppClient

`main`, `reader` and the ticker share `bound`, `sequenceNo` and the connection. The stream from
the server is counted in chunks, `Parts` to a PDU; `Timeout` drops the `got` chunks of the PDU
being read, after which `Aligned` is false and `ReadGarbage` takes any number of chunks for a
PDU; handling such a PDU may end the program, as `parseDeliverSM` and `extractCString` index what
they are given (`PanicOnGarbage`). `cut` is a history variable: a deadline has passed in the middle
of a PDU. The server sends as `SessionRegistry` lets it: it delivers from when its session is bound
(`serverBound`), so before the bind response too, and in any order of the numbers it gave
(`deliverNo`), since a number is taken and a PDU written in two steps; and it does not close after
its UNBIND_RESP, but when it sweeps the connection or ends. The response map
`respChan` is left out: only `SendPDUAndWait` fills it, and nothing calls it.

### UssdMenu

One goroutine per request; every statement of `getMenuResponse` that reads or writes the session
is a step. Menus are sequences of digits, so that concatenation is what the code does.
`overlapped` is a history variable, the sessions that had two requests in progress at once:
nothing protects their contents, and the properties of contents except them. Torn reads of Go
strings and slices under that data race are left out; what is claimed of overlapping requests,
`SessionLostOnlyByExit`, holds of the locked map whatever the sessions contain.

### UserSimulator

What the server sends is a stream of pieces, every `LineLength`-th of which ends a line, and
arrives cut anywhere. `ReadPiece`, `ReadLine`, `Timeout` and `ReadFail` are the ways on in
`ReadString` with its deadline of 500 ms; `main` types, signals `stop`, closes and ends.

### UssdUser

The console loop, and for each session a listener, a handler and the goroutines of lines that did
not fit in the channel (`spawned`). Each use of `activeSession` that another goroutine may come
before is a step, and each may find it nil (`Panic`); `go listenForResponses(activeSession)` with nil
starts a goroutine that ends the program (`nilListener`, `NilListenerRuns`). `cleared` is the session
whose goroutine has set `activeSession` to nil since the input tested or assigned it. What happens under `session.mu` is one step
with the unlocked read of `closed` before it; so setting `closed` may drop at once all that the
tests of `closed` would drop later (`SetClosed`). The timers are steps that come whenever their
condition may hold. The history variables `forgotten`, `welcomes`, `ignored` and `overflowed` say which
lines a request forgot, which were moved to the top of their menu or replaced there, which were of
a type that is dropped, and whether the channel has been full. What is displayed is given by the places its lines had in the buffer
(`MenuPlaces`): one line that welcomes first, the last of them, then those that do not welcome, in
order. Which lines welcome is left open.

## 3. Runs

Passing runs, with their bounds and why these are enough:

| run | bounds | shows |
|---|---|---|
| `registry_safety` | 2 connections, no sender (these properties do not depend on one; `registry_refines` has two), a sending and a receiving bind, three ways to be refused; fair | `TypeOK`, `NoDeadEntry`, `UnreachableOnlyByRebind`, `IdleSoleClientEvicted`. Two connections are what it takes to fight for an entry; the sweep, a refused bind and an unbind can come anywhere |
| `registry_refines` | 2 connections, 2 senders, 2 numbers, one bind type | `ImplementsConnection`: the refinement of `SmppConnection` with senders racing for numbers |
| `receipts` | 2 messages, 2 message_ids, all troubles; fair | `TypeOK`, `AtMostOneReceipt`, `RemovesOnlyItsOwn`, `OnlyRequestedReceipts`, `NoEarlyReceipt`, `TrackedUntilDone`, `RequestedReceiptSent`: the second message may draw the first one's message_id, or another, and may be stored when the first is in the batch |
| `ussd_sessions` | an address and the empty one, 3 requests, `TTL` 1, 4 sessions; fair | `TypeOK`, `SessionsOwned`, `LiveSessionKept`, `MessageKeepsSession`, `SessionsRemoved`: one request creates a session, one holds it across its removal, one replaces it |
| `server_locks` | 1 user, 1 client, 1 sender, the sweep; fair | `TypeOK`, `SendsToConnected`, `MutexGranted`, `SendToUserEnds`, `SilentClientSwept`: each kind of goroutine that takes a lock, so that a reader, a waiting writer and a late reader meet; `SendsToConnected` is proved for any number |
| `pdu_codec` | bytes of 8 values, addresses of up to 2 and texts of up to 10 bytes, one of 8 bytes that holds a `message_payload`, bodies cut at every byte | `Understood`: texts shorter and longer than the limit of deliver_sm (`Byte - 2`) and than the length byte |
| `client_reads` | 2 chunks per PDU, 2 numbers, 2 deliveries; fair | `TypeOK`, `HandledInOrder`, `HandledAtMostOnce`, `UniqueSequenceNos`, `DeliveriesAnswered`: a PDU that is cut, the one it is misread with, and one after |
| `menu` | 4 requests of a session, 2 at a time, two menu levels | `TypeOK`, `HistoryIsPath`, `ScreenIsCurrent`, `NoPanic`, `SessionLostOnlyByExit`: down two levels, back, and on, or two at work while one exits |
| `user_simulator` | 2 lines of 3 pieces, 2 typed lines | `LostOnlyByDeadline`: a line cut once or twice, and the line after it |
| `ussd_user` | 2 sessions, 2 requests, 2 lines, a channel of 1; fair | `TypeOK`, `NoPanic`, `LinesAccountedFor`, `ShownInOrder`, `ResponseShown`, `GoroutinesEnd`: the end of one session during the start of the next, a line that finds the channel full |

Bounds in the modules: `MaxSeq` (numbers; 2^32 in the code, wrap-around is not modelled), `MaxSid`
and `MaxSessions` (sessions), `MaxDeliver`, `MaxLines`, `MaxTyped` and `MaxRequests` (lines),
`MaxAtOnce`, and the sets of connections, messages and requests, each used once (senders are
used again). A sender that meets `MaxSeq`, or a request that meets `MaxSid`, stops, as if it were
delayed. Runs with symmetry check safety only. `CHECK_DEADLOCK FALSE` is said where a finite
supply of connections, requests, lines or numbers is used up, or the program has ended;
`DeliveryReceipts` never stops and is checked for deadlock.

Each property has a mutant (a definition marked "Mutant", and the entry in `PROJECT.json`): a
plausible bug of the mapped code under which the run finds the property violated.

Runs that expect a violation show where the code does not do what its comments say:

| run | what happens |
|---|---|
| `registry_lost_client` | of two transceivers bound with one system_id one ends: its exit deletes the entry by name, and the other, still bound and reading, is not found |
| `client_timeout` | a read deadline inside a PDU loses the bytes already read |

More that the models show and no run is spent on. Most of it is why a property has the exception
it has.

* Registry: a `deliver_sm` may follow the unbind it raced with (so `SmppConnection` promises only
  that the connection was authenticated); an inactive client that another has replaced in the map
  is never swept.
* Receipts: a message whose receipt `SendDeliverSM` refuses is removed as if it had been sent; a
  failed delivery is never collected, so `RD_FAILURE` receipts are never sent; of two submits that
  draw one message_id the first gets no receipt, or, if the second is stored more than a second
  later, the removal of the first takes out the second (`late`).
* USSD sessions: replies of one service code to several users without a session share the session
  made for the service code.
* Locks: a user that does not read stops the whole server. `SendToUser` waits in its write with
  the read lock, the next connection that ends or binds waits for the write lock, and every lookup
  waits for that. A client that does not read stops those who write to it, the only receipt
  processor among them, until the sweep; if it goes on sending, for good. `SendToUser` writes the
  type SMS whatever was submitted.
* Codec: a text of 256 bytes or more reaches the server cut to its length modulo 256, and if that
  is nothing the rest of the text is read as TLVs: one of the texts of the run holds a
  `message_payload`, and the server takes what is in it for the whole text (`Payloads`).
* Client: the reader stops without reading UNBIND_RESP; after a deadline in the middle of a PDU,
  garbage that passes for a DELIVER_SM may end the program.
* Menu: two back inputs of a session at once may pop an empty history, which ends the program;
  `mo-init` shows the main menu and leaves the session where it was.
* User simulator: the beginning of a line that a deadline cuts is lost. "Explicitly close the
  connection after the receiver has stopped" (`user.go:149`) is not what happens: `main` waits
  100 ms and the receiver may read for 500.
* USSD console: the program ends with a nil pointer when a session ends while the next input is
  being sent, or when a goroutine of an older session clears the one just dialled; a line of four
  parts whose type is neither USSD nor SMS is dropped without a word; an answer that arrives before the buffer is reset is lost; two lines that welcome in
  one menu leave one; "clean up and retry" (`ussd_handler.go:120`) cleans up and does not retry; a
  session dialled while the end of the last one is being noted may be forgotten with its answers.
* Both user programs ignore the error of reading their input: at its end the console loops
  without pause, and the simulator sends empty lines for as long as the connection takes them.

## 4. Fairness

* `SessionRegistry`: the ticker fires (`Cleanup`), a running handler is scheduled, and a read or
  write on a connection the server has closed returns. Nothing makes a client send, read or hang up.
* `DeliveryReceipts`: tickers fire, sleeps end, time passes, and a write to the ESME returns or
  fails. The last is an assumption: `ServerLocks` shows what happens when a client does not read.
  Nothing makes a submit go on, nor `SendToUser` return.
* `UssdSessions`: time passes, the sweep's ticker fires, and a request that has begun goes on.
* `ServerLocks`: strong fairness of each goroutine, because Go's mutexes hand over to a waiter in
  turn (a starving one is served first) and a connection that has room again and again takes what
  is written. Nothing makes a peer read, leave or send.
* `SmppClient`: the reader goroutine is scheduled, and a read does not time out while the first
  chunk of a PDU is there to be read; nothing is assumed of main, the ticker or the server.
* `UssdUser`: goroutines are scheduled, tickers fire, a read of a connection closed at this end
  fails; `Take` is strongly fair because Go's `select` chooses at random between a ready channel
  and a tick. Lines stop coming for a second in the end, since a menu is displayed only then.
* `UssdMenu`, `UserSimulator` and `PduCodec` have safety properties only.

## 5. Proofs

TLAPS checks, for every value of the constants that satisfies the assumptions of the module
(`ConstantsAssumption`, `CodecConstants`, and, for the client, that `None` is not a request), each
theorem for `Spec`, and so for `FairSpec`. Every invariant and every action property of a passing run
has a theorem, and so has the refinement. None of the invariants is inductive alone; each proof
module defines the invariant that is (`Inv`, `CodecInv`, or `TypeOK /\ LinesKnown`), with one
lemma for each part or each action, and one step per action.

* **SessionRegistryProofs.** `TypeOK`, `NoDeadEntry` and `UnreachableOnlyByRebind` are invariants,
  and `Refinement`: `Spec => ImplementsConnection`. `Inv` adds: only the configured system_id is
  ever stored, before `bound` is set, and the sweep closes only sessions that have it
  (`Credentials`); an entry is stored under its own session's
  system_id (`EntryOwned`), so that the deletion by name at the end of a connection takes its own
  entry with it, which is what makes `NoDeadEntry` hold; the unreachable client's property also
  while it is being answered (`Reachable`); what a sender holds at each step (`SendersReady`); a
  number is held by one sender, is not above the counter and is not delivered yet (`Numbering`),
  which the step `Deliver` of the refinement needs (a bind or unbind that is handled after the sweep has
  closed the connection is a stutter); and a session that is bound has a bind type
  unless it is just binding (`Typed`).
* **DeliveryReceiptsProofs.** `TypeOK`, `AtMostOneReceipt`, `RemovesOnlyItsOwn`, `NoEarlyReceipt`,
  `OnlyRequestedReceipts`. The heart is `BatchOK`: what is in the batch is more than a second old,
  so its message_id cannot be drawn again (`SecondOK`), and the entry under it is the message itself,
  nothing, or a message that was stored late. `ReportedOK` follows a reported message out of the table and the batch; `TimelyOK` and
  `RequestedOK` are the parts that hold of messages without collision and without failure.
* **UssdSessionsProofs.** `TypeOK`, `SessionsOwned` and the action properties `LiveSessionKept` and
  `MessageKeepsSession`, from `CounterOK` (numbers above the counter are unused, so that a new
  session is nobody else's), `RequestOK`, and `GivenOK`: as long as no time passes, the session a
  user's request was given stays valid and stays the entry of its address, because no other step
  touches a valid entry (`LiveSessionKept` again).
* **ServerProofs**, for `ServerLocks`: `TypeOK` and `SendsToConnected`. `WritingReads` says that
  `SendToUser` has the read lock while it writes, which keeps the writers of the map out;
  `ClosedUsersGone`, that a user connection is closed only after it has been taken out of the map.
  `NoDeadlock` is the safety that `MutexGranted` and `SilentClientSwept` rest on, and has a theorem
  but no run: while a goroutine is held up at `s.mutex`, one that has it can go on, or is writing to
  a user that does not read; who has the mutex of a session has not `s.mutex`. It follows from
  where the goroutines are that have a lock or wait for one (`MutexPlaces`, `SessionPlaces`). Without
  fairness this is what can be said for any number of users and clients; the runs with liveness have
  one of each.
* **ServerProofs**, for `PduCodec`: `Understood`, for addresses, texts and ids of any number and any
  length. `CodecInv` has to say, beyond `Understood`, which body belongs to the message that is
  under way (`Sent`), and for each round of a parser's loop at which of the TLVs the offset is and
  what is known by then (`ServerLoop`, `ClientLoop`): without that a step of the loop could meet
  anything. The lemmas describe a body as fields at known places (`Holds`): where each builder puts a
  field (`AddressedShape`, `PlainShape`, `DeliverShape`, ...), that `ExtractCString` finds the end of
  a string that is there (`StringAt`), that a two-byte length is read as it was written (`TwoBytes`),
  and, for a cut body, that one of the offsets that are tested is beyond its end (`CutRefused`).
  That `MaxLength` is less than `Byte * Byte` (65519 and 65536) is why the length of a TLV that
  passes `readPDU` does not overflow its field. A client's text whose length is a multiple of a
  byte's size is taken for TLVs at whatever offsets its bytes lead to; the proof shows that what comes
  of it is one of `Payloads`.
* **SmppClientProofs.** `TypeOK`, `HandledInOrder`, `HandledAtMostOnce` and `UniqueSequenceNos`.
  `InStep` counts: while nothing was cut, the reader has taken exactly the PDUs it handled and the
  part in hand; `HandledBefore` is what is left of that after a cut. `NumbersOK` follows a number from
  the counter through the thread that holds it to the wire. The arithmetic of chunks is in lemmas.
* **UssdMenuProofs.** `TypeOK`, `SessionLostOnlyByExit`, `NoPanic`, `HistoryIsPath` and
  `ScreenIsCurrent`. `ObjectsOK` says that an object is the session of one sessionId and untouched
  until it is one, `Exclusive` that requests of one session overlap only where `overlapped` says so:
  together (`Separate`) no request touches the session of another that overlaps with none. So each
  takes its own session along a way through the menus (`PathState`: the way may be in the history
  alone, or in the history and the current menu, depending on the statement) and leaves it at the end
  of one (`Resting`). The lemmas on `IsPath` say how a way grows and shrinks.
* **UserSimulatorProofs.** `TypeOK` and `LostOnlyByDeadline`, from `InOneLine` (a call of
  `ReadString` is inside one line), `Accounted` (what calls that have returned took is printed or
  was dropped) and `ShownOK`.
* **UssdUserProofs.** `TypeOK`, and `NoPanic`: between its test of `activeSession` and its last use
  of it, the console loop has a session unless a goroutine of a session that has ended has taken it
  away since (`KeptInUse`); such a goroutine closes its session before it clears (`EndedFirst`).
  `LinesAccountedFor` and `ShownInOrder` need to know where the lines are that are not
  displayed yet (`LinesKnown`): a line is in one place (`Apart`), what is displayed came before what
  is gathered, and that before what is in the channel, unless the channel has been full; nothing is
  anywhere that has not been read (`Arrived`); nothing is left of a closed session (`Emptied`), which
  is what allows `SetClosed` to drop everything at once. `Placed` adds why a handler may have ended
  with lines left: its session is closed, or is not the active one. The bound of the model on lines is a
  cardinality, so that `TypeOK` rests on the library's theorems on finite sets.

Only model-checked are the ten liveness properties: TLAPS does not reach fairness and `ENABLED`.

## 6. Not modelled

* Configuration files (read once) and `models/ussd_request.go` (no caller). Wording, logging and
  the parsing of a user's line into fields; in `PduCodec`, the binary header of a PDU, whose length
  field is what `SmppClient` counts in chunks.
* `GetMessageStatus`, `GetUSSDSessionInfo`, `Stop`, `SendPDUAndWait`, `sendUssdMenu` (no caller), and
  `handleUssdMt` (no state).
* `extractCString` of the client differs from the server's only for a string without its 0, which
  the server never sends.
* Memory tearing under Go data races, beyond the interleaving of statements.
* Wrap-around of sequence numbers and session numbers.

## 7. What is left

1. `SmppServer`: the composition of registry, receipts and USSD sessions over the calls of
   `SendDeliverSM`, in which a receipt is sent to the session its system_id names at that time and
   the sweep and unbind are why one is refused.
2. An abstract channel that `SmppClient` and `UserSimulator` implement while no deadline cuts, and an
   abstract stack of menus that `UssdMenu` implements while requests do not overlap (`IsPath` is its
   invariant already).
3. A server with two users in `ServerLocks`: it is beyond the time of a run with liveness, so only the
   proof speaks of more than one.
4. What can still be proved: the safety that other liveness properties rest on, as `NoDeadlock` is for
   the locks (for instance that a tracked message is always in reach of a goroutine that removes it),
   and the steps of the refinements of 2.
