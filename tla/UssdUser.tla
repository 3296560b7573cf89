---- MODULE UssdUser ----
(***************************************************************************)
(* The USSD console (ussd_user/src/handlers/ussd_handler.go): the console  *)
(* loop, and for every session a goroutine that reads lines of the server  *)
(* (listenForResponses), one that gathers and displays them                *)
(* (handleResponseBuffer), and one for each line that does not fit in the  *)
(* channel.  They share the global activeSession, which no lock protects,  *)
(* and the fields of the session, of which closed is read without its      *)
(* lock.                                                                   *)
(*                                                                         *)
(* A line is its number on its connection; whether its type is one that is *)
(* displayed is chosen when it is gathered, whether it welcomes or ends    *)
(* the session when it is displayed.  What happens under session.mu        *)
(* is one step, with the reads of closed before it; every use of           *)
(* activeSession that another goroutine may come before is a step of its   *)
(* own.                                                                    *)
(***************************************************************************)
EXTENDS Integers, SequencesExt

CONSTANTS
    MaxSessions,   \* bound: sessions that are created
    MaxRequests,   \* bound: lines typed by the user
    MaxLines,      \* bound: lines read on all connections
    Cap,           \* capacity of ResponseChannel
    None           \* no session

ASSUME ConstantsAssumption ==
    /\ {MaxSessions, MaxRequests, MaxLines, Cap} \subseteq Nat \ {0}
    /\ None \notin 1..MaxSessions

Sessions == 1..MaxSessions
Lines == 1..MaxLines
OptSession == Sessions \cup {None}

VARIABLES
    main,          \* where the console loop is
    conn,          \* OptSession: session whose connection processUSSDInput uses
    activeSession, \* OptSession
    created,       \* 0..MaxSessions: sessions so far
    requests,      \* 0..MaxRequests: lines typed so far
    nilListener,   \* BOOLEAN: listenForResponses(nil) has been started
    cleared,       \* OptSession: ghost, the session whose goroutine was the last to set
                   \* activeSession to nil during the current input, or during an earlier one
                   \* whose listenForResponses(nil) has yet to run
    listener,      \* [Sessions -> locations of listenForResponses]
    handler,       \* [Sessions -> locations of handleResponseBuffer]
    channel,       \* [Sessions -> Seq(Lines)]: ResponseChannel
    spawned,       \* [Sessions -> SUBSET Lines]: lines of goroutines of processResponse
    buffer,        \* [Sessions -> Seq(Lines)]: ResponseBuffer
    closed,        \* [Sessions -> BOOLEAN]: closed
    open,          \* [Sessions -> BOOLEAN]: Connection is not closed
    shown,         \* [Sessions -> Seq(Lines)]: ghost, lines displayed so far
    forgotten,     \* [Sessions -> 0..MaxLines]: ghost, lines read before the last request
    ignored,       \* [Sessions -> SUBSET Lines]: ghost, lines of a type that is not displayed
    welcomes,      \* [Sessions -> SUBSET Lines]: ghost, lines that welcomed and so were
                   \* moved or replaced
    overflowed,    \* [Sessions -> BOOLEAN]: ghost, a line has not fitted in the channel
    count          \* [Sessions -> 0..MaxLines]: lines of the server read so far

mainVars  == <<main, conn, created, requests, nilListener>>
listVars  == <<channel, spawned, buffer>>
ghostVars == <<shown, forgotten, ignored, welcomes, overflowed>>
sessionVars == <<listener, handler, listVars, closed, open, ghostVars, count>>
vars == <<mainVars, activeSession, cleared, sessionVars>>

\* Sets closed.  Whoever has a line of the session then drops it, and what has been gathered
\* is not displayed: all tests of closed come to this.
SetClosed(s) ==
    /\ closed' = [closed EXCEPT ![s] = TRUE]
    /\ channel' = [channel EXCEPT ![s] = <<>>]
    /\ spawned' = [spawned EXCEPT ![s] = {}]
    /\ buffer' = [buffer EXCEPT ![s] = <<>>]

Running == main \notin {"exited", "panicked"}

Init ==
    /\ main = "prompt" /\ conn = None
    /\ created = 0 /\ requests = 0
    /\ activeSession = None /\ nilListener = FALSE /\ cleared = None
    /\ listener = [s \in Sessions |-> "none"]
    /\ handler = [s \in Sessions |-> "none"]
    /\ channel = [s \in Sessions |-> <<>>]
    /\ spawned = [s \in Sessions |-> {}]
    /\ buffer = [s \in Sessions |-> <<>>]
    /\ closed = [s \in Sessions |-> FALSE]
    /\ open = [s \in Sessions |-> FALSE]
    /\ shown = [s \in Sessions |-> <<>>]
    /\ forgotten = [s \in Sessions |-> 0]
    /\ ignored = [s \in Sessions |-> {}]
    /\ welcomes = [s \in Sessions |-> {}]
    /\ overflowed = [s \in Sessions |-> FALSE]
    /\ count = [s \in Sessions |-> 0]

----
(* The console loop.  Every step after the first uses activeSession again: when that is *)
(* nil by then, the program panics.                                                     *)

MainGoes(from, to) == Running /\ main = from /\ main' = to

\* What the console loop goes on with, having found activeSession # nil before.
Panic(from) ==
    /\ MainGoes(from, "panicked")
    /\ activeSession = None
    /\ UNCHANGED <<conn, created, requests, nilListener, activeSession, cleared,
                   sessionVars>>

\* A line that is not empty: either it ends the program or it is a request.
Type ==
    /\ requests < MaxRequests
    /\ requests' = requests + 1
    /\ cleared' = IF nilListener THEN cleared ELSE None
    /\ \/ MainGoes("prompt", IF activeSession = None THEN "dial" ELSE "check")
       \/ MainGoes("prompt", IF activeSession = None THEN "exited" ELSE "leave")
    /\ UNCHANGED <<conn, created, nilListener, activeSession, sessionVars>>

\* "exit" with a session.
Leave ==
    /\ MainGoes("leave", "exited")
    /\ activeSession # None
    /\ open' = [open EXCEPT ![activeSession] = FALSE]
    /\ activeSession' = None
    /\ UNCHANGED <<conn, created, requests, nilListener, cleared, listener, handler,
                   listVars, closed, ghostVars, count>>

\* Mutant: conn is assigned to a new variable of the inner block.
CheckShadowsConn ==
    /\ activeSession # None
    /\ MainGoes("check", IF closed[activeSession] THEN "dial" ELSE "write")
    /\ UNCHANGED <<conn, created, requests, nilListener, activeSession, cleared,
                   sessionVars>>

\* "Check if we have an active session and it's not closed": the connection is reused.
Check ==
    /\ activeSession # None
    /\ MainGoes("check", IF closed[activeSession] THEN "dial" ELSE "write")
    /\ conn' = IF closed[activeSession] THEN conn ELSE activeSession
    /\ UNCHANGED <<created, requests, nilListener, activeSession, cleared, listener,
                   handler, listVars, closed, open, ghostVars, count>>

Dial ==
    /\ created < MaxSessions
    /\ MainGoes("dial", "start")
    /\ LET s == created + 1
       IN  /\ created' = s
           /\ conn' = s
           /\ activeSession' = s
           /\ open' = [open EXCEPT ![s] = TRUE]
    /\ UNCHANGED <<requests, nilListener, cleared, listener, handler, listVars, closed,
                   ghostVars, count>>

\* "go listenForResponses(activeSession)", which starts handleResponseBuffer.
Start ==
    /\ MainGoes("start", "write")
    /\ IF activeSession # None
       THEN /\ listener' = [listener EXCEPT ![activeSession] = "read"]
            /\ handler' = [handler EXCEPT ![activeSession] = "select"]
            /\ UNCHANGED nilListener
       ELSE /\ nilListener' = TRUE
            /\ UNCHANGED <<listener, handler>>
    /\ UNCHANGED <<conn, created, requests, activeSession, cleared, listVars, closed, open,
                   ghostVars, count>>

\* session.Connection of nil, as soon as that goroutine runs.
NilListenerRuns ==
    /\ Running /\ nilListener
    /\ main' = "panicked"
    /\ UNCHANGED <<conn, created, requests, nilListener, activeSession, cleared, listener,
                   handler, listVars, closed, open, ghostVars, count>>

\* Mutant: the error of Dial is only logged.
DialFailGoesOn ==
    /\ MainGoes("dial", "reset")
    /\ UNCHANGED <<conn, created, requests, nilListener, activeSession, cleared,
                   sessionVars>>

DialFail ==
    /\ MainGoes("dial", "prompt")
    /\ UNCHANGED <<conn, created, requests, nilListener, activeSession, cleared,
                   sessionVars>>

\* Only a connection closed at this end fails for certain.
Write ==
    /\ MainGoes("write", "reset")
    /\ open[conn]
    /\ conn' = None
    /\ UNCHANGED <<created, requests, nilListener, activeSession, cleared, sessionVars>>

WriteFail ==
    /\ MainGoes("write", IF activeSession = None THEN "prompt" ELSE "cleanup")
    /\ conn' = None
    /\ UNCHANGED <<created, requests, nilListener, activeSession, cleared, sessionVars>>

CleanUp ==
    /\ MainGoes("cleanup", "prompt")
    /\ activeSession # None
    /\ SetClosed(activeSession)
    /\ open' = [open EXCEPT ![activeSession] = FALSE]
    /\ activeSession' = None
    /\ UNCHANGED <<conn, created, requests, nilListener, cleared, listener, handler,
                   ghostVars, count>>

\* After the request has been written, what has been gathered until then is dropped.
Reset ==
    /\ MainGoes("reset", "prompt")
    /\ activeSession # None
    /\ buffer' = [buffer EXCEPT ![activeSession] = <<>>]
    /\ forgotten' = [forgotten EXCEPT ![activeSession] = count[activeSession]]
    /\ UNCHANGED <<conn, created, requests, nilListener, activeSession, cleared, listener,
                   handler, channel, spawned, closed, open, shown, ignored, welcomes,
                   overflowed, count>>

----
(* listenForResponses and processResponse *)

\* The lines of all connections that have been read.
LinesRead == {r \in Sessions \X Lines : r[2] <= count[r[1]]}

\* Mutant: a line that does not fit in the channel is dropped.
ReadDrops(s) ==
    /\ Running /\ listener[s] = "read"
    /\ open[s] /\ Cardinality(LinesRead) < MaxLines
    /\ count' = [count EXCEPT ![s] = @ + 1]
    /\ channel' = IF closed[s] \/ Len(channel[s]) = Cap THEN channel
                  ELSE [channel EXCEPT ![s] = Append(@, count[s] + 1)]
    /\ UNCHANGED <<mainVars, activeSession, cleared, listener, handler, spawned, buffer,
                   closed, open, ghostVars>>

\* Reads a line and hands it on: dropped when the session is closed, put into the channel,
\* or, when that is full, given to a goroutine of its own.
Read(s) ==
    /\ Running /\ listener[s] = "read"
    /\ open[s] /\ Cardinality(LinesRead) < MaxLines
    /\ count' = [count EXCEPT ![s] = @ + 1]
    /\ LET line == count[s] + 1
           fits == Len(channel[s]) < Cap
       IN  IF closed[s] THEN UNCHANGED <<channel, spawned, overflowed>>
           ELSE /\ channel' = IF fits THEN [channel EXCEPT ![s] = Append(@, line)]
                                      ELSE channel
                /\ spawned' = IF fits THEN spawned
                                      ELSE [spawned EXCEPT ![s] = @ \cup {line}]
                /\ overflowed' = [overflowed EXCEPT ![s] = @ \/ ~fits]
    /\ UNCHANGED <<mainVars, activeSession, cleared, listener, handler, buffer, closed,
                   open, shown, forgotten, ignored, welcomes>>

\* The connection has been closed, or it breaks, or the server closes it; then our end is
\* not closed.
ReadFail(s) ==
    /\ Running /\ listener[s] = "read"
    /\ listener' = [listener EXCEPT ![s] = "compare"]
    /\ SetClosed(s)
    /\ UNCHANGED <<mainVars, activeSession, cleared, handler, open, ghostVars, count>>

\* "if activeSession == session"
ListenerCompares(s) ==
    /\ Running /\ listener[s] = "compare"
    /\ listener' = [listener EXCEPT ![s] = IF activeSession = s THEN "clear" ELSE "ended"]
    /\ UNCHANGED <<mainVars, activeSession, cleared, handler, listVars, closed, open,
                   ghostVars, count>>

ListenerClears(s) ==
    /\ Running /\ listener[s] = "clear"
    /\ listener' = [listener EXCEPT ![s] = "ended"]
    /\ activeSession' = None
    /\ cleared' = s
    /\ UNCHANGED <<mainVars, handler, listVars, closed, open, ghostVars, count>>

\* processResponse: line l is added to the buffer, or it has four parts, and a type that is
\* neither USSD nor SMS, and is dropped.
Gather(s, l) ==
    /\ \/ buffer' = [buffer EXCEPT ![s] = Append(@, l)] /\ UNCHANGED ignored
       \/ ignored' = [ignored EXCEPT ![s] = @ \cup {l}] /\ UNCHANGED buffer
    /\ UNCHANGED <<shown, forgotten, welcomes, overflowed>>

\* A goroutine of processResponse for a line that did not fit.
ProcessSpawned(s, l) ==
    /\ Running
    /\ l \in spawned[s]
    /\ spawned' = [spawned EXCEPT ![s] = @ \ {l}]
    /\ Gather(s, l)
    /\ UNCHANGED <<mainVars, activeSession, cleared, listener, handler, channel, closed,
                   open, count>>

----
(* handleResponseBuffer and displayBufferedResponses *)

HandlerGoes(s, from, to) ==
    Running /\ handler[s] = from /\ handler' = [handler EXCEPT ![s] = to]

Take(s) ==
    /\ Running /\ handler[s] = "select" /\ channel[s] # <<>>
    /\ channel' = [channel EXCEPT ![s] = Tail(@)]
    /\ Gather(s, Head(channel[s]))
    /\ UNCHANGED <<mainVars, activeSession, cleared, listener, handler, spawned, closed,
                   open, count>>

\* The places in buf of the lines of a menu, given the places of those that welcome: the last
\* of these comes first, then all that do not welcome, in their order.
MenuPlaces(buf, welcoming) ==
    {at \in UNION {[1..n -> DOMAIN buf] : n \in DOMAIN buf} :
        /\ \A i, j \in DOMAIN at :
              i < j => at[j] \notin welcoming /\ (at[i] \in welcoming \/ at[i] < at[j])
        /\ \A i \in DOMAIN buf \ ToSet(at) :
              i \in welcoming /\ \E k \in welcoming \cap ToSet(at) : i < k}

\* displayBufferedResponses, given the places of the lines that welcome.
Shows(s, welcoming) ==
    \E at \in MenuPlaces(buffer[s], welcoming) :
        LET menu == [i \in DOMAIN at |-> buffer[s][at[i]]]
        IN  /\ shown' = [shown EXCEPT ![s] = @ \o menu]
            /\ welcomes' = [welcomes EXCEPT ![s] =
                   IF menu = buffer[s] THEN @ ELSE @ \cup {buffer[s][i] : i \in welcoming}]

\* Mutant: the buffer is not cleared.
DisplayKeeps(s) ==
    /\ Running /\ handler[s] = "select"
    /\ buffer[s] # <<>> /\ Len(shown[s]) < MaxLines
    /\ \E welcoming \in SUBSET DOMAIN buffer[s] : Shows(s, welcoming)
    /\ UNCHANGED <<mainVars, activeSession, cleared, listener, handler, listVars, closed,
                   open, forgotten, ignored, overflowed, count>>

\* A tick with more than a second since the last line and the last request, however long
\* that takes: what has been gathered is displayed as one menu.
Display(s) ==
    /\ Running /\ handler[s] = "select"
    /\ buffer[s] # <<>>
    /\ \E welcoming \in SUBSET DOMAIN buffer[s] : Shows(s, welcoming)
    /\ buffer' = [buffer EXCEPT ![s] = <<>>]
    /\ UNCHANGED <<mainVars, activeSession, cleared, listener, handler, channel, spawned,
                   closed, open, forgotten, ignored, overflowed, count>>

\* Mutant: the connection is not closed.
DisplayEndLeavesOpen(s) ==
    /\ buffer[s] # <<>>
    /\ HandlerGoes(s, "select", "compare")
    /\ \E welcoming \in SUBSET DOMAIN buffer[s] : Shows(s, welcoming)
    /\ SetClosed(s)
    /\ UNCHANGED <<mainVars, activeSession, cleared, listener, open, forgotten, ignored,
                   overflowed, count>>

\* The same with a line after which the session is closed ("Session ended.").
DisplayEnd(s) ==
    /\ buffer[s] # <<>>
    /\ HandlerGoes(s, "select", "compare")
    /\ \E welcoming \in SUBSET DOMAIN buffer[s] : Shows(s, welcoming)
    /\ SetClosed(s)
    /\ open' = [open EXCEPT ![s] = FALSE]
    /\ UNCHANGED <<mainVars, activeSession, cleared, listener, forgotten, ignored,
                   overflowed, count>>

HandlerCompares(s) ==
    /\ HandlerGoes(s, "compare", IF activeSession = s THEN "clear" ELSE "select")
    /\ UNCHANGED <<mainVars, activeSession, cleared, listener, listVars, closed, open,
                   ghostVars, count>>

HandlerClears(s) ==
    /\ HandlerGoes(s, "clear", "select")
    /\ activeSession' = None
    /\ cleared' = s
    /\ UNCHANGED <<mainVars, listener, listVars, closed, open, ghostVars, count>>

\* Mutant: the goroutine also ends when there is nothing to do.
HandlerEndsIdle(s) ==
    /\ HandlerGoes(s, "select", "ended")
    /\ activeSession # s \/ closed[s] \/ (channel[s] = <<>> /\ buffer[s] = <<>>)
    /\ UNCHANGED <<mainVars, activeSession, cleared, listener, listVars, closed, open,
                   ghostVars, count>>

\* "Check if session is still active", at a tick.
HandlerEnds(s) ==
    /\ HandlerGoes(s, "select", "ended")
    /\ activeSession # s \/ closed[s]
    /\ UNCHANGED <<mainVars, activeSession, cleared, listener, listVars, closed, open,
                   ghostVars, count>>

----
Console ==
    \/ \E from \in {"leave", "check", "cleanup", "reset"} : Panic(from)
    \/ Leave \/ Check \/ Dial \/ DialFail \/ Start \/ NilListenerRuns
    \/ Write \/ WriteFail \/ CleanUp \/ Reset

Listener(s) == Read(s) \/ ReadFail(s) \/ ListenerCompares(s) \/ ListenerClears(s)

\* What handleResponseBuffer does for a tick.
Ticks(s) ==
    Display(s) \/ DisplayEnd(s) \/ HandlerCompares(s) \/ HandlerClears(s) \/ HandlerEnds(s)

Next ==
    \/ Type \/ Console
    \/ \E s \in Sessions :
          \/ Listener(s) \/ Take(s) \/ Ticks(s) \/ \E l \in spawned[s] : ProcessSpawned(s, l)

Spec == Init /\ [][Next]_vars

\* Goroutines go on, also past a select with two ready cases, and a read of a closed
\* connection fails; lines stop coming for a second.
Fairness ==
    \A s \in Sessions :
        /\ WF_vars(Listener(s) /\ (listener[s] = "read" => ~open[s]))
        /\ SF_vars(Take(s)) /\ WF_vars(Ticks(s))
        /\ \A l \in Lines : WF_vars(ProcessSpawned(s, l))

FairSpec == Spec /\ Fairness

----
(* Properties. *)

\* Every variable keeps its type.
TypeOK ==
    /\ main \in {"prompt", "check", "leave", "dial", "start", "write", "cleanup", "reset",
                 "exited", "panicked"}
    /\ conn \in OptSession /\ activeSession \in OptSession
    /\ created \in 0..MaxSessions /\ requests \in 0..MaxRequests
    /\ nilListener \in BOOLEAN /\ cleared \in OptSession
    /\ listener \in [Sessions -> {"none", "read", "compare", "clear", "ended"}]
    /\ handler \in [Sessions -> {"none", "select", "compare", "clear", "ended"}]
    /\ channel \in [Sessions -> Seq(Lines)]
    /\ spawned \in [Sessions -> SUBSET Lines]
    /\ buffer \in [Sessions -> Seq(Lines)]
    /\ closed \in [Sessions -> BOOLEAN]
    /\ open \in [Sessions -> BOOLEAN]
    /\ overflowed \in [Sessions -> BOOLEAN]
    /\ shown \in [Sessions -> Seq(Lines)]
    /\ forgotten \in [Sessions -> 0..MaxLines]
    /\ count \in [Sessions -> 0..MaxLines]
    /\ ignored \in [Sessions -> SUBSET Lines] /\ welcomes \in [Sessions -> SUBSET Lines]
    /\ main \in {"start", "write"} => conn # None

\* The program uses a session that is nil only when a goroutine of a session that has ended
\* set activeSession to nil after the console had tested or assigned it for the input at hand
\* (or for the one that started listenForResponses(nil)).  The session that ended need not be
\* the one in use: an older one's goroutine that has compared before clears a new one too.
NoPanic == main = "panicked" => cleared # None /\ closed[cleared]

\* Lines that the display goroutine has yet to display, as long as it runs.
OnItsWay(s) ==
    IF handler[s] = "ended" THEN {}
    ELSE ToSet(channel[s]) \cup spawned[s] \cup ToSet(buffer[s])

\* A line that has been read is displayed or on its way to a display that runs, as long as
\* the session is open and has its place in activeSession.  It is lost only when its type is
\* not one to be displayed, when a request is sent after it (and then the answers to this
\* request may be lost), or when another line of the same menu welcomes too.
LinesAccountedFor ==
    \A s \in Sessions : ~closed[s] =>
        \A l \in 1..count[s] :
            \/ l \in ToSet(shown[s]) \cup OnItsWay(s)
            \/ l \in ignored[s] \/ l <= forgotten[s]
            \/ l \in welcomes[s]
               /\ \E k \in welcomes[s] \cap ToSet(shown[s]) : k > l \/ overflowed[s]
            \/ handler[s] = "ended" /\ activeSession # s

\* Lines are displayed in the order in which the server sent them, and once, but for a
\* line that welcomes, which comes first on its menu, and unless the channel has been full.
ShownInOrder ==
    \A s \in Sessions : \A i, j \in DOMAIN shown[s] :
        i < j => LET first == shown[s][i]
                     later == shown[s][j]
                 IN  /\ first # later
                     /\ first < later \/ first \in welcomes[s] \/ overflowed[s]

\* What has been gathered is displayed or forgotten, also when the user only waits, unless
\* the session ends or its place is taken.
ResponseShown ==
    \A s \in Sessions :
        buffer[s] # <<>> ~> \/ buffer[s] = <<>> \/ closed[s] \/ activeSession # s
                            \/ ~Running

\* A session that is closed leaves no goroutine behind: its listener reads an error and its
\* handler sees closed at a tick.
GoroutinesEnd ==
    \A s \in Sessions :
        closed[s] ~> (listener[s] = "ended" /\ handler[s] = "ended") \/ ~Running
====
