---- MODULE UssdMenu ----
(***************************************************************************)
(* The USSD application of ussd_simulator/main.go: menu sessions, and one  *)
(* goroutine for each HTTP request /ussd/mo, which is acknowledged before  *)
(* the goroutine does its work.                                            *)
(*                                                                         *)
(* The map of sessions is locked, the sessions are not: getMenuResponse    *)
(* reads and writes CurrentMenu and History of a session that another      *)
(* goroutine may be using, so each statement of it is a step of its own.   *)
(* (That a string or slice read during a write may be torn is left out:    *)
(* what is claimed of a session on which requests overlap holds of the     *)
(* locked map, whatever the sessions contain.)  A session is an object,    *)
(* named by the request that created it, and outlives its entry in the     *)
(* map.                                                                    *)
(*                                                                         *)
(* A menu is the sequence of digits of its key in ussdmenu.items, an input *)
(* a sequence of digits.  Abstracted: menu texts, JSON, and the SDP        *)
(* server, reduced to what the user of a session was last shown.           *)
(***************************************************************************)
EXTENDS Integers, FiniteSets, SequencesExt

CONSTANTS
    Requests,    \* the HTTP requests
    SessionIds,  \* values of sessionId
    Items,       \* keys of ussdmenu.items, each a sequence of digits
    Inputs,      \* what users type, each a sequence of digits
    ExitKey,     \* ussd_controls.exit_key
    BackKey,     \* ussd_controls.back_key
    None,        \* no request, no session, no menu
    MaxAtOnce    \* bound: requests in progress at a time

Main == <<0>>                        \* CurrentMenu "0"
Ops == {"mo-init", "mo-cont", "other"}
End == <<>>                         \* the exit message, in place of a menu

ASSUME ConstantsAssumption ==
    /\ Main \in Items /\ Items \subseteq Seq(Nat) \ {End}
    /\ Inputs \subseteq Seq(Nat) /\ ExitKey # BackKey
    /\ None \notin Requests \cup SessionIds

VARIABLES
    sessions,     \* [SessionIds -> Requests \cup {None}]: sessions, by creating request
    currentMenu,  \* [Requests -> Items]: CurrentMenu of the session created by a request
    history,      \* [Requests -> Seq(Items)]: its History
    pc,           \* [Requests -> Location]: where the goroutine of a request is
    op,           \* [Requests -> Ops]: ussdOperation
    sid,          \* [Requests -> SessionIds \cup {None}]: sessionId
    input,        \* [Requests -> Inputs \cup {None}]: message
    session,      \* [Requests -> Requests \cup {None}]: session pointer it holds
    nextMenu,     \* [Requests -> menu or None]: nextMenu, once found in Items
    reply,        \* [Requests -> Items \cup {End, None}]: menu in the response
    shown,        \* [SessionIds -> response or None]: last response the user got
    panicked,     \* BOOLEAN: index or slice out of range, which ends the program
    overlapped,   \* history: the sessionIds that had two requests in progress at once
    dropped       \* history: the sessions that a request to exit took out of the map

reqVars == <<op, sid, input>>
vars == <<sessions, currentMenu, history, pc, op, sid, input, session, nextMenu, reply,
          shown, panicked, overlapped, dropped>>

Location == {"new", "getSession", "process", "popMenu", "popHistory", "showCurrent",
             "push", "enter", "drop", "send", "done"}

Init ==
    /\ sessions = [i \in SessionIds |-> None]
    /\ currentMenu = [r \in Requests |-> Main]
    /\ history = [r \in Requests |-> <<>>]
    /\ pc = [r \in Requests |-> "new"]
    /\ op = [r \in Requests |-> "other"]
    /\ sid = [r \in Requests |-> None]
    /\ input = [r \in Requests |-> None]
    /\ session = [r \in Requests |-> None]
    /\ nextMenu = [r \in Requests |-> None]
    /\ reply = [r \in Requests |-> None]
    /\ shown = [i \in SessionIds |-> None]
    /\ panicked = FALSE
    /\ overlapped = {}
    /\ dropped = {}

InProgress(r) == pc[r] \notin {"new", "done"}
Quiet(i) == \A r \in Requests : sid[r] = i => ~InProgress(r)

\* Goroutine r goes from one location to another, while the program runs.
Goes(r, from, to) ==
    /\ ~panicked
    /\ pc[r] = from
    /\ pc' = [pc EXCEPT ![r] = to]

----
\* handleUssdMo acknowledges the request and starts the goroutine.
Arrive(r) ==
    /\ Goes(r, "new", "getSession")
    /\ Cardinality({q \in Requests : InProgress(q)}) < MaxAtOnce
    /\ \E i \in SessionIds :
          /\ sid' = [sid EXCEPT ![r] = i]
          /\ overlapped' = IF Quiet(i) THEN overlapped ELSE overlapped \cup {i}
    /\ \E o \in Ops, x \in Inputs :
          /\ op' = [op EXCEPT ![r] = o]
          /\ input' = [input EXCEPT ![r] = x]
    /\ UNCHANGED <<sessions, currentMenu, history, session, nextMenu, reply, shown, panicked, dropped>>

\* Mutant: the map is read before another goroutine has put its session into it.
GetSessionUnlocked(r) ==
    /\ Goes(r, "getSession", "process")
    /\ \E q \in {r, sessions[sid[r]]} \ {None} :
          /\ sessions' = [sessions EXCEPT ![sid[r]] = q]
          /\ session' = [session EXCEPT ![r] = q]
    /\ UNCHANGED <<currentMenu, history, reqVars, nextMenu, reply, shown, panicked, overlapped, dropped>>

\* getSession, under the lock: the session of sessionId, created at the main menu.
GetSession(r) ==
    /\ Goes(r, "getSession", "process")
    /\ LET created == sessions[sid[r]] = None
           s == IF created THEN r ELSE sessions[sid[r]]
       IN  /\ sessions' = [sessions EXCEPT ![sid[r]] = s]
           /\ session' = [session EXCEPT ![r] = s]
    /\ UNCHANGED <<currentMenu, history, reqVars, nextMenu, reply, shown, panicked, overlapped, dropped>>

\* mo-init: the main menu, whatever the session's current menu is.
ShowMain(r) ==
    /\ Goes(r, "process", "send")
    /\ op[r] = "mo-init"
    /\ reply' = [reply EXCEPT ![r] = Main]
    /\ UNCHANGED <<sessions, currentMenu, history, reqVars, session, nextMenu, shown, panicked, overlapped, dropped>>

\* An unexpected operation: "Invalid request" and the current menu.
Unexpected(r) ==
    /\ Goes(r, "process", "showCurrent")
    /\ op[r] = "other"
    /\ UNCHANGED <<sessions, currentMenu, history, reqVars, session, nextMenu, reply, shown, panicked, overlapped, dropped>>

----
(* getMenuResponse *)

Exit(r) ==
    /\ Goes(r, "process", "drop")
    /\ op[r] = "mo-cont"
    /\ input[r] = ExitKey
    /\ reply' = [reply EXCEPT ![r] = End]
    /\ UNCHANGED <<sessions, currentMenu, history, reqVars, session, nextMenu, shown, panicked, overlapped, dropped>>

\* Back key, nothing in History: the main menu.
BackToMain(r) ==
    /\ Goes(r, "process", "showCurrent")
    /\ op[r] = "mo-cont"
    /\ input[r] = BackKey
    /\ history[session[r]] = <<>>
    /\ currentMenu' = [currentMenu EXCEPT ![session[r]] = Main]
    /\ UNCHANGED <<sessions, history, reqVars, session, nextMenu, reply, shown, panicked, overlapped, dropped>>

\* Mutant: the length of History is not tested.
BackUntested(r) ==
    /\ Goes(r, "process", "popMenu")
    /\ op[r] = "mo-cont"
    /\ input[r] = BackKey
    /\ UNCHANGED <<sessions, currentMenu, history, reqVars, session, nextMenu, reply, shown, panicked, overlapped, dropped>>

\* Back key: len(session.History) > 0.
Back(r) ==
    /\ Goes(r, "process", "popMenu")
    /\ op[r] = "mo-cont"
    /\ input[r] = BackKey
    /\ history[session[r]] # <<>>
    /\ UNCHANGED <<sessions, currentMenu, history, reqVars, session, nextMenu, reply, shown, panicked, overlapped, dropped>>

\* session.CurrentMenu = session.History[len(session.History)-1]
PopMenu(r) ==
    /\ Goes(r, "popMenu", "popHistory")
    /\ history[session[r]] # <<>>
    /\ currentMenu' = [currentMenu EXCEPT ![session[r]] = Last(history[session[r]])]
    /\ UNCHANGED <<sessions, history, reqVars, session, nextMenu, reply, shown, panicked, overlapped, dropped>>

\* session.History = session.History[:len(session.History)-1]
PopHistory(r) ==
    /\ Goes(r, "popHistory", "showCurrent")
    /\ history[session[r]] # <<>>
    /\ history' = [history EXCEPT ![session[r]] = Front(@)]
    /\ UNCHANGED <<sessions, currentMenu, reqVars, session, nextMenu, reply, shown, panicked, overlapped, dropped>>

\* Both statements on a History that another goroutine has emptied meanwhile.
PanicInBack(r) ==
    /\ ~panicked
    /\ pc[r] \in {"popMenu", "popHistory"}
    /\ history[session[r]] = <<>>
    /\ panicked' = TRUE
    /\ UNCHANGED <<sessions, currentMenu, history, pc, reqVars, session, nextMenu, reply, shown,
                   overlapped, dropped>>

\* From the main menu the input is the key of the next menu; from another, a suffix.
MenuAfter(menu, x) == IF menu = Main THEN x ELSE menu \o x

\* Mutant: the menu is not looked up before it is entered.
ChooseUnknown(r) ==
    /\ Goes(r, "process", "push")
    /\ op[r] = "mo-cont"
    /\ input[r] \notin {ExitKey, BackKey}
    /\ nextMenu' = [nextMenu EXCEPT ![r] = MenuAfter(currentMenu[session[r]], input[r])]
    /\ UNCHANGED <<sessions, currentMenu, history, reqVars, session, reply, shown, panicked, overlapped, dropped>>

\* Another input, which leads to a menu of the configuration.
Choose(r) ==
    /\ Goes(r, "process", "push")
    /\ op[r] = "mo-cont"
    /\ input[r] \notin {ExitKey, BackKey}
    /\ MenuAfter(currentMenu[session[r]], input[r]) \in Items
    /\ nextMenu' = [nextMenu EXCEPT ![r] = MenuAfter(currentMenu[session[r]], input[r])]
    /\ UNCHANGED <<sessions, currentMenu, history, reqVars, session, reply, shown, panicked, overlapped, dropped>>

\* Mutant: the menu is saved after the move, so the new one is.
PushEntered(r) ==
    /\ Goes(r, "push", "enter")
    /\ history' = [history EXCEPT ![session[r]] = Append(@, nextMenu[r])]
    /\ UNCHANGED <<sessions, currentMenu, reqVars, session, nextMenu, reply, shown, panicked, overlapped, dropped>>

\* session.History = append(session.History, session.CurrentMenu)
Push(r) ==
    /\ Goes(r, "push", "enter")
    /\ history' = [history EXCEPT ![session[r]] = Append(@, currentMenu[session[r]])]
    /\ UNCHANGED <<sessions, currentMenu, reqVars, session, nextMenu, reply, shown, panicked, overlapped, dropped>>

\* Mutant: the response is the text of the menu that is left.
EnterShowsLeft(r) ==
    /\ Goes(r, "enter", "send")
    /\ currentMenu' = [currentMenu EXCEPT ![session[r]] = nextMenu[r]]
    /\ reply' = [reply EXCEPT ![r] = currentMenu[session[r]]]
    /\ UNCHANGED <<sessions, history, reqVars, session, nextMenu, shown, panicked, overlapped, dropped>>

\* session.CurrentMenu = nextMenu, and its text is the response.
Enter(r) ==
    /\ Goes(r, "enter", "send")
    /\ currentMenu' = [currentMenu EXCEPT ![session[r]] = nextMenu[r]]
    /\ reply' = [reply EXCEPT ![r] = nextMenu[r]]
    /\ UNCHANGED <<sessions, history, reqVars, session, nextMenu, shown, panicked, overlapped, dropped>>

\* Another input that leads nowhere: "Invalid option" and the current menu.
Invalid(r) ==
    /\ Goes(r, "process", "showCurrent")
    /\ op[r] = "mo-cont"
    /\ input[r] \notin {ExitKey, BackKey}
    /\ MenuAfter(currentMenu[session[r]], input[r]) \notin Items
    /\ UNCHANGED <<sessions, currentMenu, history, reqVars, session, nextMenu, reply, shown, panicked, overlapped, dropped>>

\* config.UssdMenu.Items[session.CurrentMenu] goes into the response.
ShowCurrent(r) ==
    /\ Goes(r, "showCurrent", "send")
    /\ reply' = [reply EXCEPT ![r] = currentMenu[session[r]]]
    /\ UNCHANGED <<sessions, currentMenu, history, reqVars, session, nextMenu, shown, panicked, overlapped, dropped>>

----
\* mt-fin: the session is deleted from the map, under the lock.
DropSession(r) ==
    /\ Goes(r, "drop", "send")
    /\ sessions' = [sessions EXCEPT ![sid[r]] = None]
    /\ dropped' = dropped \cup ({sessions[sid[r]]} \ {None})
    /\ UNCHANGED <<currentMenu, history, reqVars, session, nextMenu, reply, shown, panicked, overlapped>>

\* The variables of goroutine r, which no other one sees, die with it.
Forget(r) ==
    /\ op' = [op EXCEPT ![r] = "other"]
    /\ sid' = [sid EXCEPT ![r] = None]
    /\ input' = [input EXCEPT ![r] = None]
    /\ session' = [session EXCEPT ![r] = None]
    /\ nextMenu' = [nextMenu EXCEPT ![r] = None]
    /\ reply' = [reply EXCEPT ![r] = None]

\* sendUssdResponse: the user gets the response, or the post fails and is only logged,
\* and what the user sees is not known.
SendResponse(r) ==
    /\ Goes(r, "send", "done")
    /\ \E response \in {[op |-> op[r], menu |-> reply[r]], None} :
          shown' = [shown EXCEPT ![sid[r]] = response]
    /\ Forget(r)
    /\ UNCHANGED <<sessions, currentMenu, history, panicked, overlapped, dropped>>

Process(r) ==
    \/ GetSession(r) \/ ShowMain(r) \/ Unexpected(r) \/ Exit(r) \/ BackToMain(r) \/ Back(r)
    \/ PopMenu(r) \/ PopHistory(r) \/ PanicInBack(r) \/ Choose(r) \/ Push(r) \/ Enter(r)
    \/ Invalid(r) \/ ShowCurrent(r) \/ DropSession(r) \/ SendResponse(r)

Next == \E r \in Requests : Arrive(r) \/ Process(r)

Spec == Init /\ [][Next]_vars

----
(* Properties. *)

\* Every variable keeps its type; in particular the current menu is one of the items, so
\* a response is never the empty text of a missing key.
TypeOK ==
    /\ sessions \in [SessionIds -> Requests \cup {None}]
    /\ currentMenu \in [Requests -> Items]
    /\ history \in [Requests -> Seq(Items)]
    /\ pc \in [Requests -> Location]
    /\ op \in [Requests -> Ops]
    /\ sid \in [Requests -> SessionIds \cup {None}]
    /\ input \in [Requests -> Inputs \cup {None}]
    /\ session \in [Requests -> Requests \cup {None}]
    /\ nextMenu \in [Requests -> Items \cup {None}]
    /\ reply \in [Requests -> Items \cup {End, None}]
    /\ shown \in [SessionIds -> [op: Ops, menu: Items \cup {End}] \cup {None}]
    /\ panicked \in BOOLEAN
    /\ overlapped \in SUBSET SessionIds
    /\ dropped \in SUBSET Requests

\* The way from the main menu to the current menu of session s.
Path(s) == Append(history[s], currentMenu[s])

\* Requests of one session work on one object: a goroutine holds a session that is not
\* in the map any more only if a request to exit took it out.  Two first requests of a
\* session at once do not make two sessions, and no step of one loses the other's.
SessionLostOnlyByExit ==
    \A r \in Requests :
        session[r] # None => session[r] \in {sessions[sid[r]]} \cup dropped

\* If the requests of a session come one at a time, its history is a way through the menus
\* that starts at the main menu: each menu is reached from the one before it by an
\* input, so the back key leads where the user came from.
HistoryIsPath ==
    \A i \in SessionIds :
        Quiet(i) /\ i \notin overlapped /\ sessions[i] # None =>
            LET path == Path(sessions[i]) IN
            /\ path[1] = Main
            /\ \A k \in 1..(Len(path) - 1) :
                  \E x \in Inputs : path[k + 1] = MenuAfter(path[k], x)

\* If the requests of a session come one at a time, and one is answered, the user sees the menu that
\* the session is at: the next input is interpreted from the menu on the screen.
ScreenIsCurrent ==
    \A i \in SessionIds :
        LET answered == shown[i] # None /\ shown[i].op # "mo-init"
        IN  Quiet(i) /\ i \notin overlapped /\ sessions[i] # None /\ answered
                => shown[i].menu = currentMenu[sessions[i]]

\* "if len(session.History) > 0 { // Pop from history": the pop has something to pop, and
\* the program does not end, unless requests of one session overlap: the test and the pop
\* are not one step, and two back inputs at once end it.
NoPanic == panicked => overlapped # {}
====
