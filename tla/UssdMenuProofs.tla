---- MODULE UssdMenuProofs ----
(***************************************************************************)
(* Invariants of UssdMenu for any number of requests and sessions and any  *)
(* menu configuration.                                                     *)
(***************************************************************************)
EXTENDS UssdMenu, TLAPS

\* The object created by request r does not exist yet.
Fresh(r) == pc[r] \in {"new", "getSession"}

\* Locations with a session pointer.
Working == Location \ {"new", "getSession", "done"}

\* What a request has, by location.
WorkOK ==
    \A r \in Requests :
        /\ InProgress(r) => sid[r] \in SessionIds /\ input[r] \in Inputs
        /\ session[r] # None <=> pc[r] \in Working
        /\ pc[r] \in {"push", "enter"} => nextMenu[r] \in Items
        /\ pc[r] \in {"send", "drop"} => reply[r] \in Items \cup {End}

\* An object is the session of one sessionId, and is as created until it is.
ObjectsOK ==
    /\ \A i, j \in SessionIds : sessions[i] # None /\ sessions[i] = sessions[j] => i = j
    /\ \A r \in Requests, j \in SessionIds :
          session[r] # None /\ session[r] = sessions[j] => sid[r] = j
    /\ \A r, q \in Requests : session[r] # None /\ session[r] = session[q] => sid[r] = sid[q]
    /\ \A r \in Requests : Fresh(r) =>
          /\ \A i \in SessionIds : sessions[i] # r
          /\ \A q \in Requests : session[q] # r
          /\ currentMenu[r] = Main /\ history[r] = <<>>

\* Requests of one session overlap only if the session is in overlapped.
Exclusive ==
    \A r, q \in Requests :
        r # q /\ InProgress(r) /\ InProgress(q) /\ sid[r] = sid[q] => sid[r] \in overlapped

\* A request that overlaps with none works on the session of the map, until it drops it.
InPlace ==
    \A r \in Requests :
        pc[r] \in Working /\ sid[r] \notin overlapped =>
            \/ session[r] = sessions[sid[r]]
            \/ pc[r] = "send" /\ sessions[sid[r]] = None

\* A way through the menus, from the main menu.
IsPath(path) ==
    /\ path # <<>>
    /\ path[1] = Main
    /\ \A k \in 1..(Len(path) - 1) : \E x \in Inputs : path[k + 1] = MenuAfter(path[k], x)

\* How far request r has changed its session, if it overlaps with none.
PathState(r) ==
    LET s == session[r] IN
    /\ pc[r] \in {"process", "popMenu", "push", "showCurrent", "drop", "send"} =>
          IsPath(Path(s))
    /\ pc[r] = "popMenu" => history[s] # <<>>
    /\ pc[r] \in {"popHistory", "enter"} => history[s] # <<>> /\ IsPath(history[s])
    /\ pc[r] = "popHistory" => currentMenu[s] = Last(history[s])
    /\ pc[r] = "push" => \E x \in Inputs : nextMenu[r] = MenuAfter(currentMenu[s], x)
    /\ pc[r] = "enter" => \E x \in Inputs : nextMenu[r] = MenuAfter(Last(history[s]), x)
    /\ pc[r] = "send" /\ op[r] # "mo-init" /\ sessions[sid[r]] # None =>
          reply[r] = currentMenu[s]

PathStates == \A r \in Requests : sid[r] \notin overlapped => PathState(r)

\* A session that nobody works on is at the end of a way through the menus.
Resting ==
    \A i \in SessionIds \ overlapped :
        sessions[i] # None /\ (\A r \in Requests : sid[r] = i => pc[r] \notin Working) =>
            IsPath(Path(sessions[i]))

Inv ==
    /\ TypeOK /\ WorkOK /\ ObjectsOK /\ Exclusive /\ InPlace
    /\ PathStates /\ Resting
    /\ SessionLostOnlyByExit /\ NoPanic /\ ScreenIsCurrent

----
\* Types are preserved.
LEMMA TypeStep == Inv /\ [Next]_vars => TypeOK'
<1> SUFFICES ASSUME Inv, [Next]_vars PROVE TypeOK'
    OBVIOUS
<1> USE ConstantsAssumption DEF Inv, TypeOK, Location, reqVars, Goes, Working
<1>1. ASSUME NEW r \in Requests, Arrive(r) PROVE TypeOK'
    <2>1. overlapped' \in SUBSET SessionIds
        BY <1>1 DEF Arrive
    <2>2. QED
        BY <1>1, <2>1 DEF Arrive
<1>2. ASSUME NEW r \in Requests, GetSession(r) PROVE TypeOK'
    BY <1>2 DEF GetSession, WorkOK, InProgress
<1>3. ASSUME NEW r \in Requests, ShowMain(r) PROVE TypeOK'
    BY <1>3 DEF ShowMain
<1>15. ASSUME NEW r \in Requests, Unexpected(r) PROVE TypeOK'
    BY <1>15 DEF Unexpected
<1>16. ASSUME NEW r \in Requests, Exit(r) PROVE TypeOK'
    BY <1>16 DEF Exit
<1>17. ASSUME NEW r \in Requests, Back(r) PROVE TypeOK'
    BY <1>17 DEF Back
<1>18. ASSUME NEW r \in Requests, Invalid(r) PROVE TypeOK'
    BY <1>18 DEF Invalid
<1>4. ASSUME NEW r \in Requests, BackToMain(r) PROVE TypeOK'
    BY <1>4 DEF BackToMain
<1>5. ASSUME NEW r \in Requests, PopMenu(r) PROVE TypeOK'
    <2>1. session[r] \in Requests /\ history[session[r]] \in Seq(Items)
        BY <1>5 DEF PopMenu, WorkOK
    <2>2. Last(history[session[r]]) \in Items
        BY <1>5, <2>1 DEF PopMenu, Last
    <2>3. QED
        BY <1>5, <2>1, <2>2 DEF PopMenu
<1>6. ASSUME NEW r \in Requests, PopHistory(r) PROVE TypeOK'
    <2>1. session[r] \in Requests /\ history[session[r]] \in Seq(Items)
        BY <1>6 DEF PopHistory, WorkOK
    <2>2. Front(history[session[r]]) \in Seq(Items)
        BY <1>6, <2>1 DEF PopHistory, Front
    <2>3. QED
        BY <1>6, <2>1, <2>2 DEF PopHistory
<1>7. ASSUME NEW r \in Requests, PanicInBack(r) PROVE TypeOK'
    BY <1>7 DEF PanicInBack
<1>8. ASSUME NEW r \in Requests, Choose(r) PROVE TypeOK'
    BY <1>8 DEF Choose
<1>9. ASSUME NEW r \in Requests, Push(r) PROVE TypeOK'
    <2>1. session[r] \in Requests /\ history[session[r]] \in Seq(Items)
        BY <1>9 DEF Push, WorkOK
    <2>2. Append(history[session[r]], currentMenu[session[r]]) \in Seq(Items)
        BY <2>1
    <2>3. QED
        BY <1>9, <2>1, <2>2 DEF Push
<1>10. ASSUME NEW r \in Requests, Enter(r) PROVE TypeOK'
    BY <1>10 DEF Enter, WorkOK
<1>11. ASSUME NEW r \in Requests, ShowCurrent(r) PROVE TypeOK'
    BY <1>11 DEF ShowCurrent, WorkOK
<1>12. ASSUME NEW r \in Requests, DropSession(r) PROVE TypeOK'
    <2>1. sid[r] \in SessionIds
        BY <1>12 DEF DropSession, WorkOK, InProgress
    <2>2. QED
        BY <1>12, <2>1 DEF DropSession
<1>13. ASSUME NEW r \in Requests, SendResponse(r) PROVE TypeOK'
    <2>1. sid[r] \in SessionIds /\ reply[r] \in Items \cup {End}
        BY <1>13 DEF SendResponse, WorkOK, InProgress
    <2>2. shown' \in [SessionIds -> [op: Ops, menu: Items \cup {End}] \cup {None}]
        BY <1>13, <2>1 DEF SendResponse
    <2>3. "other" \in Ops
        BY DEF Ops
    <2>4. QED
        BY <1>13, <2>2, <2>3 DEF SendResponse, Forget
<1>14. CASE UNCHANGED vars
    BY <1>14 DEF vars
<1>19. QED
    BY <1>1, <1>2, <1>3, <1>4, <1>5, <1>6, <1>7, <1>8, <1>9, <1>10, <1>11, <1>12, <1>13, <1>14,
       <1>15, <1>16, <1>17, <1>18
       DEF Next, Process

----

\* A request gets its parameters when it arrives and its session before it works.
LEMMA WorkStep == Inv /\ [Next]_vars => WorkOK'
<1> SUFFICES ASSUME Inv, [Next]_vars PROVE WorkOK'
    OBVIOUS
<1> USE ConstantsAssumption DEF Inv, TypeOK, reqVars, Goes, WorkOK, InProgress, Working, Location
<1>1. ASSUME NEW r \in Requests, Arrive(r) PROVE WorkOK'
    BY <1>1 DEF Arrive
<1>2. ASSUME NEW r \in Requests, GetSession(r) PROVE WorkOK'
    BY <1>2 DEF GetSession
<1>3. ASSUME NEW r \in Requests, ShowMain(r) PROVE WorkOK'
    BY <1>3 DEF ShowMain
<1>4. ASSUME NEW r \in Requests, Unexpected(r) PROVE WorkOK'
    BY <1>4 DEF Unexpected
<1>5. ASSUME NEW r \in Requests, Exit(r) PROVE WorkOK'
    BY <1>5 DEF Exit
<1>6. ASSUME NEW r \in Requests, BackToMain(r) PROVE WorkOK'
    BY <1>6 DEF BackToMain
<1>7. ASSUME NEW r \in Requests, Back(r) PROVE WorkOK'
    BY <1>7 DEF Back
<1>8. ASSUME NEW r \in Requests, PopMenu(r) PROVE WorkOK'
    BY <1>8 DEF PopMenu
<1>9. ASSUME NEW r \in Requests, PopHistory(r) PROVE WorkOK'
    BY <1>9 DEF PopHistory
<1>10. ASSUME NEW r \in Requests, PanicInBack(r) PROVE WorkOK'
    BY <1>10 DEF PanicInBack
<1>11. ASSUME NEW r \in Requests, Choose(r) PROVE WorkOK'
    BY <1>11 DEF Choose
<1>12. ASSUME NEW r \in Requests, Push(r) PROVE WorkOK'
    BY <1>12 DEF Push
<1>13. ASSUME NEW r \in Requests, Enter(r) PROVE WorkOK'
    BY <1>13 DEF Enter
<1>14. ASSUME NEW r \in Requests, Invalid(r) PROVE WorkOK'
    BY <1>14 DEF Invalid
<1>15. ASSUME NEW r \in Requests, ShowCurrent(r) PROVE WorkOK'
    BY <1>15 DEF ShowCurrent
<1>16. ASSUME NEW r \in Requests, DropSession(r) PROVE WorkOK'
    BY <1>16 DEF DropSession
<1>17. ASSUME NEW r \in Requests, SendResponse(r) PROVE WorkOK'
    BY <1>17 DEF SendResponse, Forget
<1>18. CASE UNCHANGED vars
    BY <1>18 DEF vars
<1>19. QED
    BY <1>1, <1>2, <1>3, <1>4, <1>5, <1>6, <1>7, <1>8, <1>9,
       <1>10, <1>11, <1>12, <1>13, <1>14, <1>15, <1>16, <1>17, <1>18
       DEF Next, Process

\* A request that arrives while another of its session is in progress marks the session.
LEMMA ExclusiveStep == Inv /\ [Next]_vars => Exclusive'
<1> SUFFICES ASSUME Inv, [Next]_vars PROVE Exclusive'
    OBVIOUS
<1> USE ConstantsAssumption DEF Inv, TypeOK, reqVars, Goes, WorkOK, Exclusive, InProgress, Quiet, Location
<1>1. ASSUME NEW r \in Requests, Arrive(r) PROVE Exclusive'
    BY <1>1 DEF Arrive
<1>2. ASSUME NEW r \in Requests, GetSession(r) PROVE Exclusive'
    BY <1>2 DEF GetSession
<1>3. ASSUME NEW r \in Requests, ShowMain(r) PROVE Exclusive'
    BY <1>3 DEF ShowMain
<1>4. ASSUME NEW r \in Requests, Unexpected(r) PROVE Exclusive'
    BY <1>4 DEF Unexpected
<1>5. ASSUME NEW r \in Requests, Exit(r) PROVE Exclusive'
    BY <1>5 DEF Exit
<1>6. ASSUME NEW r \in Requests, BackToMain(r) PROVE Exclusive'
    BY <1>6 DEF BackToMain
<1>7. ASSUME NEW r \in Requests, Back(r) PROVE Exclusive'
    BY <1>7 DEF Back
<1>8. ASSUME NEW r \in Requests, PopMenu(r) PROVE Exclusive'
    BY <1>8 DEF PopMenu
<1>9. ASSUME NEW r \in Requests, PopHistory(r) PROVE Exclusive'
    BY <1>9 DEF PopHistory
<1>10. ASSUME NEW r \in Requests, PanicInBack(r) PROVE Exclusive'
    BY <1>10 DEF PanicInBack
<1>11. ASSUME NEW r \in Requests, Choose(r) PROVE Exclusive'
    BY <1>11 DEF Choose
<1>12. ASSUME NEW r \in Requests, Push(r) PROVE Exclusive'
    BY <1>12 DEF Push
<1>13. ASSUME NEW r \in Requests, Enter(r) PROVE Exclusive'
    BY <1>13 DEF Enter
<1>14. ASSUME NEW r \in Requests, Invalid(r) PROVE Exclusive'
    BY <1>14 DEF Invalid
<1>15. ASSUME NEW r \in Requests, ShowCurrent(r) PROVE Exclusive'
    BY <1>15 DEF ShowCurrent
<1>16. ASSUME NEW r \in Requests, DropSession(r) PROVE Exclusive'
    BY <1>16 DEF DropSession
<1>17. ASSUME NEW r \in Requests, SendResponse(r) PROVE Exclusive'
    BY <1>17 DEF SendResponse, Forget
<1>18. CASE UNCHANGED vars
    BY <1>18 DEF vars
<1>19. QED
    BY <1>1, <1>2, <1>3, <1>4, <1>5, <1>6, <1>7, <1>8, <1>9,
       <1>10, <1>11, <1>12, <1>13, <1>14, <1>15, <1>16, <1>17, <1>18
       DEF Next, Process

\* Only GetSession gives an object out: the one of the map, or the request's own.
LEMMA ObjectsStep == Inv /\ [Next]_vars => ObjectsOK'
<1> SUFFICES ASSUME Inv, [Next]_vars PROVE ObjectsOK'
    OBVIOUS
<1> USE ConstantsAssumption DEF Inv, TypeOK, reqVars, Goes, WorkOK, ObjectsOK, Fresh, InProgress, Working, Location
<1>1. ASSUME NEW r \in Requests, Arrive(r) PROVE ObjectsOK'
    BY <1>1 DEF Arrive
<1>2. ASSUME NEW r \in Requests, GetSession(r) PROVE ObjectsOK'
    BY <1>2 DEF GetSession
<1>3. ASSUME NEW r \in Requests, ShowMain(r) PROVE ObjectsOK'
    BY <1>3 DEF ShowMain
<1>4. ASSUME NEW r \in Requests, Unexpected(r) PROVE ObjectsOK'
    BY <1>4 DEF Unexpected
<1>5. ASSUME NEW r \in Requests, Exit(r) PROVE ObjectsOK'
    BY <1>5 DEF Exit
<1>6. ASSUME NEW r \in Requests, BackToMain(r) PROVE ObjectsOK'
    BY <1>6 DEF BackToMain
<1>7. ASSUME NEW r \in Requests, Back(r) PROVE ObjectsOK'
    BY <1>7 DEF Back
<1>8. ASSUME NEW r \in Requests, PopMenu(r) PROVE ObjectsOK'
    BY <1>8 DEF PopMenu
<1>9. ASSUME NEW r \in Requests, PopHistory(r) PROVE ObjectsOK'
    BY <1>9 DEF PopHistory
<1>10. ASSUME NEW r \in Requests, PanicInBack(r) PROVE ObjectsOK'
    BY <1>10 DEF PanicInBack
<1>11. ASSUME NEW r \in Requests, Choose(r) PROVE ObjectsOK'
    BY <1>11 DEF Choose
<1>12. ASSUME NEW r \in Requests, Push(r) PROVE ObjectsOK'
    BY <1>12 DEF Push
<1>13. ASSUME NEW r \in Requests, Enter(r) PROVE ObjectsOK'
    BY <1>13 DEF Enter
<1>14. ASSUME NEW r \in Requests, Invalid(r) PROVE ObjectsOK'
    BY <1>14 DEF Invalid
<1>15. ASSUME NEW r \in Requests, ShowCurrent(r) PROVE ObjectsOK'
    BY <1>15 DEF ShowCurrent
<1>16. ASSUME NEW r \in Requests, DropSession(r) PROVE ObjectsOK'
    BY <1>16 DEF DropSession
<1>17. ASSUME NEW r \in Requests, SendResponse(r) PROVE ObjectsOK'
    BY <1>17 DEF SendResponse, Forget
<1>18. CASE UNCHANGED vars
    BY <1>18 DEF vars
<1>19. QED
    BY <1>1, <1>2, <1>3, <1>4, <1>5, <1>6, <1>7, <1>8, <1>9,
       <1>10, <1>11, <1>12, <1>13, <1>14, <1>15, <1>16, <1>17, <1>18
       DEF Next, Process

\* Only a request of the session itself takes it out of the map.
LEMMA InPlaceStep == Inv /\ [Next]_vars => InPlace'
<1> SUFFICES ASSUME Inv, [Next]_vars PROVE InPlace'
    OBVIOUS
<1> USE ConstantsAssumption DEF Inv, TypeOK, reqVars, Goes, WorkOK, Exclusive, InPlace, InProgress, Working, Location
<1>1. ASSUME NEW r \in Requests, Arrive(r) PROVE InPlace'
    BY <1>1 DEF Arrive
<1>2. ASSUME NEW r \in Requests, GetSession(r) PROVE InPlace'
    BY <1>2 DEF GetSession
<1>3. ASSUME NEW r \in Requests, ShowMain(r) PROVE InPlace'
    BY <1>3 DEF ShowMain
<1>4. ASSUME NEW r \in Requests, Unexpected(r) PROVE InPlace'
    BY <1>4 DEF Unexpected
<1>5. ASSUME NEW r \in Requests, Exit(r) PROVE InPlace'
    BY <1>5 DEF Exit
<1>6. ASSUME NEW r \in Requests, BackToMain(r) PROVE InPlace'
    BY <1>6 DEF BackToMain
<1>7. ASSUME NEW r \in Requests, Back(r) PROVE InPlace'
    BY <1>7 DEF Back
<1>8. ASSUME NEW r \in Requests, PopMenu(r) PROVE InPlace'
    BY <1>8 DEF PopMenu
<1>9. ASSUME NEW r \in Requests, PopHistory(r) PROVE InPlace'
    BY <1>9 DEF PopHistory
<1>10. ASSUME NEW r \in Requests, PanicInBack(r) PROVE InPlace'
    BY <1>10 DEF PanicInBack
<1>11. ASSUME NEW r \in Requests, Choose(r) PROVE InPlace'
    BY <1>11 DEF Choose
<1>12. ASSUME NEW r \in Requests, Push(r) PROVE InPlace'
    BY <1>12 DEF Push
<1>13. ASSUME NEW r \in Requests, Enter(r) PROVE InPlace'
    BY <1>13 DEF Enter
<1>14. ASSUME NEW r \in Requests, Invalid(r) PROVE InPlace'
    BY <1>14 DEF Invalid
<1>15. ASSUME NEW r \in Requests, ShowCurrent(r) PROVE InPlace'
    BY <1>15 DEF ShowCurrent
<1>16. ASSUME NEW r \in Requests, DropSession(r) PROVE InPlace'
    BY <1>16 DEF DropSession
<1>17. ASSUME NEW r \in Requests, SendResponse(r) PROVE InPlace'
    BY <1>17 DEF SendResponse, Forget
<1>18. CASE UNCHANGED vars
    BY <1>18 DEF vars
<1>19. QED
    BY <1>1, <1>2, <1>3, <1>4, <1>5, <1>6, <1>7, <1>8, <1>9,
       <1>10, <1>11, <1>12, <1>13, <1>14, <1>15, <1>16, <1>17, <1>18
       DEF Next, Process

\* Only a request to exit does.
LEMMA LostStep == Inv /\ [Next]_vars => SessionLostOnlyByExit'
<1> SUFFICES ASSUME Inv, [Next]_vars PROVE SessionLostOnlyByExit'
    OBVIOUS
<1> USE ConstantsAssumption DEF Inv, TypeOK, reqVars, Goes, WorkOK, SessionLostOnlyByExit, InProgress, Working, Location
<1>1. ASSUME NEW r \in Requests, Arrive(r) PROVE SessionLostOnlyByExit'
    BY <1>1 DEF Arrive
<1>2. ASSUME NEW r \in Requests, GetSession(r) PROVE SessionLostOnlyByExit'
    BY <1>2 DEF GetSession
<1>3. ASSUME NEW r \in Requests, ShowMain(r) PROVE SessionLostOnlyByExit'
    BY <1>3 DEF ShowMain
<1>4. ASSUME NEW r \in Requests, Unexpected(r) PROVE SessionLostOnlyByExit'
    BY <1>4 DEF Unexpected
<1>5. ASSUME NEW r \in Requests, Exit(r) PROVE SessionLostOnlyByExit'
    BY <1>5 DEF Exit
<1>6. ASSUME NEW r \in Requests, BackToMain(r) PROVE SessionLostOnlyByExit'
    BY <1>6 DEF BackToMain
<1>7. ASSUME NEW r \in Requests, Back(r) PROVE SessionLostOnlyByExit'
    BY <1>7 DEF Back
<1>8. ASSUME NEW r \in Requests, PopMenu(r) PROVE SessionLostOnlyByExit'
    BY <1>8 DEF PopMenu
<1>9. ASSUME NEW r \in Requests, PopHistory(r) PROVE SessionLostOnlyByExit'
    BY <1>9 DEF PopHistory
<1>10. ASSUME NEW r \in Requests, PanicInBack(r) PROVE SessionLostOnlyByExit'
    BY <1>10 DEF PanicInBack
<1>11. ASSUME NEW r \in Requests, Choose(r) PROVE SessionLostOnlyByExit'
    BY <1>11 DEF Choose
<1>12. ASSUME NEW r \in Requests, Push(r) PROVE SessionLostOnlyByExit'
    BY <1>12 DEF Push
<1>13. ASSUME NEW r \in Requests, Enter(r) PROVE SessionLostOnlyByExit'
    BY <1>13 DEF Enter
<1>14. ASSUME NEW r \in Requests, Invalid(r) PROVE SessionLostOnlyByExit'
    BY <1>14 DEF Invalid
<1>15. ASSUME NEW r \in Requests, ShowCurrent(r) PROVE SessionLostOnlyByExit'
    BY <1>15 DEF ShowCurrent
<1>16. ASSUME NEW r \in Requests, DropSession(r) PROVE SessionLostOnlyByExit'
    BY <1>16 DEF DropSession
<1>17. ASSUME NEW r \in Requests, SendResponse(r) PROVE SessionLostOnlyByExit'
    BY <1>17 DEF SendResponse, Forget
<1>18. CASE UNCHANGED vars
    BY <1>18 DEF vars
<1>19. QED
    BY <1>1, <1>2, <1>3, <1>4, <1>5, <1>6, <1>7, <1>8, <1>9,
       <1>10, <1>11, <1>12, <1>13, <1>14, <1>15, <1>16, <1>17, <1>18
       DEF Next, Process

\* A history that was tested is popped unless another request works on the session.
LEMMA PanicStep == Inv /\ [Next]_vars => NoPanic'
<1> SUFFICES ASSUME Inv, [Next]_vars PROVE NoPanic'
    OBVIOUS
<1> USE ConstantsAssumption DEF Inv, TypeOK, reqVars, Goes, WorkOK, PathStates, PathState, NoPanic, InProgress, Location
<1>1. ASSUME NEW r \in Requests, Arrive(r) PROVE NoPanic'
    BY <1>1 DEF Arrive
<1>2. ASSUME NEW r \in Requests, GetSession(r) PROVE NoPanic'
    BY <1>2 DEF GetSession
<1>3. ASSUME NEW r \in Requests, ShowMain(r) PROVE NoPanic'
    BY <1>3 DEF ShowMain
<1>4. ASSUME NEW r \in Requests, Unexpected(r) PROVE NoPanic'
    BY <1>4 DEF Unexpected
<1>5. ASSUME NEW r \in Requests, Exit(r) PROVE NoPanic'
    BY <1>5 DEF Exit
<1>6. ASSUME NEW r \in Requests, BackToMain(r) PROVE NoPanic'
    BY <1>6 DEF BackToMain
<1>7. ASSUME NEW r \in Requests, Back(r) PROVE NoPanic'
    BY <1>7 DEF Back
<1>8. ASSUME NEW r \in Requests, PopMenu(r) PROVE NoPanic'
    BY <1>8 DEF PopMenu
<1>9. ASSUME NEW r \in Requests, PopHistory(r) PROVE NoPanic'
    BY <1>9 DEF PopHistory
<1>10. ASSUME NEW r \in Requests, PanicInBack(r) PROVE NoPanic'
    BY <1>10 DEF PanicInBack
<1>11. ASSUME NEW r \in Requests, Choose(r) PROVE NoPanic'
    BY <1>11 DEF Choose
<1>12. ASSUME NEW r \in Requests, Push(r) PROVE NoPanic'
    BY <1>12 DEF Push
<1>13. ASSUME NEW r \in Requests, Enter(r) PROVE NoPanic'
    BY <1>13 DEF Enter
<1>14. ASSUME NEW r \in Requests, Invalid(r) PROVE NoPanic'
    BY <1>14 DEF Invalid
<1>15. ASSUME NEW r \in Requests, ShowCurrent(r) PROVE NoPanic'
    BY <1>15 DEF ShowCurrent
<1>16. ASSUME NEW r \in Requests, DropSession(r) PROVE NoPanic'
    BY <1>16 DEF DropSession
<1>17. ASSUME NEW r \in Requests, SendResponse(r) PROVE NoPanic'
    BY <1>17 DEF SendResponse, Forget
<1>18. CASE UNCHANGED vars
    BY <1>18 DEF vars
<1>19. QED
    BY <1>1, <1>2, <1>3, <1>4, <1>5, <1>6, <1>7, <1>8, <1>9,
       <1>10, <1>11, <1>12, <1>13, <1>14, <1>15, <1>16, <1>17, <1>18
       DEF Next, Process

----
\* The first menu of a way is the main menu.
LEMMA PathMain == IsPath(Append(<<>>, Main))
<1>1. Main \in Items /\ Append(<<>>, Main) = <<Main>> /\ Len(<<Main>>) = 1
    BY ConstantsAssumption
<1>2. QED
    BY <1>1 DEF IsPath

\* A way goes on to a menu that an input leads to.
LEMMA PathGrows ==
    ASSUME NEW p \in Seq(Items), p # <<>>, IsPath(p), NEW m \in Items,
           \E x \in Inputs : m = MenuAfter(Last(p), x)
    PROVE  IsPath(Append(p, m))
<1> DEFINE l == Append(p, m)
<1>1. Len(p) \in Nat \ {0} /\ Len(l) = Len(p) + 1
    OBVIOUS
<1>2. \A k \in 1..Len(p) : l[k] = p[k]
    OBVIOUS
<1>3. l[Len(p) + 1] = m /\ l # <<>>
    OBVIOUS
<1> HIDE DEF l
<1>4. l[1] = Main
    BY <1>1, <1>2 DEF IsPath
<1>5. ASSUME NEW k \in 1..Len(p) PROVE \E x \in Inputs : l[k + 1] = MenuAfter(l[k], x)
    <2>1. CASE k = Len(p)
        BY <2>1, <1>1, <1>2, <1>3 DEF Last
    <2>2. CASE k # Len(p)
        <3>1. k \in 1..(Len(p) - 1) /\ k + 1 \in 1..Len(p)
            BY <1>1, <2>2
        <3>2. QED
            BY <3>1, <1>2 DEF IsPath
    <2>3. QED
        BY <2>1, <2>2
<1>6. Len(l) - 1 = Len(p)
    BY <1>1
<1>7. IsPath(l)
    BY <1>3, <1>4, <1>5, <1>6 DEF IsPath
<1>8. QED
    BY <1>7 DEF l

\* The way to the menu before the last one.
LEMMA PathShrinks ==
    ASSUME NEW p \in Seq(Items), p # <<>>, NEW m \in Items, IsPath(Append(p, m))
    PROVE  IsPath(p)
<1> DEFINE l == Append(p, m)
<1>1. Len(p) \in Nat \ {0} /\ Len(l) = Len(p) + 1
    OBVIOUS
<1>2. \A k \in 1..Len(p) : l[k] = p[k]
    OBVIOUS
<1>3. IsPath(l)
    OBVIOUS
<1> HIDE DEF l
<1>4. p[1] = Main
    BY <1>1, <1>2, <1>3 DEF IsPath
<1>5. ASSUME NEW k \in 1..(Len(p) - 1) PROVE \E x \in Inputs : p[k + 1] = MenuAfter(p[k], x)
    <2>1. k \in 1..(Len(l) - 1) /\ k \in 1..Len(p) /\ k + 1 \in 1..Len(p)
        BY <1>1
    <2>2. QED
        BY <2>1, <1>2, <1>3 DEF IsPath
<1>6. QED
    BY <1>4, <1>5 DEF IsPath

\* The first n elements of a sequence.
LEMMA PrefixLength ==
    ASSUME NEW S, NEW p \in Seq(S), NEW n \in 0..Len(p)
    PROVE  Len(SubSeq(p, 1, n)) = n /\ \A k \in 1..n : SubSeq(p, 1, n)[k] = p[k]
<1>1. Len(SubSeq(p, 1, n)) = n
    OBVIOUS
<1>2. ASSUME NEW k \in 1..n PROVE SubSeq(p, 1, n)[k] = p[k]
    OBVIOUS
<1>3. QED
    BY <1>1, <1>2

\* The parts of a non-empty history.
LEMMA FrontAndLast ==
    ASSUME NEW p \in Seq(Items), p # <<>>
    PROVE  /\ Front(p) \in Seq(Items) /\ Last(p) \in Items
           /\ Append(Front(p), Last(p)) = p
<1>1. Len(p) \in Nat \ {0}
    OBVIOUS
<1>2. Front(p) = SubSeq(p, 1, Len(p) - 1) /\ Last(p) = p[Len(p)]
    BY DEF Front, Last
<1>3. Front(p) \in Seq(Items) /\ Len(Front(p)) = Len(p) - 1
    <2>1. Front(p) \in Seq(Items)
        BY DEF Front
    <2>2. Len(p) - 1 \in 0..Len(p)
        BY <1>1
    <2>3. QED
        BY <2>1, <2>2, <1>2, PrefixLength
<1>4. \A k \in 1..(Len(p) - 1) : Front(p)[k] = p[k]
    <2>1. Len(p) - 1 \in 0..Len(p)
        BY <1>1
    <2>2. QED
        BY <2>1, <1>2, PrefixLength
<1>5. Last(p) \in Items
    BY <1>1, <1>2
<1>6. Append(Front(p), Last(p)) \in Seq(Items) /\ Len(Append(Front(p), Last(p))) = Len(p)
    BY <1>1, <1>3, <1>5
<1>7. ASSUME NEW k \in 1..Len(p) PROVE Append(Front(p), Last(p))[k] = p[k]
    BY <1>1, <1>2, <1>3, <1>4, <1>5
<1>8. QED
    BY <1>3, <1>5, <1>6, <1>7

\* The menu that was pushed.
LEMMA LastOfAppend ==
    ASSUME NEW p \in Seq(Items), NEW m \in Items
    PROVE  Last(Append(p, m)) = m /\ Append(p, m) # <<>>
BY DEF Last

----
\* Two requests at work on one session overlap.
LEMMA Separate ==
    ASSUME Inv, NEW r \in Requests, NEW q \in Requests, q # r, sid[q] \notin overlapped,
           pc[r] \in Working, pc[q] \in Working
    PROVE  session[q] # session[r] /\ sid[q] # sid[r]
<1>1. session[q] # None /\ session[r] # None /\ InProgress(r) /\ InProgress(q)
    BY DEF Inv, WorkOK, InProgress, Working
<1>2. sid[q] # sid[r]
    BY <1>1 DEF Inv, Exclusive
<1>3. QED
    BY <1>1, <1>2 DEF Inv, ObjectsOK

\* What a step of request r may change: its own variables, the session it holds, the entry of
\* its sessionId.
Shape(r) ==
    /\ InProgress(r)
    /\ \A q \in Requests \ {r} :
          UNCHANGED <<pc[q], session[q], sid[q], op[q], nextMenu[q], reply[q]>>
    /\ \A s \in Requests :
          pc[r] \notin Working \/ s # session[r] => UNCHANGED <<currentMenu[s], history[s]>>
    /\ \A i \in SessionIds \ {sid[r]} : UNCHANGED sessions[i]
    /\ UNCHANGED overlapped

LEMMA StepShape ==
    ASSUME TypeOK, WorkOK, NEW r \in Requests, Process(r)
    PROVE  Shape(r)
<1> USE DEF TypeOK, WorkOK, Shape, InProgress, Working, Location, Goes, reqVars
<1>1. CASE GetSession(r)
    BY <1>1 DEF GetSession
<1>2. CASE ShowMain(r)
    BY <1>2 DEF ShowMain
<1>3. CASE Unexpected(r)
    BY <1>3 DEF Unexpected
<1>4. CASE Exit(r)
    BY <1>4 DEF Exit
<1>5. CASE BackToMain(r)
    BY <1>5 DEF BackToMain
<1>6. CASE Back(r)
    BY <1>6 DEF Back
<1>7. CASE PopMenu(r)
    BY <1>7 DEF PopMenu
<1>8. CASE PopHistory(r)
    BY <1>8 DEF PopHistory
<1>9. CASE PanicInBack(r)
    BY <1>9 DEF PanicInBack
<1>10. CASE Choose(r)
    BY <1>10 DEF Choose
<1>11. CASE Push(r)
    BY <1>11 DEF Push
<1>12. CASE Enter(r)
    BY <1>12 DEF Enter
<1>13. CASE Invalid(r)
    BY <1>13 DEF Invalid
<1>14. CASE ShowCurrent(r)
    BY <1>14 DEF ShowCurrent
<1>15. CASE DropSession(r)
    BY <1>15 DEF DropSession
<1>16. CASE SendResponse(r)
    BY <1>16 DEF SendResponse, Forget
<1>17. QED
    BY <1>1, <1>2, <1>3, <1>4, <1>5, <1>6, <1>7, <1>8, <1>9,
       <1>10, <1>11, <1>12, <1>13, <1>14, <1>15, <1>16 DEF Process

\* A step of request r leaves alone what others, which do not overlap with it, are doing.
LEMMA OthersKeepPath ==
    ASSUME Inv, NEW r \in Requests, Process(r), NEW q \in Requests, q # r,
           sid[q] \notin overlapped, pc[q] \in Working
    PROVE  PathState(q)'
<1>1. PathState(q)
    BY DEF Inv, PathStates
<1>2. Shape(r)
    BY StepShape DEF Inv
<1>3. session[q] \in Requests /\ sid[q] \in SessionIds /\ InProgress(q)
    BY DEF Inv, TypeOK, WorkOK, Working, InProgress
<1>4. UNCHANGED <<pc[q], session[q], sid[q], op[q], nextMenu[q], reply[q]>>
    BY <1>2 DEF Shape
<1>5. UNCHANGED <<currentMenu[session[q]], history[session[q]]>>
    BY <1>2, <1>3, Separate DEF Shape
<1>6. UNCHANGED sessions[sid[q]]
    <2>1. sid[q] # sid[r]
        BY <1>2, <1>3 DEF Inv, Exclusive, Shape
    <2>2. QED
        BY <1>2, <1>3, <2>1 DEF Shape
<1>7. QED
    BY <1>1, <1>4, <1>5, <1>6 DEF PathState, Path

\* A step of request r takes its own session on, if it overlaps with none.
LEMMA OwnPath ==
    ASSUME Inv, NEW r \in Requests, Process(r), sid[r] \notin overlapped
    PROVE  PathState(r)'
<1> DEFINE s == session[r]
           h == history[s]
           c == currentMenu[s]
<1> USE DEF Inv, TypeOK, Goes, Location, reqVars, PathState, Path
<1>1. InProgress(r) /\ sid[r] \in SessionIds
    BY StepShape DEF Shape, WorkOK
<1>2. pc[r] \in Working => s \in Requests /\ h \in Seq(Items) /\ c \in Items
    BY DEF WorkOK
<1>3. PathState(r)
    BY DEF PathStates
<1>4. CASE GetSession(r)
    <2>1. pc'[r] = "process" /\ UNCHANGED <<currentMenu, history>>
        BY <1>4 DEF GetSession
    <2>2. IsPath(Path(session'[r]))
        <3>1. CASE sessions[sid[r]] = None
            <4>1. session'[r] = r /\ currentMenu[r] = Main /\ history[r] = <<>>
                BY <1>4, <3>1 DEF GetSession, ObjectsOK, Fresh
            <4>2. QED
                BY <4>1, PathMain
        <3>2. CASE sessions[sid[r]] # None
            <4>1. session'[r] = sessions[sid[r]]
                BY <1>4, <3>2 DEF GetSession
            <4>2. \A q \in Requests : sid[q] = sid[r] => pc[q] \notin Working
                BY <1>1, <1>4 DEF GetSession, Exclusive, InProgress, Working
            <4>3. IsPath(Path(sessions[sid[r]]))
                BY <1>1, <3>2, <4>2 DEF Resting
            <4>4. QED
                BY <4>1, <4>3
        <3>3. QED
            BY <3>1, <3>2
    <2>3. QED
        BY <2>1, <2>2
<1>5. CASE ShowMain(r)
    BY <1>3, <1>5 DEF ShowMain
<1>6. CASE Unexpected(r)
    BY <1>3, <1>6 DEF Unexpected
<1>7. CASE Exit(r)
    BY <1>3, <1>7 DEF Exit
<1>8. CASE BackToMain(r)
    <2>1. pc'[r] = "showCurrent" /\ session'[r] = s /\ s \in Requests
        BY <1>2, <1>8 DEF BackToMain, Working
    <2>2. history'[s] = <<>> /\ currentMenu'[s] = Main
        BY <1>8, <2>1 DEF BackToMain
    <2>3. IsPath(Append(history'[s], currentMenu'[s]))
        BY <2>2, PathMain
    <2>4. QED
        BY <2>1, <2>3
<1>9. CASE Back(r)
    BY <1>3, <1>9 DEF Back
<1>10. CASE PopMenu(r)
    <2>1. pc'[r] = "popHistory" /\ session'[r] = s /\ s \in Requests /\ h # <<>>
        BY <1>2, <1>10 DEF PopMenu, Working
    <2>2. history'[s] = h /\ currentMenu'[s] = Last(h)
        BY <1>10, <2>1 DEF PopMenu
    <2>3. IsPath(Append(h, c))
        BY <1>3, <1>10 DEF PopMenu
    <2>4. h \in Seq(Items) /\ c \in Items
        BY <1>2, <1>10 DEF PopMenu, Working
    <2>5. IsPath(h)
        BY <2>1, <2>3, <2>4, PathShrinks
    <2>6. QED
        BY <2>1, <2>2, <2>5
<1>11. CASE PopHistory(r)
    <2>1. pc'[r] = "showCurrent" /\ session'[r] = s /\ s \in Requests /\ h \in Seq(Items) /\ h # <<>>
        BY <1>2, <1>11 DEF PopHistory, Working
    <2>2. history'[s] = Front(h) /\ currentMenu'[s] = c
        BY <1>11, <2>1 DEF PopHistory
    <2>3. IsPath(h) /\ c = Last(h)
        BY <1>3, <1>11 DEF PopHistory
    <2>4. Append(history'[s], currentMenu'[s]) = h
        BY <2>1, <2>2, <2>3, FrontAndLast
    <2>5. QED
        BY <2>1, <2>3, <2>4
<1>12. CASE PanicInBack(r)
    BY <1>3, <1>12 DEF PanicInBack
<1>13. CASE Choose(r)
    <2>1. \E x \in Inputs : nextMenu'[r] = MenuAfter(c, x)
        <3>1. s \in Requests /\ input[r] \notin {ExitKey, BackKey}
            BY <1>2, <1>13 DEF Choose, Working
        <3>2. nextMenu'[r] = MenuAfter(c, input[r])
            BY <1>13 DEF Choose
        <3>3. input[r] \in Inputs
            BY <1>1, <1>13 DEF Choose, WorkOK
        <3>4. QED
            BY <3>2, <3>3
    <2>2. QED
        BY <1>3, <1>13, <2>1 DEF Choose
<1>14. CASE Push(r)
    <2>1. pc'[r] = "enter" /\ session'[r] = s /\ s \in Requests /\ h \in Seq(Items) /\ c \in Items
        BY <1>2, <1>14 DEF Push, Working
    <2>2. history'[s] = Append(h, c) /\ nextMenu'[r] = nextMenu[r]
        BY <1>14, <2>1 DEF Push
    <2>3. IsPath(Append(h, c)) /\ \E x \in Inputs : nextMenu[r] = MenuAfter(c, x)
        BY <1>3, <1>14 DEF Push
    <2>4. Last(history'[s]) = c /\ history'[s] # <<>>
        BY <2>1, <2>2, LastOfAppend
    <2>5. QED
        BY <2>1, <2>2, <2>3, <2>4
<1>15. CASE Enter(r)
    <2>1. pc'[r] = "send" /\ session'[r] = s /\ s \in Requests /\ h \in Seq(Items)
        BY <1>2, <1>15 DEF Enter, Working
    <2>2. history'[s] = h /\ currentMenu'[s] = nextMenu[r] /\ reply'[r] = nextMenu[r]
        BY <1>15, <2>1 DEF Enter
    <2>3. h # <<>> /\ IsPath(h) /\ \E x \in Inputs : nextMenu[r] = MenuAfter(Last(h), x)
        BY <1>3, <1>15 DEF Enter
    <2>4. nextMenu[r] \in Items
        BY <1>15 DEF Enter, WorkOK
    <2>5. IsPath(Append(h, nextMenu[r]))
        BY <2>1, <2>3, <2>4, PathGrows
    <2>6. QED
        BY <2>1, <2>2, <2>5
<1>16. CASE Invalid(r)
    BY <1>3, <1>16 DEF Invalid
<1>17. CASE ShowCurrent(r)
    BY <1>3, <1>17 DEF ShowCurrent
<1>18. CASE DropSession(r)
    BY <1>1, <1>3, <1>18 DEF DropSession
<1>19. CASE SendResponse(r)
    BY <1>19 DEF SendResponse
<1>20. QED
    BY <1>4, <1>5, <1>6, <1>7, <1>8, <1>9, <1>10, <1>11, <1>12, <1>13, <1>14, <1>15, <1>16,
       <1>17, <1>18, <1>19 DEF Process

\* Requests that overlap with none take their sessions along a way through the menus.
LEMMA PathStep == Inv /\ [Next]_vars => PathStates'
<1> SUFFICES ASSUME Inv, [Next]_vars PROVE PathStates'
    OBVIOUS
<1>1. ASSUME NEW r \in Requests, Arrive(r) PROVE PathStates'
    <2> SUFFICES ASSUME NEW q \in Requests, sid'[q] \notin overlapped' PROVE PathState(q)'
        BY DEF PathStates
    <2>1. CASE q = r
        <3>1. pc'[q] = "getSession"
            BY <1>1, <2>1 DEF Arrive, Goes, Inv, TypeOK
        <3>2. QED
            BY <3>1 DEF PathState
    <2>2. CASE q # r
        <3>1. sid'[q] = sid[q] /\ sid[q] \notin overlapped
            BY <1>1, <2>2 DEF Arrive, Inv, TypeOK
        <3>2. PathState(q)
            BY <3>1 DEF Inv, PathStates
        <3>3. pc'[q] = pc[q] /\ op'[q] = op[q]
            BY <1>1, <2>2 DEF Arrive, Goes, Inv, TypeOK
        <3>4. UNCHANGED <<sessions, currentMenu, history, session, nextMenu, reply>>
            BY <1>1 DEF Arrive
        <3>5. QED
            BY <3>1, <3>2, <3>3, <3>4 DEF PathState, Path
    <2>3. QED
        BY <2>1, <2>2
<1>2. ASSUME NEW r \in Requests, Process(r) PROVE PathStates'
    <2> SUFFICES ASSUME NEW q \in Requests, sid'[q] \notin overlapped' PROVE PathState(q)'
        BY DEF PathStates
    <2>1. Shape(r)
        BY <1>2, StepShape DEF Inv
    <2>2. CASE q = r
        <3>1. CASE SendResponse(r)
            <4>1. pc'[q] = "done"
                BY <2>2, <3>1 DEF SendResponse, Goes, Inv, TypeOK
            <4>2. QED
                BY <4>1 DEF PathState
        <3>2. CASE ~SendResponse(r)
            <4>1. UNCHANGED sid
                BY <1>2, <3>2 DEF Process, GetSession, ShowMain, Unexpected, Exit, BackToMain,
                   Back, PopMenu, PopHistory, PanicInBack, Choose, Push, Enter, Invalid,
                   ShowCurrent, DropSession, reqVars
            <4>2. sid[r] \notin overlapped
                BY <2>1, <2>2, <4>1 DEF Shape
            <4>3. QED
                BY <1>2, <2>2, <4>2, OwnPath
        <3>3. QED
            BY <3>1, <3>2
    <2>3. CASE q # r /\ pc[q] \in Working
        <3>1. sid[q] \notin overlapped
            BY <2>1, <2>3 DEF Shape
        <3>2. QED
            BY <1>2, <2>3, <3>1, OthersKeepPath
    <2>4. CASE q # r /\ pc[q] \notin Working
        <3>1. pc'[q] \notin Working
            BY <2>1, <2>4 DEF Shape
        <3>2. QED
            BY <3>1 DEF PathState, Working, Location
    <2>5. QED
        BY <2>2, <2>3, <2>4
<1>3. CASE UNCHANGED vars
    BY <1>3 DEF vars, Inv, PathStates, PathState, Path
<1>4. QED
    BY <1>1, <1>2, <1>3 DEF Next

\* What is left of a request: its session is one that nobody works on, or not in the map.
LEMMA RestingStep == Inv /\ [Next]_vars => Resting'
<1> SUFFICES ASSUME Inv, [Next]_vars,
                    NEW i \in SessionIds, i \notin overlapped', sessions'[i] # None,
                    \A r \in Requests : sid'[r] = i => pc'[r] \notin Working
             PROVE  IsPath(Append(history'[sessions'[i]], currentMenu'[sessions'[i]]))
    BY DEF Resting, Path
<1> USE DEF Inv, TypeOK
<1>1. ASSUME NEW r \in Requests, Arrive(r)
      PROVE  IsPath(Append(history'[sessions'[i]], currentMenu'[sessions'[i]]))
    <2>1. UNCHANGED <<sessions, currentMenu, history>> /\ i \notin overlapped
        BY <1>1 DEF Arrive
    <2>2. ASSUME NEW q \in Requests, sid[q] = i PROVE pc[q] \notin Working
        <3>1. CASE q = r
            BY <1>1, <3>1 DEF Arrive, Goes, Working
        <3>2. CASE q # r
            BY <1>1, <2>2, <3>2 DEF Arrive, Goes
        <3>3. QED
            BY <3>1, <3>2
    <2>3. IsPath(Path(sessions[i]))
        BY <2>1, <2>2 DEF Resting
    <2>4. QED
        BY <2>1, <2>3 DEF Path
<1>2. ASSUME NEW r \in Requests, Process(r)
      PROVE  IsPath(Append(history'[sessions'[i]], currentMenu'[sessions'[i]]))
    <2>1. Shape(r)
        BY <1>2, StepShape
    <2>2. i \notin overlapped
        BY <2>1 DEF Shape
    <2>3. CASE sid[r] # i
        <3>1. sessions'[i] = sessions[i] /\ sessions[i] \in Requests
            BY <2>1, <2>3 DEF Shape
        <3>2. \A q \in Requests : sid[q] = i => pc[q] \notin Working
            BY <2>1, <2>3 DEF Shape
        <3>3. IsPath(Path(sessions[i]))
            BY <2>2, <3>1, <3>2 DEF Resting
        <3>4. pc[r] \in Working => session[r] # sessions[i]
            BY <2>3, <3>1 DEF ObjectsOK, WorkOK
        <3>5. UNCHANGED <<currentMenu[sessions[i]], history[sessions[i]]>>
            BY <2>1, <3>1, <3>4 DEF Shape
        <3>6. QED
            BY <3>1, <3>3, <3>5 DEF Path
    <2>4. CASE sid[r] = i /\ SendResponse(r)
        <3>1. UNCHANGED <<sessions, currentMenu, history>> /\ pc[r] = "send"
            BY <2>4 DEF SendResponse, Goes
        <3>2. session[r] = sessions[i]
            BY <2>2, <2>4, <3>1 DEF InPlace, Working, Location
        <3>3. IsPath(Path(session[r]))
            BY <2>2, <2>4, <3>1 DEF PathStates, PathState
        <3>4. QED
            BY <3>1, <3>2, <3>3 DEF Path
    <2>5. CASE sid[r] = i /\ ~SendResponse(r) /\ ~PanicInBack(r)
        <3>1. sid'[r] = i /\ pc'[r] \in Working
            BY <1>2, <2>5 DEF Process, GetSession, ShowMain, Unexpected, Exit, BackToMain,
               Back, PopMenu, PopHistory, Choose, Push, Enter, Invalid,
               ShowCurrent, DropSession, reqVars, Goes, Working, Location
        <3>2. QED
            BY <3>1
    <2>6. CASE sid[r] = i /\ PanicInBack(r)
        BY <2>6 DEF PanicInBack, reqVars, Working, Location
    <2>7. QED
        BY <2>3, <2>4, <2>5, <2>6
<1>3. CASE UNCHANGED vars
    BY <1>3 DEF vars, Resting, Path
<1>4. QED
    BY <1>1, <1>2, <1>3 DEF Next

\* The answer that the user gets is the menu that the request left its session at.
LEMMA ScreenStep == Inv /\ [Next]_vars => ScreenIsCurrent'
<1> SUFFICES ASSUME Inv, [Next]_vars,
                    NEW i \in SessionIds, Quiet(i)', i \notin overlapped', sessions'[i] # None,
                    shown'[i] # None, shown'[i].op # "mo-init"
             PROVE  shown'[i].menu = currentMenu'[sessions'[i]]
    BY DEF ScreenIsCurrent
<1> USE DEF Inv, TypeOK
<1>1. ASSUME NEW r \in Requests, Arrive(r)
      PROVE  shown'[i].menu = currentMenu'[sessions'[i]]
    <2>1. UNCHANGED <<sessions, currentMenu, shown>> /\ i \notin overlapped
        BY <1>1 DEF Arrive
    <2>2. ASSUME NEW q \in Requests, sid[q] = i PROVE ~InProgress(q)
        <3>1. CASE q = r
            BY <1>1, <3>1 DEF Arrive, Goes, InProgress
        <3>2. CASE q # r
            BY <1>1, <2>2, <3>2 DEF Arrive, Goes, InProgress, Quiet
        <3>3. QED
            BY <3>1, <3>2
    <2>3. Quiet(i)
        BY <2>2 DEF Quiet
    <2>4. QED
        BY <2>1, <2>3 DEF ScreenIsCurrent
<1>2. ASSUME NEW r \in Requests, Process(r)
      PROVE  shown'[i].menu = currentMenu'[sessions'[i]]
    <2>1. Shape(r)
        BY <1>2, StepShape
    <2>2. i \notin overlapped
        BY <2>1 DEF Shape
    <2>3. CASE sid[r] # i
        <3>1. sessions'[i] = sessions[i] /\ sessions[i] \in Requests
            BY <2>1, <2>3 DEF Shape
        <3>2. Quiet(i)
            BY <2>1, <2>3 DEF Shape, Quiet, InProgress
        <3>3. pc[r] \in Working => session[r] # sessions[i]
            BY <2>3, <3>1 DEF ObjectsOK, WorkOK
        <3>4. UNCHANGED currentMenu[sessions[i]]
            BY <2>1, <3>1, <3>3 DEF Shape
        <3>5. UNCHANGED shown[i]
            BY <1>2, <2>3 DEF Process, GetSession, ShowMain, Unexpected, Exit, BackToMain, Back,
               PopMenu, PopHistory, PanicInBack, Choose, Push, Enter, Invalid, ShowCurrent,
               DropSession, SendResponse
        <3>6. QED
            BY <2>2, <3>1, <3>2, <3>4, <3>5 DEF ScreenIsCurrent
    <2>4. CASE sid[r] = i /\ SendResponse(r)
        <3>1. UNCHANGED <<sessions, currentMenu>> /\ pc[r] = "send"
            BY <2>4 DEF SendResponse, Goes
        <3>2. session[r] = sessions[i]
            BY <2>2, <2>4, <3>1 DEF InPlace, Working, Location
        <3>3. shown'[i] = [op |-> op[r], menu |-> reply[r]]
            BY <2>4 DEF SendResponse
        <3>4. shown'[i].op = op[r] /\ shown'[i].menu = reply[r]
            BY <3>3
        <3>5. reply[r] = currentMenu[session[r]]
            BY <2>2, <2>4, <3>1, <3>4 DEF PathStates, PathState
        <3>6. QED
            BY <3>1, <3>2, <3>4, <3>5
    <2>5. CASE sid[r] = i /\ ~SendResponse(r)
        <3>1. sid'[r] = i
            BY <1>2, <2>5 DEF Process, GetSession, ShowMain, Unexpected, Exit, BackToMain,
               Back, PopMenu, PopHistory, PanicInBack, Choose, Push, Enter, Invalid,
               ShowCurrent, DropSession, reqVars
        <3>2. InProgress(r)'
            BY <1>2, <2>1, <2>5 DEF Process, GetSession, ShowMain, Unexpected, Exit, BackToMain,
               Back, PopMenu, PopHistory, PanicInBack, Choose, Push, Enter, Invalid,
               ShowCurrent, DropSession, Goes, InProgress, Shape
        <3>3. QED
            BY <3>1, <3>2 DEF Quiet
    <2>6. QED
        BY <2>3, <2>4, <2>5
<1>3. CASE UNCHANGED vars
    BY <1>3 DEF vars, ScreenIsCurrent, Quiet, InProgress
<1>4. QED
    BY <1>1, <1>2, <1>3 DEF Next

----
LEMMA InitInv == Init => Inv
<1> SUFFICES ASSUME Init PROVE Inv
    OBVIOUS
<1> USE ConstantsAssumption DEF Init
<1>1. TypeOK
    <2>1. history \in [Requests -> Seq(Items)] /\ currentMenu \in [Requests -> Items]
        BY DEF Main
    <2>2. pc \in [Requests -> Location] /\ op \in [Requests -> Ops]
        BY DEF Location, Ops
    <2>3. panicked \in BOOLEAN
        OBVIOUS
    <2>4. overlapped \in SUBSET SessionIds /\ dropped \in SUBSET Requests
        OBVIOUS
    <2>5. QED
        BY <2>1, <2>2, <2>3, <2>4 DEF TypeOK
<1>2. WorkOK
    BY DEF WorkOK, InProgress, Working, Location
<1>3. ObjectsOK
    BY DEF ObjectsOK, Fresh
<1>4. Exclusive /\ InPlace /\ Resting
    BY DEF Exclusive, InPlace, Resting, InProgress, Working, Location
<1>5. PathStates
    BY DEF PathStates, PathState
<1>6. SessionLostOnlyByExit /\ NoPanic /\ ScreenIsCurrent
    BY DEF SessionLostOnlyByExit, NoPanic, ScreenIsCurrent
<1>7. QED
    BY <1>1, <1>2, <1>3, <1>4, <1>5, <1>6 DEF Inv

LEMMA Invariance == Spec => []Inv
<1>1. Inv /\ [Next]_vars => Inv'
    BY TypeStep, WorkStep, ObjectsStep, ExclusiveStep, InPlaceStep, PathStep, RestingStep,
       LostStep, PanicStep, ScreenStep DEF Inv
<1>2. QED
    BY <1>1, InitInv, PTL DEF Spec

\* Every variable keeps its type: no lookup in ussdmenu.items gives the empty text.
THEOREM TypeCorrect == Spec => []TypeOK
<1>1. Inv => TypeOK
    BY DEF Inv
<1>2. QED
    BY <1>1, Invariance, PTL

\* A request works on the session of the map, or on one that a request to exit took out.
THEOREM SessionLostOnlyByExitHolds == Spec => []SessionLostOnlyByExit
<1>1. Inv => SessionLostOnlyByExit
    BY DEF Inv
<1>2. QED
    BY <1>1, Invariance, PTL

\* The history is popped when it is empty only if requests of one session overlap.
THEOREM NoPanicHolds == Spec => []NoPanic
<1>1. Inv => NoPanic
    BY DEF Inv
<1>2. QED
    BY <1>1, Invariance, PTL

\* The history of a session without overlap is a way through the menus from the main one.
THEOREM HistoryIsPathHolds == Spec => []HistoryIsPath
<1>1. Inv => HistoryIsPath
    <2> SUFFICES ASSUME Inv, NEW i \in SessionIds, Quiet(i), i \notin overlapped,
                        sessions[i] # None
                 PROVE  IsPath(Path(sessions[i]))
        BY DEF HistoryIsPath, IsPath
    <2>1. \A r \in Requests : sid[r] = i => pc[r] \notin Working
        BY DEF Quiet, InProgress, Working
    <2>2. QED
        BY <2>1 DEF Inv, Resting
<1>2. QED
    BY <1>1, Invariance, PTL

\* The user of a session without overlap sees the menu that the session is at.
THEOREM ScreenIsCurrentHolds == Spec => []ScreenIsCurrent
<1>1. Inv => ScreenIsCurrent
    BY DEF Inv
<1>2. QED
    BY <1>1, Invariance, PTL
====
