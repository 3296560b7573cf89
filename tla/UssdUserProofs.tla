---- MODULE UssdUserProofs ----
(***************************************************************************)
(* The console of UssdUser for any number of sessions, requests and lines: *)
(* its types, when it panics, where the lines of the server go and in      *)
(* which order they are displayed.                                         *)
(***************************************************************************)
EXTENDS UssdUser, TLAPS, FiniteSetTheorems, SequenceTheorems

----
(* The types. *)

\* The lines of a menu, given their places in the buffer.
Menu(buf, at) == [i \in DOMAIN at |-> buf[at[i]]]

\* A menu has the lines of the buffer that are at its places.
LEMMA MenuLines ==
    ASSUME NEW buf \in Seq(Lines), NEW welcoming \in SUBSET DOMAIN buf,
           NEW at \in MenuPlaces(buf, welcoming)
    PROVE  /\ Menu(buf, at) \in Seq(Lines)
           /\ DOMAIN Menu(buf, at) = DOMAIN at
           /\ at \in [DOMAIN at -> DOMAIN buf]
           /\ ToSet(Menu(buf, at)) \subseteq ToSet(buf)
           /\ \A i \in ToSet(at) : i \in DOMAIN buf /\ buf[i] \in ToSet(Menu(buf, at))
<1>1. PICK n \in DOMAIN buf : at \in [1..n -> DOMAIN buf]
    BY DEF MenuPlaces
<1>2. n \in Nat /\ DOMAIN at = 1..n
    BY <1>1
<1>3. Menu(buf, at) \in [1..n -> Lines]
    BY <1>1, <1>2 DEF Menu
<1>4. Menu(buf, at) \in Seq(Lines)
    BY <1>2, <1>3
<1>5. \A i \in DOMAIN at : Menu(buf, at)[i] = buf[at[i]] /\ at[i] \in DOMAIN buf
    BY <1>1, <1>2 DEF Menu
<1>6. ToSet(Menu(buf, at)) \subseteq ToSet(buf)
    BY <1>3, <1>5, <1>2 DEF ToSet
<1>7. \A i \in ToSet(at) : i \in DOMAIN buf /\ buf[i] \in ToSet(Menu(buf, at))
    BY <1>2, <1>3, <1>5 DEF ToSet
<1>8. QED
    BY <1>1, <1>2, <1>3, <1>4, <1>6, <1>7

\* No connection has more lines than are read on all of them.
LEMMA LineToRead ==
    ASSUME NEW s \in Sessions, count \in [Sessions -> 0..MaxLines],
           Cardinality(LinesRead) < MaxLines
    PROVE  count[s] + 1 \in Lines
<1>1. MaxLines \in Nat
    BY ConstantsAssumption
<1>2. SUFFICES ASSUME count[s] = MaxLines PROVE FALSE
    BY <1>1 DEF Lines
<1>3. IsFiniteSet(Lines) /\ Cardinality(Lines) = MaxLines
    BY <1>1, FS_Interval DEF Lines
<1>4. IsFiniteSet(Sessions)
    BY ConstantsAssumption, FS_Interval DEF Sessions
<1>5. IsFiniteSet(Sessions \X Lines)
    BY <1>3, <1>4, FS_Product
<1>6. LinesRead \subseteq Sessions \X Lines
    BY DEF LinesRead
<1>7. IsFiniteSet(LinesRead) /\ Cardinality(LinesRead) \in Nat
    BY <1>5, <1>6, FS_Subset, FS_CardinalityType
<1>8. IsFiniteSet({s}) /\ Cardinality({s}) = 1
    BY FS_Singleton
<1>9. IsFiniteSet({s} \X Lines) /\ Cardinality({s} \X Lines) = 1 * MaxLines
    BY <1>3, <1>8, FS_Product
<1>10. {s} \X Lines \subseteq LinesRead
    BY <1>1, <1>2 DEF LinesRead, Lines
<1>11. Cardinality({s} \X Lines) <= Cardinality(LinesRead)
    BY <1>7, <1>10, FS_Subset
<1>12. QED
    BY <1>1, <1>7, <1>9, <1>11

\* What has been gathered or ignored is lines.
LEMMA GatherTypes ==
    ASSUME TypeOK, NEW s \in Sessions, NEW l \in Lines, Gather(s, l)
    PROVE  buffer' \in [Sessions -> Seq(Lines)] /\ ignored' \in [Sessions -> SUBSET Lines]
<1>1. CASE buffer' = [buffer EXCEPT ![s] = Append(@, l)] /\ UNCHANGED ignored
    <2>1. Append(buffer[s], l) \in Seq(Lines)
        BY DEF TypeOK
    <2>2. QED
        BY <1>1, <2>1 DEF TypeOK
<1>2. CASE ignored' = [ignored EXCEPT ![s] = @ \cup {l}] /\ UNCHANGED buffer
    <2>1. ignored[s] \cup {l} \in SUBSET Lines
        BY DEF TypeOK
    <2>2. QED
        BY <1>2, <2>1 DEF TypeOK
<1>3. QED
    BY <1>1, <1>2 DEF Gather

\* Every step keeps the types.
LEMMA TypeStep == TypeOK /\ [Next]_vars => TypeOK'
<1> SUFFICES ASSUME TypeOK, [Next]_vars PROVE TypeOK'
    OBVIOUS
<1> USE DEF TypeOK, OptSession, mainVars, listVars, ghostVars, sessionVars, MainGoes, HandlerGoes
<1>1. CASE Type
    <2>1. requests' = requests + 1 /\ requests < MaxRequests
        BY <1>1 DEF Type
    <2>2. requests' \in 0..MaxRequests
        BY <2>1, ConstantsAssumption
    <2>3. main' \in {"dial", "check", "exited", "leave"} /\ cleared' \in OptSession
        BY <1>1 DEF Type
    <2>4. QED
        BY <1>1, <2>2, <2>3 DEF Type
<1>2. ASSUME NEW from \in {"leave", "check", "cleanup", "reset"}, Panic(from)
      PROVE  TypeOK'
    BY <1>2 DEF Panic
<1>3. CASE Leave
    BY <1>3 DEF Leave
<1>4. CASE Dial
    <2>1. created + 1 \in Sessions /\ created + 1 \in 0..MaxSessions
        BY <1>4, ConstantsAssumption DEF Dial, Sessions
    <2>2. QED
        BY <1>4, <2>1, ConstantsAssumption DEF Dial, Sessions
<1>5. CASE Check \/ NilListenerRuns
    BY <1>5 DEF Check, NilListenerRuns
<1>6. CASE Start
    <2>1. conn # None /\ main' = "write" /\ nilListener' \in BOOLEAN
        BY <1>6 DEF Start
    <2>2. /\ listener' \in [Sessions -> {"none", "read", "compare", "clear", "ended"}]
          /\ handler' \in [Sessions -> {"none", "select", "compare", "clear", "ended"}]
        BY <1>6 DEF Start
    <2>3. QED
        BY <1>6, <2>1, <2>2 DEF Start
<1>7. CASE DialFail \/ Write \/ WriteFail
    BY <1>7 DEF DialFail, Write, WriteFail
<1>8. CASE CleanUp
    BY <1>8, EmptySeq DEF CleanUp, SetClosed
<1>9. CASE Reset
    BY <1>9, EmptySeq DEF Reset
<1>10. ASSUME NEW s \in Sessions, Read(s) PROVE TypeOK'
    <2>1. count[s] + 1 \in Lines
        BY <1>10, LineToRead DEF Read
    <2>2. count[s] + 1 \in 0..MaxLines
        BY <2>1 DEF Lines
    <2>3. Append(channel[s], count[s] + 1) \in Seq(Lines)
        BY <2>1
    <2>4. count' \in [Sessions -> 0..MaxLines]
        BY <1>10, <2>2 DEF Read
    <2>5. channel' \in [Sessions -> Seq(Lines)]
        BY <1>10, <2>3 DEF Read
    <2>6. spawned' \in [Sessions -> SUBSET Lines]
        <3>1. spawned[s] \cup {count[s] + 1} \in SUBSET Lines
            BY <2>1
        <3>2. \/ spawned' = spawned
              \/ spawned' = [spawned EXCEPT ![s] = @ \cup {count[s] + 1}]
            BY <1>10 DEF Read
        <3>3. QED
            BY <3>1, <3>2
    <2>7. overflowed' \in [Sessions -> BOOLEAN]
        <3>1. (overflowed[s] \/ ~(Len(channel[s]) < Cap)) \in BOOLEAN
            OBVIOUS
        <3>2. \/ overflowed' = overflowed
              \/ overflowed' = [overflowed EXCEPT ![s] = @ \/ ~(Len(channel[s]) < Cap)]
            BY <1>10 DEF Read
        <3>3. QED
            BY <3>1, <3>2
    <2>8. QED
        BY <1>10, <2>4, <2>5, <2>6, <2>7 DEF Read
<1>11. ASSUME NEW s \in Sessions, ReadFail(s) PROVE TypeOK'
    BY <1>11, EmptySeq DEF ReadFail, SetClosed
<1>12. ASSUME NEW s \in Sessions, ListenerCompares(s) \/ ListenerClears(s) PROVE TypeOK'
    BY <1>12 DEF ListenerCompares, ListenerClears
<1>13. ASSUME NEW s \in Sessions, Take(s) PROVE TypeOK'
    <2>1. channel[s] \in Seq(Lines) /\ channel[s] # <<>>
        BY <1>13 DEF Take
    <2>2. Head(channel[s]) \in Lines /\ Tail(channel[s]) \in Seq(Lines)
        BY <2>1
    <2>3. buffer' \in [Sessions -> Seq(Lines)] /\ ignored' \in [Sessions -> SUBSET Lines]
        BY <1>13, <2>2, GatherTypes DEF Take
    <2>4. QED
        BY <1>13, <2>2, <2>3 DEF Take, Gather
<1>14. ASSUME NEW s \in Sessions, NEW l \in spawned[s], ProcessSpawned(s, l) PROVE TypeOK'
    <2>1. l \in Lines
        OBVIOUS
    <2>2. buffer' \in [Sessions -> Seq(Lines)] /\ ignored' \in [Sessions -> SUBSET Lines]
        BY <1>14, <2>1, GatherTypes DEF ProcessSpawned
    <2>3. QED
        BY <1>14, <2>2 DEF ProcessSpawned, Gather
<1>15. ASSUME NEW s \in Sessions, NEW welcoming \in SUBSET DOMAIN buffer[s],
              Shows(s, welcoming)
       PROVE  shown' \in [Sessions -> Seq(Lines)] /\ welcomes' \in [Sessions -> SUBSET Lines]
    <2>1. PICK at \in MenuPlaces(buffer[s], welcoming) :
              /\ shown' = [shown EXCEPT ![s] = @ \o Menu(buffer[s], at)]
              /\ \/ welcomes' = welcomes
                 \/ welcomes' = [welcomes EXCEPT ![s] =
                                    @ \cup {buffer[s][i] : i \in welcoming}]
        BY <1>15 DEF Shows, Menu
    <2>2. Menu(buffer[s], at) \in Seq(Lines)
        BY MenuLines
    <2>3. {buffer[s][i] : i \in welcoming} \subseteq Lines
        OBVIOUS
    <2>4. shown[s] \o Menu(buffer[s], at) \in Seq(Lines)
        BY <2>2
    <2>5. QED
        BY <2>1, <2>3, <2>4
<1>16. ASSUME NEW s \in Sessions, Display(s) PROVE TypeOK'
    BY <1>15, <1>16, EmptySeq DEF Display
<1>17. ASSUME NEW s \in Sessions, DisplayEnd(s) PROVE TypeOK'
    BY <1>15, <1>17, EmptySeq DEF DisplayEnd, SetClosed
<1>18. ASSUME NEW s \in Sessions, HandlerCompares(s) \/ HandlerClears(s) \/ HandlerEnds(s)
       PROVE  TypeOK'
    BY <1>18 DEF HandlerCompares, HandlerClears, HandlerEnds
<1>19. CASE UNCHANGED vars
    BY <1>19 DEF vars
<1>20. QED
    BY <1>1, <1>2, <1>3, <1>4, <1>5, <1>6, <1>7, <1>8, <1>9, <1>10, <1>11, <1>12, <1>13, <1>14,
       <1>16, <1>17, <1>18, <1>19 DEF Next, Console, Listener, Ticks

\* The variables begin with their types.
LEMMA InitTypes == Init => TypeOK
<1> SUFFICES ASSUME Init PROVE TypeOK
    OBVIOUS
<1>1. 0 \in 0..MaxSessions /\ 0 \in 0..MaxRequests /\ 0 \in 0..MaxLines
    BY ConstantsAssumption
<1>2. /\ main = "prompt" /\ conn \in OptSession /\ activeSession \in OptSession
      /\ nilListener = FALSE /\ cleared \in OptSession
    BY DEF Init, OptSession
<1>3. created \in 0..MaxSessions /\ requests \in 0..MaxRequests
    BY <1>1 DEF Init
<1>4. /\ listener \in [Sessions -> {"none", "read", "compare", "clear", "ended"}]
      /\ handler \in [Sessions -> {"none", "select", "compare", "clear", "ended"}]
    BY DEF Init
<1>5. /\ closed \in [Sessions -> BOOLEAN] /\ open \in [Sessions -> BOOLEAN]
      /\ overflowed \in [Sessions -> BOOLEAN]
    BY DEF Init
<1>6. /\ channel \in [Sessions -> Seq(Lines)] /\ buffer \in [Sessions -> Seq(Lines)]
      /\ shown \in [Sessions -> Seq(Lines)]
      /\ spawned \in [Sessions -> SUBSET Lines] /\ ignored \in [Sessions -> SUBSET Lines]
      /\ welcomes \in [Sessions -> SUBSET Lines]
    BY EmptySeq DEF Init
<1>7. forgotten \in [Sessions -> 0..MaxLines] /\ count \in [Sessions -> 0..MaxLines]
    BY <1>1 DEF Init
<1>8. QED
    BY <1>2, <1>3, <1>4, <1>5, <1>6, <1>7 DEF TypeOK

\* The console keeps its variables within their types, and never writes to a connection that
\* it does not have.
THEOREM TypeCorrect == Spec => []TypeOK
<1>1. QED
    BY InitTypes, TypeStep, PTL DEF Spec

----
(* When the program panics. *)

\* Between its test of activeSession and its last use of it, the console loop has a session
\* unless a goroutine of one that has ended has taken it away, and so has a listener.
InUse == main \in {"leave", "check", "start", "write", "cleanup", "reset"}

ClearedByEnded == cleared # None /\ closed[cleared]

KeptInUse == (InUse /\ activeSession = None) \/ nilListener => ClearedByEnded

\* A goroutine compares activeSession with its session only after that has ended.
EndedFirst(s) ==
    listener[s] \in {"compare", "clear"} \/ handler[s] \in {"compare", "clear"} => closed[s]

AllEndedFirst == \A s \in Sessions : EndedFirst(s)

Inv == TypeOK /\ KeptInUse /\ AllEndedFirst /\ NoPanic

\* No session that has ended opens again.
LEMMA ClosedStays == TypeOK /\ [Next]_vars => \A s \in Sessions : closed[s] => closed'[s]
<1> SUFFICES ASSUME TypeOK, [Next]_vars, NEW s \in Sessions, closed[s] PROVE closed'[s]
    OBVIOUS
<1> USE DEF TypeOK, mainVars, listVars, ghostVars, sessionVars
<1>1. CASE Type \/ Console
    BY <1>1 DEF Type, Console, Panic, Leave, Check, Dial, DialFail, Start, NilListenerRuns, Write,
                WriteFail, CleanUp, Reset, SetClosed
<1>2. ASSUME NEW r \in Sessions, Listener(r) \/ Take(r) PROVE closed'[s]
    BY <1>2 DEF Listener, Read, ReadFail, ListenerCompares, ListenerClears, SetClosed, Take
<1>3. ASSUME NEW r \in Sessions, Ticks(r) PROVE closed'[s]
    BY <1>3 DEF Ticks, Display, DisplayEnd, HandlerCompares, HandlerClears, HandlerEnds,
                HandlerGoes, SetClosed
<1>4. ASSUME NEW r \in Sessions, NEW l \in spawned[r], ProcessSpawned(r, l) PROVE closed'[s]
    BY <1>4 DEF ProcessSpawned
<1>5. CASE UNCHANGED vars
    BY <1>5 DEF vars
<1>6. QED
    BY <1>1, <1>2, <1>3, <1>4, <1>5 DEF Next

LEMMA EndedStep == Inv /\ [Next]_vars => AllEndedFirst'
<1> SUFFICES ASSUME Inv, [Next]_vars, NEW s \in Sessions PROVE EndedFirst(s)'
    BY DEF AllEndedFirst
<1> USE DEF Inv, AllEndedFirst, EndedFirst, TypeOK, mainVars, listVars, ghostVars, sessionVars
<1>0. closed[s] => closed'[s]
    BY ClosedStays
<1>1. CASE Start
    BY <1>0, <1>1 DEF Start, OptSession
<1>2. CASE Type \/ (Console /\ ~Start)
    <2>1. UNCHANGED <<listener, handler>>
        BY <1>2 DEF Type, Console, Panic, Leave, Check, Dial, DialFail, NilListenerRuns, Write,
                    WriteFail, CleanUp, Reset
    <2>2. QED
        BY <1>0, <2>1
<1>3. ASSUME NEW r \in Sessions, Listener(r) PROVE EndedFirst(s)'
    BY <1>0, <1>3 DEF Listener, Read, ReadFail, ListenerCompares, ListenerClears, SetClosed
<1>4. ASSUME NEW r \in Sessions, Ticks(r) PROVE EndedFirst(s)'
    BY <1>0, <1>4 DEF Ticks, Display, DisplayEnd, HandlerCompares, HandlerClears, HandlerEnds,
                HandlerGoes, SetClosed
<1>5. ASSUME NEW r \in Sessions, Take(r) \/ \E l \in spawned[r] : ProcessSpawned(r, l)
      PROVE  EndedFirst(s)'
    BY <1>0, <1>5 DEF Take, ProcessSpawned
<1>6. CASE UNCHANGED vars
    BY <1>6 DEF vars
<1>7. QED
    BY <1>1, <1>2, <1>3, <1>4, <1>5, <1>6 DEF Next

\* Who sets activeSession to nil while the console loop uses it says so, and a new input
\* does not begin before the last one has been dealt with.
LEMMA KeptStep == Inv /\ [Next]_vars => KeptInUse' /\ NoPanic'
<1> SUFFICES ASSUME Inv, [Next]_vars PROVE KeptInUse' /\ NoPanic'
    OBVIOUS
<1> USE DEF Inv, KeptInUse, InUse, NoPanic, ClearedByEnded, mainVars, MainGoes, Running,
            sessionVars
<1>0. ClearedByEnded /\ UNCHANGED cleared => ClearedByEnded'
    BY ClosedStays DEF TypeOK, OptSession
<1>1. CASE Type
    BY <1>0, <1>1 DEF Type
<1>2. ASSUME NEW from \in {"leave", "check", "cleanup", "reset"}, Panic(from)
      PROVE  KeptInUse' /\ NoPanic'
    BY <1>0, <1>2 DEF Panic
<1>3. CASE Leave \/ CleanUp
    BY <1>0, <1>3 DEF Leave, CleanUp
<1>4. CASE Dial
    <2>1. created + 1 \in 1..MaxSessions
        BY <1>4, ConstantsAssumption DEF Dial, TypeOK
    <2>2. activeSession' # None /\ main' = "start" /\ UNCHANGED <<cleared, nilListener>>
        BY <1>4, <2>1, ConstantsAssumption DEF Dial
    <2>3. QED
        BY <1>0, <2>2
<1>5. CASE Check \/ DialFail \/ Start \/ NilListenerRuns \/ Write \/ WriteFail \/ Reset
    BY <1>0, <1>5 DEF Check, DialFail, Start, NilListenerRuns, Write, WriteFail, Reset
<1>6. ASSUME NEW s \in Sessions, Read(s) \/ ReadFail(s) \/ ListenerCompares(s)
      PROVE  KeptInUse' /\ NoPanic'
    BY <1>0, <1>6 DEF Read, ReadFail, ListenerCompares
<1>7. ASSUME NEW s \in Sessions, ListenerClears(s) \/ HandlerClears(s)
      PROVE  KeptInUse' /\ NoPanic'
    <2>1. cleared' = s /\ closed'[s] /\ UNCHANGED <<main, nilListener>>
        BY <1>7 DEF ListenerClears, HandlerClears, HandlerGoes, AllEndedFirst, EndedFirst
    <2>2. s # None
        BY ConstantsAssumption DEF Sessions
    <2>3. QED
        BY <2>1, <2>2
<1>8. ASSUME NEW s \in Sessions,
             Take(s) \/ Display(s) \/ DisplayEnd(s) \/ HandlerCompares(s) \/ HandlerEnds(s)
      PROVE  KeptInUse' /\ NoPanic'
    BY <1>0, <1>8 DEF Take, Display, DisplayEnd, HandlerCompares, HandlerEnds, HandlerGoes
<1>9. ASSUME NEW s \in Sessions, NEW l \in spawned[s], ProcessSpawned(s, l)
      PROVE  KeptInUse' /\ NoPanic'
    BY <1>0, <1>9 DEF ProcessSpawned
<1>10. CASE UNCHANGED vars
    BY <1>0, <1>10 DEF vars
<1>11. QED
    BY <1>1, <1>2, <1>3, <1>4, <1>5, <1>6, <1>7, <1>8, <1>9, <1>10
       DEF Next, Console, Listener, Ticks

\* The console uses a session that is nil only if a goroutine of a session that has ended has
\* set it to nil since the input at hand was tested against it.
THEOREM NoPanicHolds == Spec => []NoPanic
<1>1. Init => Inv
    BY InitTypes DEF Init, Inv, KeptInUse, InUse, AllEndedFirst, EndedFirst, NoPanic
<1>2. Inv /\ [Next]_vars => Inv'
    BY TypeStep, KeptStep, EndedStep DEF Inv
<1>3. Inv => NoPanic
    BY DEF Inv
<1>4. QED
    BY <1>1, <1>2, <1>3, PTL DEF Spec

----
(* What a step does with the lines of one session. *)

SameLines(s) ==
    UNCHANGED <<channel[s], spawned[s], buffer[s], closed[s], shown[s], forgotten[s],
                ignored[s], welcomes[s], overflowed[s], count[s]>>

\* A line has been read: dropped, put into the channel or given to a goroutine.
Reads(s) ==
    /\ count'[s] = count[s] + 1 /\ count'[s] \in Lines
    /\ UNCHANGED <<buffer[s], closed[s], shown[s], forgotten[s], ignored[s], welcomes[s]>>
    /\ \/ closed[s] /\ UNCHANGED <<channel[s], spawned[s], overflowed[s]>>
       \/ /\ ~closed[s] /\ channel'[s] = Append(channel[s], count'[s])
          /\ UNCHANGED <<spawned[s], overflowed[s]>>
       \/ /\ ~closed[s] /\ overflowed'[s] /\ spawned'[s] = spawned[s] \cup {count'[s]}
          /\ UNCHANGED channel[s]

\* The first line of the channel is gathered.
Takes(s) ==
    /\ channel[s] # <<>> /\ channel'[s] = Tail(channel[s])
    /\ buffer'[s] = Append(buffer[s], Head(channel[s]))
    /\ UNCHANGED <<spawned[s], closed[s], shown[s], forgotten[s], ignored[s], welcomes[s],
                   overflowed[s], count[s]>>

\* A line that did not fit in the channel is gathered.
Processes(s) ==
    /\ \E l \in spawned[s] :
          spawned'[s] = spawned[s] \ {l} /\ buffer'[s] = Append(buffer[s], l)
    /\ UNCHANGED <<channel[s], closed[s], shown[s], forgotten[s], ignored[s], welcomes[s],
                   overflowed[s], count[s]>>

\* One of these lines is of a type that is not displayed.
Ignores(s) ==
    /\ \/ /\ channel[s] # <<>> /\ channel'[s] = Tail(channel[s]) /\ UNCHANGED spawned[s]
          /\ ignored'[s] = ignored[s] \cup {Head(channel[s])}
       \/ \E l \in spawned[s] :
             /\ spawned'[s] = spawned[s] \ {l} /\ UNCHANGED channel[s]
             /\ ignored'[s] = ignored[s] \cup {l}
    /\ UNCHANGED <<buffer[s], closed[s], shown[s], forgotten[s], welcomes[s], overflowed[s],
                   count[s]>>

\* The session is closed, and what is left of it is dropped.
Drops(s) ==
    /\ closed'[s] /\ channel'[s] = <<>> /\ spawned'[s] = {} /\ buffer'[s] = <<>>

\* What has been gathered is displayed, and the session may end with it.
Displays(s) ==
    /\ \E welcoming \in SUBSET DOMAIN buffer[s] : \E at \in MenuPlaces(buffer[s], welcoming) :
          /\ shown'[s] = shown[s] \o Menu(buffer[s], at)
          /\ welcomes'[s] = IF Menu(buffer[s], at) = buffer[s] THEN welcomes[s]
                            ELSE welcomes[s] \cup {buffer[s][i] : i \in welcoming}
    /\ \/ buffer'[s] = <<>> /\ UNCHANGED <<channel[s], spawned[s], closed[s]>>
       \/ Drops(s)
    /\ UNCHANGED <<forgotten[s], ignored[s], overflowed[s], count[s]>>

\* The session ends.
Ends(s) ==
    /\ Drops(s)
    /\ UNCHANGED <<shown[s], forgotten[s], ignored[s], welcomes[s], overflowed[s], count[s]>>

\* What has been gathered is dropped after a request.
Forgets(s) ==
    /\ buffer'[s] = <<>> /\ forgotten'[s] = count[s]
    /\ UNCHANGED <<channel[s], spawned[s], closed[s], shown[s], ignored[s], welcomes[s],
                   overflowed[s], count[s]>>

Shape(s) ==
    \/ SameLines(s) \/ Reads(s) \/ Takes(s) \/ Processes(s) \/ Ignores(s) \/ Displays(s)
    \/ Ends(s) \/ Forgets(s)

\* A step does one of these things with the lines of a session, or nothing.
LEMMA StepShape == TypeOK /\ [Next]_vars => \A s \in Sessions : Shape(s)
<1> SUFFICES ASSUME TypeOK, [Next]_vars, NEW s \in Sessions PROVE Shape(s)
    OBVIOUS
<1> USE DEF Shape, SameLines, mainVars, listVars, ghostVars, sessionVars, TypeOK
<1>1. CASE Type
    BY <1>1 DEF Type
<1>2. ASSUME NEW from \in {"leave", "check", "cleanup", "reset"}, Panic(from)
      PROVE  Shape(s)
    BY <1>2 DEF Panic
<1>3. CASE \/ Leave \/ Check \/ Dial \/ DialFail \/ Start \/ NilListenerRuns
           \/ Write \/ WriteFail
    BY <1>3 DEF Leave, Check, Dial, DialFail, Start, NilListenerRuns, Write, WriteFail
<1>4. CASE CleanUp
    <2>1. activeSession = s => Ends(s)
        BY <1>4 DEF CleanUp, SetClosed, Ends, Drops
    <2>2. activeSession # s => SameLines(s)
        BY <1>4 DEF CleanUp, SetClosed
    <2>3. QED
        BY <2>1, <2>2
<1>5. CASE Reset
    <2>1. activeSession = s => Forgets(s)
        BY <1>5 DEF Reset, Forgets
    <2>2. activeSession # s => SameLines(s)
        BY <1>5 DEF Reset
    <2>3. QED
        BY <2>1, <2>2
<1>6. ASSUME NEW r \in Sessions, Read(r) PROVE Shape(s)
    <2>1. CASE r = s
        <3>1. count[s] + 1 \in Lines /\ count' = [count EXCEPT ![s] = count[s] + 1]
            BY <1>6, <2>1, LineToRead DEF Read
        <3>2. count'[s] = count[s] + 1
            BY <3>1
        <3>3. CASE closed[s]
            <4>1. UNCHANGED <<channel, spawned, overflowed>>
                BY <1>6, <2>1, <3>3 DEF Read
            <4>2. QED
                BY <1>6, <2>1, <3>1, <3>2, <3>3, <4>1 DEF Read, Reads
        <3>4. CASE ~closed[s] /\ Len(channel[s]) < Cap
            <4>1. /\ channel' = [channel EXCEPT ![s] = Append(@, count[s] + 1)]
                  /\ spawned' = spawned
                  /\ overflowed' = [overflowed EXCEPT ![s] = @ \/ FALSE]
                BY <1>6, <2>1, <3>4 DEF Read
            <4>2. overflowed'[s] = overflowed[s]
                BY <4>1
            <4>3. QED
                BY <1>6, <2>1, <3>1, <3>2, <3>4, <4>1, <4>2 DEF Read, Reads
        <3>5. CASE ~closed[s] /\ ~(Len(channel[s]) < Cap)
            <4>1. /\ channel' = channel
                  /\ spawned' = [spawned EXCEPT ![s] = @ \cup {count[s] + 1}]
                  /\ overflowed' = [overflowed EXCEPT ![s] = @ \/ TRUE]
                BY <1>6, <2>1, <3>5 DEF Read
            <4>2. overflowed'[s]
                BY <4>1
            <4>3. QED
                BY <1>6, <2>1, <3>1, <3>2, <3>5, <4>1, <4>2 DEF Read, Reads
        <3>6. QED
            BY <2>1, <3>3, <3>4, <3>5
    <2>2. CASE r # s
        BY <1>6, <2>2 DEF Read
    <2>3. QED
        BY <2>1, <2>2
<1>7. ASSUME NEW r \in Sessions, ReadFail(r) PROVE Shape(s)
    <2>1. r = s => Ends(s)
        BY <1>7 DEF ReadFail, SetClosed, Ends, Drops
    <2>2. r # s => SameLines(s)
        BY <1>7 DEF ReadFail, SetClosed
    <2>3. QED
        BY <2>1, <2>2
<1>8. ASSUME NEW r \in Sessions, ListenerCompares(r) \/ ListenerClears(r) PROVE Shape(s)
    BY <1>8 DEF ListenerCompares, ListenerClears
<1>9. ASSUME NEW r \in Sessions, Take(r) PROVE Shape(s)
    <2>1. r = s => Takes(s) \/ Ignores(s)
        <3>1. CASE /\ buffer' = [buffer EXCEPT ![r] = Append(@, Head(channel[r]))]
                   /\ UNCHANGED ignored
            BY <1>9, <3>1 DEF Take, Gather, Takes
        <3>2. CASE /\ ignored' = [ignored EXCEPT ![r] = @ \cup {Head(channel[r])}]
                   /\ UNCHANGED buffer
            BY <1>9, <3>2 DEF Take, Gather, Ignores
        <3>3. QED
            BY <1>9, <3>1, <3>2 DEF Take, Gather
    <2>2. r # s => SameLines(s)
        BY <1>9 DEF Take, Gather
    <2>3. QED
        BY <2>1, <2>2
<1>10. ASSUME NEW r \in Sessions, NEW l \in spawned[r], ProcessSpawned(r, l) PROVE Shape(s)
    <2>1. r = s => Processes(s) \/ Ignores(s)
        <3>1. CASE buffer' = [buffer EXCEPT ![r] = Append(@, l)] /\ UNCHANGED ignored
            BY <1>10, <3>1 DEF ProcessSpawned, Gather, Processes
        <3>2. CASE ignored' = [ignored EXCEPT ![r] = @ \cup {l}] /\ UNCHANGED buffer
            BY <1>10, <3>2 DEF ProcessSpawned, Gather, Ignores
        <3>3. QED
            BY <1>10, <3>1, <3>2 DEF ProcessSpawned, Gather
    <2>2. r # s => SameLines(s)
        BY <1>10 DEF ProcessSpawned, Gather
    <2>3. QED
        BY <2>1, <2>2
<1>11. ASSUME NEW r \in Sessions, NEW welcoming \in SUBSET DOMAIN buffer[r],
              Shows(r, welcoming), Display(r) \/ DisplayEnd(r)
       PROVE  Shape(s)
    <2>1. PICK at \in MenuPlaces(buffer[r], welcoming) :
              /\ shown' = [shown EXCEPT ![r] = @ \o Menu(buffer[r], at)]
              /\ welcomes' = [welcomes EXCEPT ![r] =
                     IF Menu(buffer[r], at) = buffer[r] THEN @
                     ELSE @ \cup {buffer[r][i] : i \in welcoming}]
        BY <1>11 DEF Shows, Menu
    <2>2. CASE r = s
        <3>1. /\ shown'[s] = shown[s] \o Menu(buffer[s], at)
              /\ welcomes'[s] = IF Menu(buffer[s], at) = buffer[s] THEN welcomes[s]
                                ELSE welcomes[s] \cup {buffer[s][i] : i \in welcoming}
            BY <2>1, <2>2
        <3>2. \/ buffer'[s] = <<>> /\ UNCHANGED <<channel[s], spawned[s], closed[s]>>
              \/ Drops(s)
            BY <1>11, <2>2 DEF Display, DisplayEnd, SetClosed, Drops
        <3>3. UNCHANGED <<forgotten[s], ignored[s], overflowed[s], count[s]>>
            BY <1>11 DEF Display, DisplayEnd
        <3>4. Displays(s)
            BY <2>2, <3>1, <3>2, <3>3 DEF Displays
        <3>5. QED
            BY <3>4
    <2>3. CASE r # s
        BY <1>11, <2>1, <2>3 DEF Display, DisplayEnd, SetClosed
    <2>4. QED
        BY <2>2, <2>3
<1>12. ASSUME NEW r \in Sessions, Display(r) \/ DisplayEnd(r) PROVE Shape(s)
    BY <1>11, <1>12 DEF Display, DisplayEnd
<1>13. ASSUME NEW r \in Sessions, HandlerCompares(r) \/ HandlerClears(r) \/ HandlerEnds(r)
       PROVE  Shape(s)
    BY <1>13 DEF HandlerCompares, HandlerClears, HandlerEnds
<1>14. CASE UNCHANGED vars
    BY <1>14 DEF vars
<1>15. QED
    BY <1>1, <1>2, <1>3, <1>4, <1>5, <1>6, <1>7, <1>8, <1>9, <1>10, <1>12, <1>13, <1>14
       DEF Next, Console, Listener, Ticks

----
(* The order of lines, and how it is kept by the operations on sequences. *)

\* The lines of seq rise, unless late.
Rising(seq, late) ==
    \A i, j \in DOMAIN seq : i < j => seq[i] # seq[j] /\ (seq[i] < seq[j] \/ late)

\* The lines of A come before those of B, unless late, and none is in both.
Precede(A, B, late) == \A x \in A, y \in B : x # y /\ (x < y \/ late)

\* A line that comes after the others of a sequence can be appended to it.
LEMMA AppendRises ==
    ASSUME NEW seq \in Seq(Lines), NEW line \in Lines, NEW late \in BOOLEAN,
           Rising(seq, late), Precede(ToSet(seq), {line}, late)
    PROVE  /\ Append(seq, line) \in Seq(Lines)
           /\ Rising(Append(seq, line), late)
           /\ ToSet(Append(seq, line)) = ToSet(seq) \cup {line}
<1>1. DOMAIN Append(seq, line) = 1..Len(seq) + 1 /\ DOMAIN seq = 1..Len(seq)
    OBVIOUS
<1>2. \A i \in 1..Len(seq) : Append(seq, line)[i] = seq[i]
    OBVIOUS
<1>3. Append(seq, line)[Len(seq) + 1] = line
    OBVIOUS
<1>4. Rising(Append(seq, line), late)
    BY <1>1, <1>2, <1>3 DEF Rising, Precede, ToSet
<1>5. ToSet(Append(seq, line)) = ToSet(seq) \cup {line}
    BY <1>1, <1>2, <1>3 DEF ToSet
<1>6. QED
    BY <1>4, <1>5

\* The head of a sequence comes before its tail.
LEMMA TailRises ==
    ASSUME NEW seq \in Seq(Lines), seq # <<>>, NEW late \in BOOLEAN, Rising(seq, late)
    PROVE  /\ Head(seq) \in Lines /\ Tail(seq) \in Seq(Lines)
           /\ ToSet(seq) = {Head(seq)} \cup ToSet(Tail(seq))
           /\ Precede({Head(seq)}, ToSet(Tail(seq)), late)
           /\ Rising(Tail(seq), late)
<1>1. /\ Len(seq) \in Nat \ {0} /\ DOMAIN seq = 1..Len(seq)
      /\ DOMAIN Tail(seq) = 1..Len(seq) - 1
      /\ Head(seq) = seq[1] /\ \A i \in 1..Len(seq) - 1 : Tail(seq)[i] = seq[i + 1]
    OBVIOUS
<1>2. ToSet(seq) = {Head(seq)} \cup ToSet(Tail(seq))
    <2>1. ASSUME NEW i \in 1..Len(seq) PROVE seq[i] \in {Head(seq)} \cup ToSet(Tail(seq))
        <3>1. CASE i = 1
            BY <1>1, <3>1
        <3>2. CASE i # 1
            <4>1. i - 1 \in 1..Len(seq) - 1 /\ seq[i] = Tail(seq)[i - 1]
                BY <1>1, <3>2
            <4>2. QED
                BY <1>1, <4>1 DEF ToSet
        <3>3. QED
            BY <3>1, <3>2
    <2>2. ASSUME NEW i \in 1..Len(seq) - 1 PROVE Tail(seq)[i] \in ToSet(seq)
        <3>1. i + 1 \in 1..Len(seq) /\ Tail(seq)[i] = seq[i + 1]
            BY <1>1
        <3>2. QED
            BY <1>1, <3>1 DEF ToSet
    <2>3. Head(seq) \in ToSet(seq)
        BY <1>1 DEF ToSet
    <2>4. QED
        BY <1>1, <2>1, <2>2, <2>3 DEF ToSet
<1>3. Precede({Head(seq)}, ToSet(Tail(seq)), late)
    BY <1>1 DEF Precede, Rising, ToSet
<1>4. Rising(Tail(seq), late)
    BY <1>1 DEF Rising
<1>5. QED
    BY <1>1, <1>2, <1>3, <1>4

\* What two sequences have, their concatenation has, the lines of the first before.
LEMMA Joined ==
    ASSUME NEW seq \in Seq(Lines), NEW more \in Seq(Lines)
    PROVE  /\ seq \o more \in Seq(Lines)
           /\ ToSet(seq \o more) = ToSet(seq) \cup ToSet(more)
           /\ \A i \in DOMAIN (seq \o more) :
                 \/ i \in DOMAIN seq /\ (seq \o more)[i] = seq[i]
                 \/ i - Len(seq) \in DOMAIN more /\ (seq \o more)[i] = more[i - Len(seq)]
                    /\ i > Len(seq)
<1>1. /\ Len(seq) \in Nat /\ DOMAIN seq = 1..Len(seq)
      /\ Len(more) \in Nat /\ DOMAIN more = 1..Len(more)
      /\ DOMAIN (seq \o more) = 1..Len(seq) + Len(more)
      /\ \A i \in 1..Len(seq) : (seq \o more)[i] = seq[i]
      /\ \A i \in 1..Len(seq) + Len(more) :
            i > Len(seq) => (seq \o more)[i] = more[i - Len(seq)]
    OBVIOUS
<1>2. \A i \in 1..Len(more) : 
         i + Len(seq) \in DOMAIN (seq \o more) /\ (seq \o more)[i + Len(seq)] = more[i]
    BY <1>1
<1>3. \A i \in DOMAIN (seq \o more) :
                 \/ i \in DOMAIN seq /\ (seq \o more)[i] = seq[i]
                 \/ i - Len(seq) \in DOMAIN more /\ (seq \o more)[i] = more[i - Len(seq)]
                    /\ i > Len(seq)
    BY <1>1
<1>4. ToSet(seq) \cup ToSet(more) \subseteq ToSet(seq \o more)
    <2>1. \A i \in DOMAIN seq : seq[i] \in ToSet(seq \o more)
        BY <1>1 DEF ToSet
    <2>2. \A i \in DOMAIN more : more[i] \in ToSet(seq \o more)
        BY <1>1, <1>2 DEF ToSet
    <2>3. QED
        BY <2>1, <2>2 DEF ToSet
<1>5. ToSet(seq \o more) \subseteq ToSet(seq) \cup ToSet(more)
    BY <1>3 DEF ToSet
<1>6. QED
    BY <1>3, <1>4, <1>5

\* The lines of a menu are in order but for those that welcome; one that is not on it
\* welcomes, like a later one that is.
LEMMA MenuRises ==
    ASSUME NEW buf \in Seq(Lines), NEW welcoming \in SUBSET DOMAIN buf, NEW late \in BOOLEAN,
           NEW at \in MenuPlaces(buf, welcoming), Rising(buf, late)
    PROVE  /\ \A i, j \in DOMAIN at : i < j =>
                 /\ buf[at[i]] # buf[at[j]]
                 /\ buf[at[i]] < buf[at[j]] \/ at[i] \in welcoming \/ late
           /\ \A i \in DOMAIN buf \ ToSet(at) :
                 i \in welcoming /\ \E k \in welcoming \cap ToSet(at) :
                     buf[k] # buf[i] /\ (buf[k] > buf[i] \/ late)
<1>1. at \in [DOMAIN at -> DOMAIN buf]
    BY MenuLines
<1>2. DOMAIN buf \subseteq Int /\ \A i \in DOMAIN buf : buf[i] \in Int
    <2>1. DOMAIN buf = 1..Len(buf) /\ \A l \in Lines : l \in Int
        BY DEF Lines
    <2>2. 1..Len(buf) \subseteq Int /\ \A i \in DOMAIN buf : buf[i] \in Lines
        OBVIOUS
    <2>3. QED
        BY <2>1, <2>2
<1>3. \A i, j \in DOMAIN at :
         i < j => at[j] \notin welcoming /\ (at[i] \in welcoming \/ at[i] < at[j])
    BY DEF MenuPlaces
<1>4. ASSUME NEW i \in DOMAIN at, NEW j \in DOMAIN at, i < j
      PROVE  buf[at[i]] # buf[at[j]]
             /\ (buf[at[i]] < buf[at[j]] \/ at[i] \in welcoming \/ late)
    <2>1. at[i] \in DOMAIN buf /\ at[j] \in DOMAIN buf
        BY <1>1
    <2>2. CASE at[i] < at[j]
        BY <2>1, <2>2 DEF Rising
    <2>3. CASE at[i] \in welcoming
        <3>1. at[i] < at[j] \/ at[j] < at[i]
            BY <1>2, <1>3, <1>4, <2>1, <2>3
        <3>2. QED
            BY <2>1, <2>3, <3>1 DEF Rising
    <2>4. QED
        BY <1>3, <1>4, <2>2, <2>3
<1>5. ASSUME NEW i \in DOMAIN buf, i \notin ToSet(at)
      PROVE  i \in welcoming /\ \E k \in welcoming \cap ToSet(at) :
                 buf[k] # buf[i] /\ (buf[k] > buf[i] \/ late)
    <2>1. i \in welcoming
        BY <1>5 DEF MenuPlaces
    <2>2. PICK k \in welcoming \cap ToSet(at) : i < k
        BY <1>5 DEF MenuPlaces
    <2>3. buf[i] # buf[k] /\ (buf[i] < buf[k] \/ late)
        BY <2>2 DEF Rising
    <2>4. buf[k] > buf[i] \/ late
        BY <1>2, <2>2, <2>3
    <2>5. QED
        BY <2>1, <2>2, <2>3, <2>4
<1>6. QED
    BY <1>4, <1>5

----
(* What is known of the lines of a session. *)

\* Nothing is left of a closed session that has not been displayed.
Emptied(s) == closed[s] => channel[s] = <<>> /\ spawned[s] = {} /\ buffer[s] = <<>>

\* Where a line that has been read still is, whoever is there to display it.
Kept(s) == ToSet(channel[s]) \cup spawned[s] \cup ToSet(buffer[s]) \cup ToSet(shown[s])

\* Lines have been read before they are anywhere.
Arrived(s) == forgotten[s] <= count[s] /\ Kept(s) \cup welcomes[s] \subseteq 1..count[s]

\* A line is in one place, and where the channel has never been full, what is displayed came
\* before what is gathered, and that before what is in the channel.
Apart(s) ==
    LET late == overflowed[s]
    IN  /\ Rising(channel[s], late) /\ Rising(buffer[s], late)
        /\ Precede(ToSet(buffer[s]), ToSet(channel[s]), late)
        /\ Precede(ToSet(shown[s]), ToSet(buffer[s]), late)
        /\ Precede(ToSet(shown[s]), ToSet(channel[s]), late)
        /\ spawned[s] # {} => late
        /\ spawned[s] \cap (ToSet(channel[s]) \cup ToSet(buffer[s]) \cup ToSet(shown[s])) = {}
        /\ welcomes[s] \cap (ToSet(channel[s]) \cup ToSet(buffer[s]) \cup spawned[s]) = {}

\* ShownInOrder, and below the places of LinesAccountedFor, for one session.
Shown(s) ==
    \A i, j \in DOMAIN shown[s] : i < j =>
       /\ shown[s][i] # shown[s][j]
       /\ shown[s][i] < shown[s][j] \/ shown[s][i] \in welcomes[s] \/ overflowed[s]

NotLost(s) == ~closed[s] =>
        \A l \in 1..count[s] :
            \/ l \in Kept(s) \cup ignored[s]
            \/ l <= forgotten[s]
            \/ l \in welcomes[s]
               /\ \E k \in welcomes[s] \cap ToSet(shown[s]) : k > l \/ overflowed[s]

Known(s) == Emptied(s) /\ Arrived(s) /\ Apart(s) /\ Shown(s) /\ NotLost(s)

\* Where there are no lines, none is out of order.
LEMMA EmptyRises ==
    ASSUME NEW late
    PROVE  /\ ToSet(<<>>) = {} /\ Rising(<<>>, late)
           /\ \A A : Precede(A, {}, late) /\ Precede({}, A, late)
BY DEF ToSet, Rising, Precede

\* The steps of other sessions, and those that do not touch the lines.
LEMMA SameKnown ==
    ASSUME NEW s \in Sessions, Known(s), SameLines(s) PROVE Known(s)'
BY DEF Known, SameLines, Emptied, Arrived, Apart, Shown, NotLost, Kept

\* A line that is read comes after all that have been read.
LEMMA ReadsKnown ==
    ASSUME NEW s \in Sessions, TypeOK, TypeOK', Known(s), Reads(s) PROVE Known(s)'
<1> DEFINE l == count'[s]
<1> USE DEF Known
<1>1. /\ l \in Lines /\ l = count[s] + 1 /\ count[s] \in Nat /\ l \notin 1..count[s]
      /\ 1..l = 1..count[s] \cup {l} /\ \A x \in 1..count[s] : x \in Int /\ x < l
      /\ l \in Int
    BY DEF Reads, TypeOK, Lines
<1>2. /\ channel[s] \in Seq(Lines) /\ overflowed[s] \in BOOLEAN /\ overflowed'[s] \in BOOLEAN
      /\ spawned[s] \subseteq Lines
    BY DEF TypeOK
<1>3. UNCHANGED <<buffer[s], closed[s], shown[s], forgotten[s], ignored[s], welcomes[s]>>
    BY DEF Reads
<1>4. CASE closed[s] /\ UNCHANGED <<channel[s], spawned[s], overflowed[s]>>
    <2>1. Emptied(s)' /\ Apart(s)' /\ Shown(s)' /\ NotLost(s)'
        BY <1>3, <1>4 DEF Emptied, Apart, Shown, NotLost, Kept
    <2>2. Arrived(s)'
        BY <1>1, <1>3, <1>4 DEF Arrived, Kept, TypeOK
    <2>3. QED
        BY <2>1, <2>2
<1>5. CASE /\ ~closed[s] /\ channel'[s] = Append(channel[s], l)
           /\ UNCHANGED <<spawned[s], overflowed[s]>>
    <2>1. Precede(ToSet(channel[s]), {l}, overflowed[s])
        BY <1>1 DEF Arrived, Kept, Precede
    <2>2. /\ Rising(channel'[s], overflowed[s])
          /\ ToSet(channel'[s]) = ToSet(channel[s]) \cup {l}
        BY <1>1, <1>2, <1>5, <2>1, AppendRises DEF Apart
    <2>3. Emptied(s)' /\ Shown(s)'
        BY <1>3, <1>5 DEF Emptied, Shown
    <2>4. Arrived(s)'
        BY <1>1, <1>3, <1>5, <2>2 DEF Arrived, Kept, TypeOK
    <2>5. Apart(s)'
        BY <1>1, <1>3, <1>5, <2>2 DEF Apart, Arrived, Kept, Precede
    <2>6. NotLost(s)'
        BY <1>1, <1>3, <1>5, <2>2 DEF NotLost, Kept
    <2>7. QED
        BY <2>3, <2>4, <2>5, <2>6
<1>6. CASE /\ ~closed[s] /\ overflowed'[s] /\ spawned'[s] = spawned[s] \cup {l}
           /\ UNCHANGED channel[s]
    <2>1. Emptied(s)' /\ Shown(s)'
        BY <1>3, <1>6 DEF Emptied, Shown
    <2>2. Arrived(s)'
        BY <1>1, <1>3, <1>6 DEF Arrived, Kept, TypeOK
    <2>3. Apart(s)'
        BY <1>1, <1>3, <1>6 DEF Apart, Arrived, Kept, Precede, Rising
    <2>4. NotLost(s)'
        BY <1>1, <1>3, <1>6 DEF NotLost, Kept
    <2>5. QED
        BY <2>1, <2>2, <2>3, <2>4
<1>7. QED
    BY <1>4, <1>5, <1>6 DEF Reads

\* The head of the channel comes after what has been gathered and before its tail.
LEMMA TakesKnown ==
    ASSUME NEW s \in Sessions, TypeOK, Known(s), Takes(s) PROVE Known(s)'
<1> DEFINE l == Head(channel[s])
<1> USE DEF Known
<1>1. /\ channel[s] \in Seq(Lines) /\ buffer[s] \in Seq(Lines) /\ overflowed[s] \in BOOLEAN
      /\ channel[s] # <<>> /\ UNCHANGED overflowed[s]
    BY DEF Takes, TypeOK
<1>2. /\ l \in Lines /\ ToSet(channel[s]) = {l} \cup ToSet(channel'[s])
      /\ Precede({l}, ToSet(channel'[s]), overflowed[s])
      /\ Rising(channel'[s], overflowed[s])
    BY <1>1, TailRises DEF Takes, Apart
<1>3. Precede(ToSet(buffer[s]), {l}, overflowed[s])
    BY <1>2 DEF Apart, Precede
<1>4. /\ Rising(buffer'[s], overflowed[s])
      /\ ToSet(buffer'[s]) = ToSet(buffer[s]) \cup {l}
    <2>1. Rising(buffer[s], overflowed[s]) /\ buffer'[s] = Append(buffer[s], l)
        BY DEF Takes, Apart
    <2>2. QED
        BY <1>1, <1>2, <1>3, <2>1, AppendRises
<1>5. Kept(s)' = Kept(s)
    BY <1>2, <1>4 DEF Kept, Takes
<1>6. Emptied(s)'
    <2>1. ~closed[s] /\ closed'[s] = closed[s]
        BY <1>1 DEF Takes, Emptied
    <2>2. QED
        BY <2>1 DEF Emptied
<1>7. Arrived(s)' /\ Shown(s)' /\ NotLost(s)'
    BY <1>5 DEF Takes, Arrived, Shown, NotLost
<1>8. Apart(s)'
    BY <1>2, <1>4 DEF Takes, Apart, Precede
<1>9. QED
    BY <1>6, <1>7, <1>8

\* Only where the channel has been full is there a line to gather out of order.
LEMMA ProcessesKnown ==
    ASSUME NEW s \in Sessions, TypeOK, Known(s), Processes(s) PROVE Known(s)'
<1> USE DEF Known
<1>1. PICK l \in spawned[s] :
          spawned'[s] = spawned[s] \ {l} /\ buffer'[s] = Append(buffer[s], l)
    BY DEF Processes
<1>2. buffer[s] \in Seq(Lines) /\ l \in Lines /\ overflowed[s] \in BOOLEAN
    BY DEF TypeOK
<1>3. overflowed[s] /\ Precede(ToSet(buffer[s]), {l}, overflowed[s])
    BY DEF Apart, Precede
<1>4. /\ Rising(buffer'[s], overflowed[s])
      /\ ToSet(buffer'[s]) = ToSet(buffer[s]) \cup {l}
    <2>1. Rising(buffer[s], overflowed[s])
        BY DEF Apart
    <2>2. /\ Rising(Append(buffer[s], l), overflowed[s])
          /\ ToSet(Append(buffer[s], l)) = ToSet(buffer[s]) \cup {l}
        BY <1>2, <1>3, <2>1, AppendRises
    <2>3. QED
        BY <1>1, <2>2
<1>5. Kept(s)' = Kept(s)
    BY <1>1, <1>4 DEF Kept, Processes
<1>6. Emptied(s)'
    <2>1. ~closed[s] /\ closed'[s] = closed[s]
        BY <1>1 DEF Processes, Emptied
    <2>2. QED
        BY <2>1 DEF Emptied
<1>7. Arrived(s)' /\ Shown(s)' /\ NotLost(s)'
    BY <1>5 DEF Processes, Arrived, Shown, NotLost
<1>8. Apart(s)'
    BY <1>1, <1>3, <1>4 DEF Processes, Apart, Precede
<1>9. QED
    BY <1>6, <1>7, <1>8

\* A line of a type that is not displayed leaves the others where they are.
LEMMA IgnoresKnown ==
    ASSUME NEW s \in Sessions, TypeOK, Known(s), Ignores(s) PROVE Known(s)'
<1> USE DEF Known
<1>1. /\ UNCHANGED <<buffer[s], closed[s], shown[s], forgotten[s], welcomes[s], overflowed[s],
                     count[s]>>
      /\ channel[s] \in Seq(Lines) /\ overflowed[s] \in BOOLEAN /\ Rising(channel[s], overflowed[s])
    BY DEF Ignores, TypeOK, Apart
<1>2. PICK l : /\ ToSet(channel[s]) \cup spawned[s] = {l} \cup ToSet(channel'[s]) \cup spawned'[s]
               /\ ToSet(channel'[s]) \subseteq ToSet(channel[s]) /\ spawned'[s] \subseteq spawned[s]
               /\ Rising(channel'[s], overflowed[s])
               /\ ignored'[s] = ignored[s] \cup {l}
               /\ ~closed[s]
    <2>1. CASE /\ channel[s] # <<>> /\ channel'[s] = Tail(channel[s]) /\ UNCHANGED spawned[s]
               /\ ignored'[s] = ignored[s] \cup {Head(channel[s])}
        <3>1. /\ ToSet(channel[s]) = {Head(channel[s])} \cup ToSet(channel'[s])
              /\ Rising(channel'[s], overflowed[s])
            BY <1>1, <2>1, TailRises
        <3>2. ~closed[s]
            BY <2>1 DEF Emptied
        <3>3. QED
            BY <2>1, <3>1, <3>2
    <2>2. ASSUME NEW l \in spawned[s], spawned'[s] = spawned[s] \ {l}, UNCHANGED channel[s],
                 ignored'[s] = ignored[s] \cup {l}
          PROVE  /\ ToSet(channel[s]) \cup spawned[s] = {l} \cup ToSet(channel'[s]) \cup spawned'[s]
                 /\ ToSet(channel'[s]) \subseteq ToSet(channel[s])
                 /\ spawned'[s] \subseteq spawned[s]
                 /\ Rising(channel'[s], overflowed[s])
                 /\ ~closed[s]
        BY <1>1, <2>2 DEF Emptied
    <2>3. QED
        BY <2>1, <2>2 DEF Ignores
<1>3. Kept(s)' \subseteq Kept(s) /\ Kept(s) \subseteq Kept(s)' \cup {l}
    BY <1>1, <1>2 DEF Kept
<1>4. Emptied(s)' /\ Shown(s)'
    BY <1>1, <1>2 DEF Emptied, Shown
<1>5. Arrived(s)' /\ NotLost(s)'
    BY <1>1, <1>2, <1>3 DEF Arrived, NotLost
<1>6. Apart(s)'
    BY <1>1, <1>2 DEF Apart, Precede
<1>7. QED
    BY <1>4, <1>5, <1>6

\* What ends a session or sends a request only drops lines: of a session that is closed, or
\* that were read before the request.
LEMMA EndsKnown ==
    ASSUME NEW s \in Sessions, Known(s), Ends(s) \/ Forgets(s), TypeOK PROVE Known(s)'
<1> USE DEF Known
<1>1. /\ buffer'[s] = <<>> /\ ToSet(buffer'[s]) = {} /\ UNCHANGED overflowed[s]
      /\ \/ UNCHANGED channel[s]
         \/ channel'[s] = <<>> /\ ToSet(channel'[s]) = {}
      /\ spawned'[s] \subseteq spawned[s]
      /\ UNCHANGED <<shown[s], ignored[s], welcomes[s], count[s]>>
    BY EmptyRises DEF Ends, Drops, Forgets
<1>2. Emptied(s)' /\ Shown(s)'
    BY DEF Ends, Drops, Forgets, Emptied, Shown
<1>3. Arrived(s)'
    <2>1. Kept(s)' \subseteq Kept(s)
        BY <1>1 DEF Kept
    <2>2. forgotten'[s] <= count[s]
        BY DEF Arrived, Ends, Forgets, TypeOK
    <2>3. QED
        BY <1>1, <2>1, <2>2 DEF Arrived
<1>4. Apart(s)'
    BY <1>1, EmptyRises DEF Apart, Precede, Rising
<1>5. NotLost(s)'
    <2>1. CASE Ends(s)
        BY <2>1 DEF Ends, Drops, NotLost
    <2>2. CASE Forgets(s)
        <3>1. forgotten'[s] = count'[s] /\ count'[s] \in Nat
            BY <2>2 DEF Forgets, TypeOK
        <3>2. QED
            BY <3>1 DEF NotLost
    <2>3. QED
        BY <2>1, <2>2
<1>6. QED
    BY <1>2, <1>3, <1>4, <1>5

\* What is displayed comes after what has been, and is in order but for the line that
\* welcomes; one that is not displayed welcomes, and a later one that does is displayed.
LEMMA DisplaysKnown ==
    ASSUME NEW s \in Sessions, TypeOK, TypeOK', Known(s), Displays(s) PROVE Known(s)'
<1> DEFINE buf == buffer[s]
           late == overflowed[s]
<1> USE DEF Known
<1>0. PICK welcoming \in SUBSET DOMAIN buf : \E at \in MenuPlaces(buf, welcoming) :
          /\ shown'[s] = shown[s] \o Menu(buf, at)
          /\ welcomes'[s] = IF Menu(buf, at) = buf THEN welcomes[s]
                            ELSE welcomes[s] \cup {buf[i] : i \in welcoming}
    BY DEF Displays
<1>1. PICK at \in MenuPlaces(buf, welcoming) :
          /\ shown'[s] = shown[s] \o Menu(buf, at)
          /\ welcomes'[s] = IF Menu(buf, at) = buf THEN welcomes[s]
                            ELSE welcomes[s] \cup {buf[i] : i \in welcoming}
    BY <1>0
<1> DEFINE menu == Menu(buf, at)
<1>2. /\ buf \in Seq(Lines) /\ shown[s] \in Seq(Lines) /\ late \in BOOLEAN
      /\ overflowed'[s] = overflowed[s] /\ count'[s] = count[s]
      /\ forgotten'[s] = forgotten[s] /\ ignored'[s] = ignored[s]
    BY DEF TypeOK, Displays
<1>3. Rising(buf, late)
    BY DEF Apart
<1>4. /\ menu \in Seq(Lines) /\ DOMAIN menu = DOMAIN at /\ at \in [DOMAIN at -> DOMAIN buf]
      /\ ToSet(menu) \subseteq ToSet(buf)
      /\ \A i \in ToSet(at) : i \in DOMAIN buf /\ buf[i] \in ToSet(menu)
    BY <1>1, <1>2, MenuLines
<1>5. /\ shown'[s] \in Seq(Lines) /\ ToSet(shown'[s]) = ToSet(shown[s]) \cup ToSet(menu)
      /\ \A i \in DOMAIN shown'[s] :
            \/ i \in DOMAIN shown[s] /\ shown'[s][i] = shown[s][i]
            \/ /\ i - Len(shown[s]) \in DOMAIN menu /\ i > Len(shown[s])
               /\ shown'[s][i] = menu[i - Len(shown[s])]
    <2>1. /\ shown[s] \o menu \in Seq(Lines)
          /\ ToSet(shown[s] \o menu) = ToSet(shown[s]) \cup ToSet(menu)
          /\ \A i \in DOMAIN (shown[s] \o menu) :
                \/ i \in DOMAIN shown[s] /\ (shown[s] \o menu)[i] = shown[s][i]
                \/ /\ i - Len(shown[s]) \in DOMAIN menu
                   /\ (shown[s] \o menu)[i] = menu[i - Len(shown[s])]
                   /\ i > Len(shown[s])
        BY <1>2, <1>4, Joined
    <2>2. shown'[s] = shown[s] \o menu
        BY <1>1
    <2>3. QED
        BY <2>1, <2>2
<1>6. /\ welcomes[s] \subseteq welcomes'[s]
      /\ welcomes'[s] \subseteq welcomes[s] \cup ToSet(buf)
      /\ menu # buf => \A i \in welcoming : buf[i] \in welcomes'[s]
    BY <1>1 DEF ToSet
<1>7. /\ ToSet(buffer'[s]) = {} /\ buffer'[s] = <<>>
      /\ \/ UNCHANGED <<channel[s], spawned[s], closed[s]>>
         \/ closed'[s] /\ channel'[s] = <<>> /\ ToSet(channel'[s]) = {} /\ spawned'[s] = {}
    BY EmptyRises DEF Displays, Drops
<1>8. Emptied(s)'
    BY <1>7 DEF Emptied
<1>9. Arrived(s)'
    <2>1. Kept(s)' \subseteq Kept(s)
        BY <1>4, <1>5, <1>7 DEF Kept
    <2>2. welcomes'[s] \subseteq Kept(s) \cup welcomes[s]
        BY <1>6 DEF Kept
    <2>3. QED
        BY <1>2, <2>1, <2>2 DEF Arrived
<1>10. Apart(s)'
    <2>1. /\ Rising(channel'[s], late) /\ Rising(buffer'[s], late)
          /\ ToSet(channel'[s]) \subseteq ToSet(channel[s])
          /\ spawned'[s] \subseteq spawned[s]
        BY <1>7, EmptyRises DEF Apart
    <2>2. Precede(ToSet(shown'[s]), ToSet(channel'[s]), late)
        BY <1>4, <1>5, <2>1 DEF Apart, Precede
    <2>3. /\ Precede(ToSet(buffer'[s]), ToSet(channel'[s]), late)
          /\ Precede(ToSet(shown'[s]), ToSet(buffer'[s]), late)
        BY <1>7 DEF Precede
    <2>4. spawned'[s] \cap
              (ToSet(channel'[s]) \cup ToSet(buffer'[s]) \cup ToSet(shown'[s])) = {}
        BY <1>4, <1>5, <1>7, <2>1 DEF Apart
    <2>5. ToSet(buf) \cap (ToSet(channel[s]) \cup spawned[s]) = {}
        BY DEF Apart, Precede
    <2>6. welcomes'[s] \cap (ToSet(channel'[s]) \cup ToSet(buffer'[s]) \cup spawned'[s]) = {}
        BY <1>6, <1>7, <2>1, <2>5 DEF Apart
    <2>7. spawned'[s] # {} => late
        BY <2>1 DEF Apart
    <2>8. QED
        BY <1>2, <2>1, <2>2, <2>3, <2>4, <2>6, <2>7 DEF Apart
<1>11. ASSUME NEW i \in DOMAIN menu, NEW j \in DOMAIN menu, i < j
       PROVE  menu[i] # menu[j] /\ (menu[i] < menu[j] \/ menu[i] \in welcomes'[s] \/ late)
    <2>1. CASE menu = buf
        BY <1>3, <1>11, <2>1 DEF Rising
    <2>2. CASE menu # buf
        <3>1. menu[i] = buf[at[i]] /\ menu[j] = buf[at[j]]
            BY <1>4 DEF Menu
        <3>2. /\ buf[at[i]] # buf[at[j]]
              /\ buf[at[i]] < buf[at[j]] \/ at[i] \in welcoming \/ late
            <4>1. \A x, y \in DOMAIN at : x < y =>
                      /\ buf[at[x]] # buf[at[y]]
                      /\ buf[at[x]] < buf[at[y]] \/ at[x] \in welcoming \/ late
                BY <1>2, <1>3, MenuRises
            <4>2. QED
                BY <1>4, <1>11, <4>1
        <3>3. QED
            BY <1>6, <2>2, <3>1, <3>2
    <2>3. QED
        BY <2>1, <2>2
<1>12. Shown(s)'
    <2> SUFFICES ASSUME NEW i \in DOMAIN shown'[s], NEW j \in DOMAIN shown'[s], i < j
                 PROVE  /\ shown'[s][i] # shown'[s][j]
                        /\ \/ shown'[s][i] < shown'[s][j]
                           \/ shown'[s][i] \in welcomes'[s] \/ overflowed'[s]
        BY DEF Shown
    <2>1. /\ i \in Int /\ i >= 1 /\ j \in Int /\ Len(shown[s]) \in Nat
          /\ DOMAIN shown[s] = 1..Len(shown[s])
        BY <1>2, <1>5
    <2>2. CASE j \in DOMAIN shown[s]
        <3>1. i \in DOMAIN shown[s] /\ shown'[s][i] = shown[s][i] /\ shown'[s][j] = shown[s][j]
            BY <1>5, <2>1, <2>2
        <3>2. QED
            BY <1>2, <1>6, <2>2, <3>1 DEF Shown
    <2>3. CASE i \in DOMAIN shown[s] /\ j \notin DOMAIN shown[s]
        <3>1. /\ shown'[s][i] \in ToSet(shown[s])
              /\ shown'[s][j] \in ToSet(buf)
            <4>1. shown'[s][i] = shown[s][i]
                BY <1>5, <2>1, <2>3
            <4>2. shown'[s][j] \in ToSet(menu)
                BY <1>5, <2>1, <2>3 DEF ToSet
            <4>3. QED
                BY <1>4, <2>3, <4>1, <4>2 DEF ToSet
        <3>2. QED
            BY <1>2, <3>1 DEF Apart, Precede
    <2>4. CASE i \notin DOMAIN shown[s] /\ j \notin DOMAIN shown[s]
        <3>1. /\ i - Len(shown[s]) \in DOMAIN menu /\ j - Len(shown[s]) \in DOMAIN menu
              /\ shown'[s][i] = menu[i - Len(shown[s])]
              /\ shown'[s][j] = menu[j - Len(shown[s])]
            BY <1>5, <2>4
        <3>2. i - Len(shown[s]) < j - Len(shown[s])
            BY <2>1
        <3>3. QED
            <4>1. \A x, y \in DOMAIN menu : x < y =>
                      menu[x] # menu[y]
                      /\ (menu[x] < menu[y] \/ menu[x] \in welcomes'[s] \/ late)
                BY <1>11
            <4>2. QED
                BY <1>2, <3>1, <3>2, <4>1
    <2>5. i \notin DOMAIN shown[s] => j \notin DOMAIN shown[s]
        BY <2>1
    <2>6. QED
        BY <2>2, <2>3, <2>4, <2>5
<1>13. NotLost(s)'
    <2> SUFFICES ASSUME ~closed'[s], NEW l \in 1..count[s]
                 PROVE  \/ l \in Kept(s)' \cup ignored'[s]
                        \/ l <= forgotten'[s]
                        \/ /\ l \in welcomes'[s]
                           /\ \E k \in welcomes'[s] \cap ToSet(shown'[s]) :
                                 k > l \/ overflowed'[s]
        BY <1>2 DEF NotLost
    <2>1. ~closed[s] /\ UNCHANGED <<channel[s], spawned[s]>>
        BY <1>7
    <2>2. CASE l \notin ToSet(buf)
        BY <1>2, <1>5, <1>6, <2>1, <2>2 DEF NotLost, Kept
    <2>3. ASSUME NEW i \in DOMAIN buf, l = buf[i], i \notin ToSet(at)
          PROVE  /\ l \in welcomes'[s]
                 /\ \E k \in welcomes'[s] \cap ToSet(shown'[s]) : k > l \/ overflowed'[s]
        <3>1. i \in welcoming
            BY <1>2, <1>3, <2>3, MenuRises
        <3>2. PICK k \in welcoming \cap ToSet(at) :
                  buf[k] # buf[i] /\ (buf[k] > buf[i] \/ late)
            BY <1>2, <1>3, <2>3, MenuRises
        <3>3. menu # buf
            <4>1. SUFFICES ASSUME menu = buf PROVE FALSE
                OBVIOUS
            <4>2. i \in DOMAIN at /\ buf[i] = buf[at[i]] /\ at[i] # i
                BY <1>4, <2>3, <4>1 DEF Menu, ToSet
            <4>3. at[i] \in DOMAIN buf /\ (at[i] < i \/ i < at[i])
                BY <1>2, <1>4, <4>2
            <4>4. QED
                BY <1>3, <2>3, <4>2, <4>3 DEF Rising
        <3>4. buf[i] \in welcomes'[s] /\ buf[k] \in welcomes'[s] /\ buf[k] \in ToSet(shown'[s])
            BY <1>4, <1>5, <1>6, <3>1, <3>2, <3>3
        <3>5. QED
            BY <1>2, <2>3, <3>2, <3>4
    <2>4. CASE l \in ToSet(buf)
        <3>1. PICK i \in DOMAIN buf : l = buf[i]
            BY <2>4 DEF ToSet
        <3>2. i \in ToSet(at) => l \in Kept(s)'
            BY <1>4, <1>5, <3>1 DEF Kept
        <3>3. QED
            BY <2>3, <3>1, <3>2
    <2>5. QED
        BY <2>2, <2>4
<1>14. QED
    BY <1>8, <1>9, <1>10, <1>12, <1>13

----
\* The inductive invariant of the lines.
LinesKnown == \A s \in Sessions : Known(s)

\* Every step keeps it.
LEMMA KnownStep == TypeOK /\ LinesKnown /\ [Next]_vars => LinesKnown'
<1> SUFFICES ASSUME TypeOK, LinesKnown, [Next]_vars, NEW s \in Sessions PROVE Known(s)'
    BY DEF LinesKnown
<1>1. Known(s) /\ TypeOK'
    BY TypeStep DEF LinesKnown
<1>2. Shape(s)
    BY StepShape
<1>3. QED
    BY <1>1, <1>2, SameKnown, ReadsKnown, TakesKnown, ProcessesKnown, IgnoresKnown,
       DisplaysKnown, EndsKnown
       DEF Shape

\* Nothing has been read at first.
LEMMA InitKnown == Init => LinesKnown
<1> SUFFICES ASSUME Init PROVE LinesKnown
    OBVIOUS
<1>1. ASSUME NEW s \in Sessions PROVE Known(s)
    <2>1. /\ channel[s] = <<>> /\ buffer[s] = <<>> /\ shown[s] = <<>> /\ spawned[s] = {}
          /\ welcomes[s] = {} /\ forgotten[s] = 0 /\ count[s] = 0 /\ ~closed[s]
        BY <1>1 DEF Init
    <2>2. Kept(s) = {}
        BY <2>1, EmptyRises DEF Kept
    <2>3. Emptied(s) /\ Arrived(s) /\ NotLost(s)
        BY <2>1, <2>2 DEF Emptied, Arrived, NotLost
    <2>4. Apart(s)
        BY <2>1, EmptyRises DEF Apart
    <2>5. Shown(s)
        BY <2>1 DEF Shown
    <2>6. QED
        BY <2>3, <2>4, <2>5 DEF Known
<1>2. QED
    BY <1>1 DEF LinesKnown

\* It holds in every state.
LEMMA LinesKnownHolds == Spec => []LinesKnown
<1>1. Init => LinesKnown
    BY InitKnown
<1>2. QED
    BY <1>1, TypeCorrect, KnownStep, PTL DEF Spec

\* The display of an open session ends only when the session has lost its place.
Placed ==
    /\ activeSession # None => activeSession <= created
    /\ \A s \in Sessions :
          /\ s > created => handler[s] = "none"
          /\ handler[s] = "ended" => closed[s] \/ activeSession # s

\* A session that has lost its place never gets it back: only a new one is put there.
LEMMA PlacedStep == TypeOK /\ Placed /\ [Next]_vars => Placed'
<1> SUFFICES ASSUME TypeOK, Placed, [Next]_vars PROVE Placed'
    OBVIOUS
<1> USE DEF Placed, TypeOK, OptSession, mainVars, listVars, ghostVars, sessionVars, MainGoes,
            HandlerGoes
<1>0. \A s \in Sessions : closed[s] => closed'[s]
    BY ClosedStays
<1>1. CASE Dial
    <2>1. created \in Nat /\ created' = created + 1 /\ activeSession' = created'
          /\ UNCHANGED <<handler, closed>>
        BY <1>1, ConstantsAssumption DEF Dial
    <2>2. \A s \in Sessions : s \in Nat
        BY DEF Sessions
    <2>3. QED
        BY <2>1, <2>2
<1>2. CASE Start
    BY <1>2, ConstantsAssumption DEF Start, Sessions
<1>3. CASE Leave \/ CleanUp
    <2>1. activeSession' = None /\ UNCHANGED <<created, handler>>
        BY <1>3 DEF Leave, CleanUp
    <2>2. \A s \in Sessions : s # None
        BY ConstantsAssumption DEF Sessions
    <2>3. QED
        BY <2>1, <2>2
<1>4. CASE UNCHANGED <<activeSession, created, handler>>
    BY <1>0, <1>4
<1>5. ASSUME NEW s \in Sessions, ListenerClears(s) \/ HandlerClears(s) PROVE Placed'
    <2>1. activeSession' = None /\ UNCHANGED created
        BY <1>5 DEF ListenerClears, HandlerClears
    <2>2. \A r \in Sessions : handler'[r] = "none" <=> handler[r] = "none"
        BY <1>5 DEF ListenerClears, HandlerClears
    <2>3. \A r \in Sessions : r # None
        BY ConstantsAssumption DEF Sessions
    <2>4. QED
        BY <2>1, <2>2, <2>3
<1>6. ASSUME NEW s \in Sessions, DisplayEnd(s) \/ HandlerCompares(s) \/ HandlerEnds(s)
      PROVE  Placed'
    <2>1. UNCHANGED <<activeSession, created>>
        BY <1>6 DEF DisplayEnd, HandlerCompares, HandlerEnds
    <2>2. \A r \in Sessions : handler'[r] = "none" <=> handler[r] = "none"
        BY <1>6 DEF DisplayEnd, HandlerCompares, HandlerEnds
    <2>3. \A r \in Sessions : handler'[r] = "ended" =>
              handler[r] = "ended" \/ closed[r] \/ activeSession # r
        BY <1>6 DEF DisplayEnd, HandlerCompares, HandlerEnds
    <2>4. QED
        BY <1>0, <2>1, <2>2, <2>3
<1>7. CASE Type \/ (Console /\ ~Dial /\ ~Start /\ ~Leave /\ ~CleanUp)
    BY <1>4, <1>7 DEF Type, Console, Panic, Check, DialFail, NilListenerRuns, Write, WriteFail, Reset
<1>8. ASSUME NEW s \in Sessions,
             Read(s) \/ ReadFail(s) \/ ListenerCompares(s) \/ Take(s) \/ Display(s)
      PROVE  Placed'
    BY <1>4, <1>8 DEF Read, ReadFail, ListenerCompares, Take, Display
<1>9. ASSUME NEW s \in Sessions, NEW l \in spawned[s], ProcessSpawned(s, l) PROVE Placed'
    BY <1>4, <1>9 DEF ProcessSpawned
<1>10. CASE UNCHANGED vars
    BY <1>4, <1>10 DEF vars
<1>11. QED
    BY <1>1, <1>2, <1>3, <1>5, <1>6, <1>7, <1>8, <1>9, <1>10 DEF Next, Listener, Ticks

\* A line of an open session is displayed or on its way to a display that runs, unless it is
\* of another type, a request has been sent since, a line of the same menu has taken its
\* place, or the session has lost its own.
THEOREM LinesAccountedForHolds == Spec => []LinesAccountedFor
<1>1. Init => Placed
    BY ConstantsAssumption DEF Init, Placed
<1>2. LinesKnown /\ Placed => LinesAccountedFor
    <2> SUFFICES ASSUME LinesKnown, Placed, NEW s \in Sessions, ~closed[s],
                        NEW l \in 1..count[s]
                 PROVE  \/ l \in ToSet(shown[s]) \cup OnItsWay(s)
                        \/ l \in ignored[s] \/ l <= forgotten[s]
                        \/ /\ l \in welcomes[s]
                           /\ \E k \in welcomes[s] \cap ToSet(shown[s]) :
                                 k > l \/ overflowed[s]
                        \/ handler[s] = "ended" /\ activeSession # s
        BY DEF LinesAccountedFor
    <2>1. handler[s] # "ended" => Kept(s) = ToSet(shown[s]) \cup OnItsWay(s)
        BY DEF Kept, OnItsWay
    <2>2. handler[s] = "ended" => activeSession # s
        BY DEF Placed
    <2>3. \/ l \in Kept(s) \cup ignored[s]
          \/ l <= forgotten[s]
          \/ /\ l \in welcomes[s]
             /\ \E k \in welcomes[s] \cap ToSet(shown[s]) : k > l \/ overflowed[s]
        BY DEF LinesKnown, Known, NotLost
    <2>4. QED
        BY <2>1, <2>2, <2>3
<1>3. QED
    BY <1>1, <1>2, TypeCorrect, LinesKnownHolds, PlacedStep, PTL DEF Spec

\* Where the channel has never been full, lines are displayed as the server has sent them, but
\* for those that welcome; and no line is displayed twice.
THEOREM ShownInOrderHolds == Spec => []ShownInOrder
<1>1. LinesKnown => ShownInOrder
    BY DEF LinesKnown, Known, Shown, ShownInOrder
<1>2. QED
    BY <1>1, LinesKnownHolds, PTL
====
