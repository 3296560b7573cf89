---- MODULE UserSimulatorProofs ----
(***************************************************************************)
(* Invariants of UserSimulator for lines of any length and any number of   *)
(* lines.                                                                  *)
(***************************************************************************)
EXTENDS UserSimulator, TLAPS

\* The call of ReadString that is under way, or that ended the receiver, is inside one line.
InOneLine ==
    receiver = "read" =>
        \A p \in start + 1..consumed : ~EndsLine(p) /\ LineOf(p) = LineOf(start + 1)

\* Pieces taken by calls that have returned.
Returned == IF receiver = "loop" THEN consumed ELSE start

\* A deadline passed in the line of p, at p or later.
CutAfter(p) == \E c \in cut : c >= p /\ LineOf(c) = LineOf(p)

\* What the calls that returned have taken is printed or was dropped at a deadline.
Accounted == \A p \in 1..Returned : WasShown(p) \/ CutAfter(p)

\* Printed lines come from calls that have returned, each is the end of one line, and they
\* are in order.
ShownOK ==
    \A i \in DOMAIN shown :
        /\ EndsLine(shown[i][2])
        /\ LineOf(shown[i][1]) = LineOf(shown[i][2])
        /\ shown[i][1] <= shown[i][2]
        /\ shown[i][2] <= consumed
        /\ receiver = "read" => shown[i][2] <= start
        /\ \A j \in DOMAIN shown : j < i => shown[j][2] < shown[i][1]

CutOK == \A c \in cut : ~EndsLine(c)

Inv == TypeOK /\ InOneLine /\ Accounted /\ ShownOK /\ CutOK

----
\* Pieces are numbers.
LEMMA PiecesNat == MaxPieces \in Nat /\ Pieces \subseteq Nat \ {0}
BY ConstantsAssumption DEF MaxPieces, Pieces

\* A piece that does not end its line is followed by a piece of the same line.
LEMMA SameLine ==
    ASSUME NEW p \in Nat \ {0}, ~EndsLine(p)
    PROVE  LineOf(p + 1) = LineOf(p)
<1> DEFINE L == LineLength
<1> DEFINE q == (p - 1) \div L
<1> DEFINE r == (p - 1) % L
<1>1. L \in Nat /\ L > 0
    BY ConstantsAssumption
<1>2. q \in Int /\ r \in 0..L - 1 /\ p - 1 = L * q + r
    BY <1>1, SMTT(30)
<1>3. p = L * q + (r + 1)
    BY <1>1, <1>2, SMTT(30)
<1>4. r + 1 # L
    <2>1. SUFFICES ASSUME r + 1 = L PROVE FALSE
        OBVIOUS
    <2>2. p = L * (q + 1)
        BY <1>1, <1>2, <1>3, <2>1, SMTT(30)
    <2>3. p % L = 0
        <3> DEFINE a == p \div L
        <3> DEFINE b == p % L
        <3>1. a \in Int /\ b \in 0..L - 1 /\ p = L * a + b
            BY <1>1, SMTT(30)
        <3>2. L * (q + 1 - a) = b
            BY <1>1, <1>2, <2>2, <3>1, SMTT(30)
        <3>3. q + 1 - a = 0
            <4> DEFINE d == q + 1 - a
            <4> HIDE DEF a, b, q
            <4>1. d \in Int /\ L * d = b
                BY <1>2, <3>1, <3>2
            <4>2. d >= 1 => L * d >= L
                BY <1>1, <4>1, SMTT(30)
            <4>3. d <= -1 => L * d <= -L
                BY <1>1, <4>1, SMTT(30)
            <4>4. QED
                BY <1>1, <3>1, <4>1, <4>2, <4>3
        <3>4. QED
            BY <1>1, <3>1, <3>2, <3>3, SMTT(30)
    <2>4. QED
        BY <2>3 DEF EndsLine
<1>5. r + 1 \in 0..L - 1
    BY <1>1, <1>2, <1>4
<1>6. p \div L = q
    BY <1>1, <1>2, <1>3, <1>5, SMTT(30)
<1>7. QED
    BY <1>6 DEF LineOf
----
\* Types are preserved.
LEMMA TypeStep == TypeOK /\ [Next]_vars => TypeOK'
<1> SUFFICES ASSUME TypeOK, [Next]_vars PROVE TypeOK'
    OBVIOUS
<1> USE PiecesNat, ConstantsAssumption DEF TypeOK, MainGoes, ReceiverGoes, mainVars, readVars
<1>1. ASSUME Main PROVE TypeOK'
    <2>1. ASSUME Type PROVE TypeOK'
        BY <2>1 DEF Type
    <2>2. ASSUME TypeExit \/ SignalStop \/ Close \/ Exit PROVE TypeOK'
        BY <2>2 DEF TypeExit, SignalStop, Close, Exit
    <2>3. QED
        BY <1>1, <2>1, <2>2 DEF Main
<1>2. ASSUME Stopped \/ BeginRead \/ ReadPiece PROVE TypeOK'
    <2>1. ASSUME Stopped PROVE TypeOK'
        BY <2>1 DEF Stopped
    <2>2. ASSUME BeginRead PROVE TypeOK'
        BY <2>2 DEF BeginRead
    <2>3. ASSUME ReadPiece PROVE TypeOK'
        BY <2>3 DEF ReadPiece
    <2>4. QED
        BY <1>2, <2>1, <2>2, <2>3
<1>3. ASSUME ReadLine PROVE TypeOK'
    <2>1. <<start + 1, consumed'>> \in Pieces \X Pieces
        BY <1>3 DEF ReadLine, Pieces
    <2>2. shown' \in Seq(Pieces \X Pieces)
        BY <1>3, <2>1 DEF ReadLine
    <2>3. QED
        BY <1>3, <2>2 DEF ReadLine
<1>4. ASSUME Timeout PROVE TypeOK'
    BY <1>4 DEF Timeout, Pieces
<1>5. ASSUME ReadFail \/ Arrive \/ HangUp PROVE TypeOK'
    <2>1. ASSUME ReadFail PROVE TypeOK'
        BY <2>1 DEF ReadFail
    <2>2. ASSUME Arrive PROVE TypeOK'
        BY <2>2 DEF Arrive
    <2>3. ASSUME HangUp PROVE TypeOK'
        BY <2>3 DEF HangUp
    <2>4. QED
        BY <1>5, <2>1, <2>2, <2>3
<1>6. CASE UNCHANGED vars
    BY <1>6 DEF vars
<1>7. QED
    BY <1>1, <1>2, <1>3, <1>4, <1>5, <1>6 DEF Next, Receiver

\* A step that takes no piece and prints nothing keeps the invariant, whether or not it
\* ends the receiver.
LEMMA QuietStep ==
    ASSUME Inv, TypeOK', UNCHANGED <<consumed, start, shown, cut>>,
           receiver' \in {receiver, "ended"}
    PROVE  Inv'
<1> USE DEF TypeOK, Inv
<1>1. InOneLine'
    BY DEF InOneLine, EndsLine, LineOf
<1>2. Accounted'
    <2>1. \A p \in 1..Returned' : p \in 1..Returned
        BY PiecesNat DEF Returned
    <2>2. QED
        BY <2>1 DEF Accounted, WasShown, CutAfter, LineOf
<1>3. ShownOK' /\ CutOK'
    BY DEF ShownOK, CutOK, EndsLine, LineOf
<1>4. QED
    BY <1>1, <1>2, <1>3

\* A new call of ReadString has taken nothing.
LEMMA BeginReadStep == Inv /\ BeginRead /\ TypeOK' => Inv'
<1> SUFFICES ASSUME Inv, BeginRead, TypeOK' PROVE Inv'
    OBVIOUS
<1> USE DEF TypeOK, Inv, BeginRead, ReceiverGoes
<1>1. InOneLine'
    BY DEF InOneLine
<1>2. Accounted'
    <2>1. Returned' = Returned /\ UNCHANGED <<shown, cut>>
        BY DEF Returned
    <2>2. QED
        BY <2>1 DEF Accounted, WasShown, CutAfter, LineOf
<1>3. ShownOK' /\ CutOK'
    BY DEF ShownOK, CutOK, EndsLine, LineOf
<1>4. QED
    BY <1>1, <1>2, <1>3

\* A piece that is next to another that does not end its line is of the same line.
LEMMA NextInLine ==
    ASSUME Inv, receiver = "read", consumed < arrived
    PROVE  LineOf(consumed + 1) = LineOf(start + 1)
<1>1. CASE consumed = start
    BY <1>1
<1>2. CASE consumed # start
    <2>1. consumed \in start + 1..consumed /\ consumed \in Nat \ {0}
        BY <1>2, PiecesNat DEF Inv, TypeOK
    <2>2. ~EndsLine(consumed) /\ LineOf(consumed) = LineOf(start + 1)
        BY <2>1 DEF Inv, InOneLine
    <2>3. QED
        BY <2>1, <2>2, SameLine
<1>3. QED
    BY <1>1, <1>2

\* Reading on in a line.
LEMMA ReadPieceStep == Inv /\ ReadPiece /\ TypeOK' => Inv'
<1> SUFFICES ASSUME Inv, ReadPiece, TypeOK' PROVE Inv'
    OBVIOUS
<1>0. consumed \in Nat /\ start \in Nat /\ start <= consumed /\ arrived \in Nat
    BY PiecesNat DEF Inv, TypeOK
<1>1. InOneLine'
    <2>1. receiver = "read" /\ consumed < arrived /\ consumed' = consumed + 1 /\ start' = start
            /\ ~EndsLine(consumed + 1)
        BY DEF ReadPiece
    <2>2. \A p \in start + 1..consumed : ~EndsLine(p) /\ LineOf(p) = LineOf(start + 1)
        BY <2>1 DEF Inv, InOneLine
    <2>3. LineOf(consumed + 1) = LineOf(start + 1)
        BY <2>1, NextInLine
    <2>4. \A p \in start + 1..consumed + 1 : p \in start + 1..consumed \/ p = consumed + 1
        BY <1>0
    <2>5. \A p \in start + 1..consumed + 1 : ~EndsLine(p) /\ LineOf(p) = LineOf(start + 1)
        BY <2>1, <2>2, <2>3, <2>4
    <2>6. QED
        BY <2>1, <2>5 DEF InOneLine, EndsLine, LineOf
<1>2. Accounted'
    BY DEF Inv, ReadPiece, Accounted, Returned, WasShown, CutAfter, LineOf
<1>3. ShownOK' /\ CutOK'
    BY <1>0 DEF Inv, TypeOK, ReadPiece, ShownOK, CutOK, EndsLine, LineOf, Pieces
<1>4. QED
    BY <1>1, <1>2, <1>3 DEF Inv

\* The end of a line: the whole of what this call took is printed.
LEMMA ReadLineStep == Inv /\ ReadLine /\ TypeOK' => Inv'
<1> SUFFICES ASSUME Inv, ReadLine, TypeOK' PROVE Inv'
    OBVIOUS
<1>0. /\ consumed \in Nat /\ start \in Nat /\ start <= consumed /\ arrived \in Nat
      /\ shown \in Seq(Pieces \X Pieces) /\ receiver = "read" /\ receiver' = "loop"
      /\ consumed < arrived /\ consumed' = consumed + 1 /\ start' = start /\ cut' = cut
      /\ EndsLine(consumed + 1) /\ shown' = Append(shown, <<start + 1, consumed + 1>>)
    BY PiecesNat DEF Inv, TypeOK, ReadLine, ReceiverGoes
<1>1. /\ DOMAIN shown' = DOMAIN shown \cup {Len(shown) + 1}
      /\ \A i \in DOMAIN shown : shown'[i] = shown[i]
      /\ shown'[Len(shown) + 1] = <<start + 1, consumed + 1>>
      /\ \A i \in DOMAIN shown : i < Len(shown) + 1 /\ i \in Nat
      /\ Len(shown) \in Nat
    BY <1>0
<1>2. InOneLine' /\ CutOK'
    BY <1>0 DEF Inv, InOneLine, CutOK, EndsLine
<1>3. Accounted'
    <2>1. SUFFICES ASSUME NEW p \in 1..consumed + 1 PROVE WasShown(p)' \/ CutAfter(p)'
        BY <1>0 DEF Accounted, Returned, WasShown, CutAfter, LineOf
    <2>2. CASE p \in 1..start
        <3>1. WasShown(p) \/ CutAfter(p)
            BY <1>0, <2>2 DEF Inv, Accounted, Returned
        <3>2. WasShown(p) => WasShown(p)'
            BY <1>1 DEF WasShown
        <3>3. CutAfter(p) => CutAfter(p)'
            BY <1>0 DEF CutAfter, LineOf
        <3>4. QED
            BY <3>1, <3>2, <3>3
    <2>3. CASE p \in start + 1..consumed + 1
        BY <1>1, <2>3 DEF WasShown
    <2>4. QED
        BY <1>0, <2>2, <2>3
<1>4. ShownOK'
    <2> DEFINE n == Len(shown) + 1
    <2>1. LineOf(start + 1) = LineOf(consumed + 1)
        BY <1>0, NextInLine
    <2>2. \A i \in DOMAIN shown :
              /\ EndsLine(shown[i][2]) /\ LineOf(shown[i][1]) = LineOf(shown[i][2])
              /\ shown[i][1] <= shown[i][2] /\ shown[i][2] <= start
              /\ shown[i][1] \in Nat /\ shown[i][2] \in Nat
              /\ \A j \in DOMAIN shown : j < i => shown[j][2] < shown[i][1]
        <3>1. \A i \in DOMAIN shown : shown[i] \in Pieces \X Pieces
            BY <1>0
        <3>2. \A i \in DOMAIN shown : shown[i][1] \in Nat /\ shown[i][2] \in Nat
            BY <3>1, PiecesNat
        <3>3. QED
            BY <1>0, <3>2 DEF Inv, ShownOK
    <2>3. SUFFICES ASSUME NEW i \in DOMAIN shown'
                   PROVE  /\ EndsLine(shown'[i][2])
                          /\ LineOf(shown'[i][1]) = LineOf(shown'[i][2])
                          /\ shown'[i][1] <= shown'[i][2]
                          /\ shown'[i][2] <= consumed + 1
                          /\ \A j \in DOMAIN shown' : j < i => shown'[j][2] < shown'[i][1]
        BY <1>0 DEF ShownOK, EndsLine, LineOf
    <2>4. CASE i \in DOMAIN shown
        <3>1. \A j \in DOMAIN shown' : j < i => j \in DOMAIN shown
            BY <1>1, <2>4
        <3>2. QED
            BY <1>0, <1>1, <2>2, <2>4, <3>1
    <2>5. CASE i = n
        <3>1. shown'[i][1] = start + 1 /\ shown'[i][2] = consumed + 1
            BY <1>1, <2>5
        <3>2. \A j \in DOMAIN shown' : j < i => j \in DOMAIN shown
            BY <1>1, <2>5
        <3>3. \A j \in DOMAIN shown : shown'[j][2] < start + 1
            BY <1>0, <1>1, <2>2
        <3>4. QED
            BY <1>0, <2>1, <3>1, <3>2, <3>3
    <2>6. QED
        BY <1>1, <2>4, <2>5
<1>5. QED
    BY <1>2, <1>3, <1>4 DEF Inv

\* The deadline: the line it cuts is remembered in cut.
LEMMA TimeoutStep == Inv /\ Timeout /\ TypeOK' => Inv'
<1> SUFFICES ASSUME Inv, Timeout, TypeOK' PROVE Inv'
    OBVIOUS
<1>0. /\ consumed \in Nat /\ start \in Nat /\ start <= consumed
      /\ receiver = "read" /\ receiver' = "loop" /\ UNCHANGED <<consumed, start, shown>>
      /\ cut' = IF consumed > start THEN cut \cup {consumed} ELSE cut
    BY PiecesNat DEF Inv, TypeOK, Timeout, ReceiverGoes
<1>1. \A p \in start + 1..consumed : ~EndsLine(p) /\ LineOf(p) = LineOf(start + 1)
    BY <1>0 DEF Inv, InOneLine
<1>2. InOneLine' /\ ShownOK'
    BY <1>0 DEF Inv, InOneLine, ShownOK, EndsLine, LineOf
<1>3. CutOK'
    <2>1. consumed > start => ~EndsLine(consumed)
        BY <1>0, <1>1
    <2>2. QED
        BY <1>0, <2>1 DEF Inv, CutOK, EndsLine
<1>4. Accounted'
    <2>1. SUFFICES ASSUME NEW p \in 1..consumed PROVE WasShown(p)' \/ CutAfter(p)'
        BY <1>0 DEF Accounted, Returned, WasShown, CutAfter, LineOf
    <2>2. CASE p \in 1..start
        <3>1. WasShown(p) \/ CutAfter(p)
            BY <1>0, <2>2 DEF Inv, Accounted, Returned
        <3>2. (WasShown(p) => WasShown(p)') /\ (CutAfter(p) => CutAfter(p)')
            BY <1>0 DEF WasShown, CutAfter, LineOf
        <3>3. QED
            BY <3>1, <3>2
    <2>3. CASE p \in start + 1..consumed
        <3>1. consumed \in start + 1..consumed /\ consumed \in cut' /\ consumed >= p
            BY <1>0, <2>3
        <3>2. LineOf(consumed) = LineOf(p)
            BY <1>1, <2>3, <3>1
        <3>3. QED
            BY <3>1, <3>2 DEF CutAfter, LineOf
    <2>4. QED
        BY <1>0, <2>2, <2>3
<1>5. QED
    BY <1>2, <1>3, <1>4 DEF Inv

----
\* The invariant is inductive.
LEMMA InvInductive == Inv /\ [Next]_vars => Inv'
<1> SUFFICES ASSUME Inv, [Next]_vars PROVE Inv'
    OBVIOUS
<1>0. TypeOK'
    BY TypeStep DEF Inv
<1>1. CASE Main
    BY <1>0, <1>1, QuietStep
       DEF Main, Type, TypeExit, SignalStop, Close, Exit, MainGoes, readVars
<1>2. CASE Stopped \/ ReadFail
    BY <1>0, <1>2, QuietStep DEF Stopped, ReadFail, ReceiverGoes
<1>3. CASE BeginRead
    BY <1>0, <1>3, BeginReadStep
<1>4. CASE ReadPiece
    BY <1>0, <1>4, ReadPieceStep
<1>5. CASE ReadLine
    BY <1>0, <1>5, ReadLineStep
<1>6. CASE Timeout
    BY <1>0, <1>6, TimeoutStep
<1>7. CASE Arrive \/ HangUp \/ UNCHANGED vars
    BY <1>0, <1>7, QuietStep DEF Arrive, HangUp, vars, readVars
<1>8. QED
    BY <1>1, <1>2, <1>3, <1>4, <1>5, <1>6, <1>7 DEF Next, Receiver

\* Inv holds in every reachable state.
LEMMA Invariant == Spec => []Inv
<1>1. Init => Inv
    <2> SUFFICES ASSUME Init PROVE Inv
        OBVIOUS
    <2>1. TypeOK
        <3>1. MaxTyped \in Nat /\ MaxPieces \in Nat
            BY PiecesNat, ConstantsAssumption
        <3>2. shown \in Seq(Pieces \X Pieces)
            BY DEF Init
        <3>3. /\ main \in {"prompt", "stop", "close", "exit", "exited"}
              /\ receiver \in {"loop", "read", "ended"}
              /\ cut \in SUBSET Pieces
            BY DEF Init
        <3>4. stop \in BOOLEAN /\ open \in BOOLEAN /\ hungUp \in BOOLEAN
            BY DEF Init
        <3>5. typed \in 0..MaxTyped /\ arrived \in 0..MaxPieces
            BY <3>1 DEF Init
        <3>6. consumed \in 0..arrived /\ start \in 0..consumed
            BY <3>1 DEF Init
        <3>7. QED
            BY <3>2, <3>3, <3>4, <3>5, <3>6 DEF TypeOK
    <2>2. InOneLine /\ Accounted /\ ShownOK /\ CutOK
        BY DEF Init, InOneLine, Accounted, Returned, ShownOK, CutOK
    <2>3. QED
        BY <2>1, <2>2 DEF Inv
<1>2. QED
    BY <1>1, InvInductive, PTL DEF Spec

\* Every variable keeps its type.
THEOREM TypeCorrect == Spec => []TypeOK
BY Invariant, PTL DEF Inv

\* What receiveMessages prints is the ends of lines of the server, in order and once, and
\* the rest of a line is missing only when a deadline passed in it.
THEOREM LostOnlyByDeadlineHolds == Spec => []LostOnlyByDeadline
<1>1. Inv => LostOnlyByDeadline
    <2> SUFFICES ASSUME Inv PROVE LostOnlyByDeadline
        OBVIOUS
    <2>1. \A i \in DOMAIN shown :
              /\ EndsLine(shown[i][2])
              /\ LineOf(shown[i][1]) = LineOf(shown[i][2])
              /\ i > 1 => shown[i - 1][2] < shown[i][1]
        BY DEF Inv, TypeOK, ShownOK
    <2>2. \A p \in 1..start : p \in 1..Returned
        BY PiecesNat DEF Inv, TypeOK, Returned
    <2>3. QED
        BY <2>1, <2>2 DEF Inv, Accounted, CutAfter, CutOK, LostOnlyByDeadline
<1>2. QED
    BY <1>1, Invariant, PTL
====
