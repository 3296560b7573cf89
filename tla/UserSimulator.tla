---- MODULE UserSimulator ----
(***************************************************************************)
(* The user simulator (user/user.go): the console loop of main, and the    *)
(* goroutine receiveMessages, which reads lines of the server with a       *)
(* deadline of 500 ms so that it can look at the stop channel.             *)
(*                                                                         *)
(* What the server sends is a stream of pieces, numbered; every            *)
(* LineLength-th ends a line.  They arrive when they like: the network may *)
(* cut a line anywhere.                                                    *)
(***************************************************************************)
EXTENDS Integers, Sequences

CONSTANTS
    LineLength,  \* pieces of a line
    MaxLines,    \* bound: lines sent by the server
    MaxTyped     \* bound: lines typed by the user

ASSUME ConstantsAssumption ==
    {LineLength, MaxLines, MaxTyped} \subseteq Nat \ {0}

MaxPieces == LineLength * MaxLines
Pieces == 1..MaxPieces
EndsLine(p) == p % LineLength = 0
LineOf(p) == (p - 1) \div LineLength

VARIABLES
    main,      \* where main is
    typed,     \* 0..MaxTyped: lines typed so far
    stop,      \* BOOLEAN: stopReceiving is closed
    open,      \* BOOLEAN: main has not closed the connection
    hungUp,    \* BOOLEAN: the server has closed it, or it is broken
    receiver,  \* where receiveMessages is
    arrived,   \* 0..MaxPieces: pieces that have arrived
    consumed,  \* 0..MaxPieces: pieces that ReadString has taken
    start,     \* 0..MaxPieces: pieces taken by the calls of ReadString before this one
    shown,     \* Seq(Pieces \X Pieces): ghost, first and last piece of what was printed
    cut        \* SUBSET Pieces: ghost, pieces after which the deadline passed in a line

mainVars == <<main, typed, stop, open>>
readVars == <<receiver, consumed, start, shown, cut>>
vars == <<mainVars, readVars, hungUp, arrived>>

Init ==
    /\ main = "prompt" /\ typed = 0 /\ stop = FALSE /\ open = TRUE
    /\ hungUp = FALSE /\ arrived = 0
    /\ receiver = "loop" /\ consumed = 0 /\ start = 0
    /\ shown = <<>> /\ cut = {}

----
(* main *)

MainGoes(from, to) == main = from /\ main' = to

\* A line is sent; once the server has closed the connection, the write fails sooner or
\* later.
Type ==
    /\ typed < MaxTyped
    /\ typed' = typed + 1
    /\ MainGoes("prompt", "prompt") \/ (hungUp /\ MainGoes("prompt", "stop"))
    /\ UNCHANGED <<stop, open, readVars, hungUp, arrived>>

TypeExit ==
    /\ MainGoes("prompt", "stop")
    /\ UNCHANGED <<typed, stop, open, readVars, hungUp, arrived>>

\* Signals the receiver, and then sleeps for 100 ms, while it may read for 500.
SignalStop ==
    /\ MainGoes("stop", "close")
    /\ stop' = TRUE
    /\ UNCHANGED <<typed, open, readVars, hungUp, arrived>>

Close ==
    /\ MainGoes("close", "exit")
    /\ open' = FALSE
    /\ UNCHANGED <<typed, stop, readVars, hungUp, arrived>>

\* The end of the program, and of the receiver wherever it is.
Exit ==
    /\ MainGoes("exit", "exited")
    /\ receiver' = "ended"
    /\ UNCHANGED <<typed, stop, open, consumed, start, shown, cut, hungUp, arrived>>

----
(* receiveMessages *)

ReceiverGoes(from, to) == receiver = from /\ receiver' = to

\* The stop signal, or no deadline for a closed connection.
Stopped ==
    /\ stop \/ ~open
    /\ ReceiverGoes("loop", "ended")
    /\ UNCHANGED <<mainVars, consumed, start, shown, cut, hungUp, arrived>>

\* Mutant: every turn of the loop makes a new bufio.Reader; what the old one has is lost.
BeginReadAnew ==
    /\ ~stop /\ open
    /\ ReceiverGoes("loop", "read")
    /\ start' = arrived /\ consumed' = arrived
    /\ UNCHANGED <<mainVars, shown, cut, hungUp, arrived>>

BeginRead ==
    /\ ~stop /\ open
    /\ ReceiverGoes("loop", "read")
    /\ start' = consumed
    /\ UNCHANGED <<mainVars, consumed, shown, cut, hungUp, arrived>>

\* ReadString takes what has arrived.
ReadPiece ==
    /\ receiver = "read" /\ consumed < arrived
    /\ ~EndsLine(consumed + 1)
    /\ consumed' = consumed + 1
    /\ UNCHANGED <<mainVars, receiver, start, shown, cut, hungUp, arrived>>

\* With the end of a line it returns; the line is printed.
ReadLine ==
    /\ consumed < arrived
    /\ EndsLine(consumed + 1)
    /\ ReceiverGoes("read", "loop")
    /\ consumed' = consumed + 1
    /\ shown' = Append(shown, <<start + 1, consumed'>>)
    /\ UNCHANGED <<mainVars, start, cut, hungUp, arrived>>

\* The deadline: "It was just a timeout", and what ReadString returns with it is dropped.
Timeout ==
    /\ ReceiverGoes("read", "loop")
    /\ cut' = IF consumed > start THEN cut \cup {consumed} ELSE cut
    /\ UNCHANGED <<mainVars, consumed, start, shown, hungUp, arrived>>

\* "Server closed the connection gracefully." or any other error.
ReadFail ==
    /\ ~open \/ (hungUp /\ consumed = arrived)
    /\ ReceiverGoes("read", "ended")
    /\ UNCHANGED <<mainVars, consumed, start, shown, cut, hungUp, arrived>>

----
(* The connection. *)

Arrive ==
    /\ ~hungUp /\ open /\ arrived < MaxPieces
    /\ arrived' = arrived + 1
    /\ UNCHANGED <<mainVars, readVars, hungUp>>

HangUp ==
    /\ ~hungUp
    /\ hungUp' = TRUE
    /\ UNCHANGED <<mainVars, readVars, arrived>>

----
Main == Type \/ TypeExit \/ SignalStop \/ Close \/ Exit
Receiver == Stopped \/ BeginRead \/ ReadPiece \/ ReadLine \/ Timeout \/ ReadFail

Next == (main # "exited" /\ (Main \/ Receiver \/ Arrive \/ HangUp))

Spec == Init /\ [][Next]_vars

----
(* Properties. *)

\* Every variable keeps its type.
TypeOK ==
    /\ main \in {"prompt", "stop", "close", "exit", "exited"}
    /\ typed \in 0..MaxTyped
    /\ stop \in BOOLEAN /\ open \in BOOLEAN /\ hungUp \in BOOLEAN
    /\ receiver \in {"loop", "read", "ended"}
    /\ arrived \in 0..MaxPieces
    /\ consumed \in 0..arrived
    /\ start \in 0..consumed
    /\ shown \in Seq(Pieces \X Pieces)
    /\ cut \in SUBSET Pieces

WasShown(p) == \E i \in DOMAIN shown : p \in shown[i][1]..shown[i][2]

\* What is printed is the end of one line of the server, in order and once, and the rest of
\* the line is missing only when a deadline passed in the middle of it.
LostOnlyByDeadline ==
    /\ \A i \in DOMAIN shown :
          /\ EndsLine(shown[i][2])
          /\ LineOf(shown[i][1]) = LineOf(shown[i][2])
          /\ i > 1 => shown[i - 1][2] < shown[i][1]
    /\ \A p \in 1..start : WasShown(p) \/ \E c \in cut : c >= p /\ LineOf(c) = LineOf(p)
    /\ \A c \in cut : ~EndsLine(c)
====
