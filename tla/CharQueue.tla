----------------------------- MODULE CharQueue -----------------------------
(***************************************************************************)
(* What the transmit half of a UART of the board is for: a queue of        *)
(* characters that are handed to the data register in the order in which   *)
(* they were put, each of them once.                                       *)
(***************************************************************************)
EXTENDS Integers, Sequences

CONSTANTS
  Chars,      \* the characters
  NoChar,     \* the data register is empty
  Capacity    \* characters the queue can hold

VARIABLES
  queue,   \* characters put and not yet handed over
  reg      \* the data register

vars == <<queue, reg>>

Init ==
  /\ queue = << >>
  /\ reg = NoChar

Put(c) ==
  /\ Len(queue) < Capacity
  /\ queue' = Append(queue, c)
  /\ UNCHANGED reg

HandOver ==
  /\ queue # << >>
  /\ reg = NoChar
  /\ reg' = Head(queue)
  /\ queue' = Tail(queue)

(* The hardware moves the character to the line.                           *)
Shift ==
  /\ reg # NoChar
  /\ reg' = NoChar
  /\ UNCHANGED queue

(* A reset of the processor loses what was not sent.                       *)
Reset ==
  /\ queue' = << >>
  /\ reg' = NoChar

Next ==
  \/ \E c \in Chars : Put(c)
  \/ HandOver \/ Shift \/ Reset

Spec == Init /\ [][Next]_vars
=============================================================================
