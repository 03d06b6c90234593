----------------------------- MODULE LineStream -----------------------------
(***************************************************************************)
(* What the receiving end of a line of text is for: characters are kept in *)
(* the order in which they came, and lines are taken from the front, each  *)
(* once and as a whole.  The board and the daemon each have such an end.   *)
(***************************************************************************)
EXTENDS Integers, Sequences

CONSTANTS
  Text, EOL,       \* the characters of a line and the one that ends it
  Start,           \* the result before any line
  Left,            \* what may lie in the end before anything came
  Apply(_, _),     \* the result after one more line
  Stops(_),        \* results after which no line is taken
  Lossy,           \* whether the end may lose characters at all
  Burst,           \* characters that are lost when they are too many
  TooLong          \* characters without an end that may be given up

VARIABLES
  pending,   \* characters received and not yet taken
  result     \* of the lines taken so far

vars == <<pending, result>>

HasLine(s) == \E i \in 1 .. Len(s) : s[i] = EOL

LineEnd(s) == CHOOSE i \in 1 .. Len(s) :
                s[i] = EOL /\ \A j \in 1 .. i - 1 : s[j] # EOL

FirstLine(s) == SubSeq(s, 1, LineEnd(s) - 1)
AfterLine(s) == SubSeq(s, LineEnd(s) + 1, Len(s))

Init == pending \in Left /\ result = Start

Receive(c) ==
  /\ pending' = Append(pending, c)
  /\ UNCHANGED result

TakeLine ==
  /\ ~Stops(result)
  /\ HasLine(pending)
  /\ result' = Apply(result, FirstLine(pending))
  /\ pending' = AfterLine(pending)

(* The newest characters are lost, a fixed number at once, and with them   *)
(* the one that came too much.  What comes next is read as the             *)
(* continuation of what is left.                                           *)
Overrun ==
  /\ Lossy
  /\ Len(pending) >= Burst
  /\ pending' = SubSeq(pending, 1, Len(pending) - Burst)
  /\ UNCHANGED result

GiveUp ==
  /\ Lossy
  /\ Len(pending) >= TooLong /\ ~HasLine(pending)
  /\ pending' = << >>
  /\ UNCHANGED result

Reset ==
  /\ Lossy
  /\ pending' = << >>
  /\ result' = Start

Next ==
  \/ \E c \in Text \cup {EOL} : Receive(c)
  \/ TakeLine \/ Overrun \/ GiveUp \/ Reset

Spec == Init /\ [][Next]_vars
=============================================================================
