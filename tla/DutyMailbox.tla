---------------------------- MODULE DutyMailbox ----------------------------
(***************************************************************************)
(* What the shared memory of daemon/src is for: a mailbox in which clients *)
(* leave duties and from which the daemon takes them to the serial port.   *)
(*                                                                         *)
(* An update of several channels is posted as a whole and taken as a       *)
(* whole; a later update of a channel replaces an earlier one; and nothing *)
(* is written to the port that is not the last duty posted when it was     *)
(* taken.                                                                  *)
(***************************************************************************)
EXTENDS Integers

CONSTANTS
  Channels,   \* channels of the board
  Duties,     \* duties in percent, after clamping
  NoDuty      \* the channel has no update waiting

VARIABLES
  pending,   \* pending[c]: the duty posted for c and not yet taken
  taken,     \* taken[c]: the duty on its way to the serial port
  board      \* board[c]: the last duty of c written to the serial port

vars == <<pending, taken, board>>

Nothing == [c \in Channels |-> NoDuty]

FirstStays(f, g) == [c \in Channels |-> IF g[c] = NoDuty THEN f[c] ELSE g[c]]

(* The duties of f, those of g where f has none.                           *)
Over(f, g) == [c \in Channels |-> IF f[c] = NoDuty THEN g[c] ELSE f[c]]

Init ==
  /\ pending = Nothing
  /\ taken   = Nothing
  /\ board   = Nothing

Post(u) ==
  /\ pending' = Over(u, pending)
  /\ UNCHANGED <<taken, board>>

TakeCopy ==
  /\ taken = Nothing
  /\ taken' = pending
  /\ UNCHANGED <<pending, board>>

Take ==
  /\ taken = Nothing
  /\ taken' = pending
  /\ pending' = Nothing
  /\ UNCHANGED board

Deliver ==
  /\ board' = Over(taken, board)
  /\ taken' = Nothing
  /\ UNCHANGED pending

(* The port failed or the daemon ended: what was taken is lost.            *)
Drop ==
  /\ taken' = Nothing
  /\ UNCHANGED <<pending, board>>

RememberPending ==
  /\ taken' = Nothing
  /\ UNCHANGED <<pending, board>>

(* A new daemon starts with an empty mailbox.                              *)
Forget ==
  /\ pending' = Nothing
  /\ taken' = Nothing
  /\ UNCHANGED board

Next ==
  \/ \E u \in [Channels -> Duties \cup {NoDuty}] : Post(u)
  \/ Take \/ Deliver \/ Drop \/ Forget

Spec == Init /\ [][Next]_vars
=============================================================================
