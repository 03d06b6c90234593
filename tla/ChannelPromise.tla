--------------------------- MODULE ChannelPromise ---------------------------
(***************************************************************************)
(* What the PWM outputs of the board promise to whoever commands them,     *)
(* without the registers and the loops that keep the promise.              *)
(*                                                                         *)
(* An output follows the last duty commanded for its channel, changes its  *)
(* level in one step, and goes to zero by itself at the PWM_TIMEOUT-th     *)
(* second that passes without a new command for that channel.              *)
(***************************************************************************)
EXTENDS Integers

CONSTANTS
  Channels,      \* the channels of the board
  PWM_TIMEOUT,   \* seconds a channel stays on without an update
  Duties         \* the duties, in percent, that may be commanded

VARIABLES
  pin,   \* pin[c]: the level the output of channel c is driven with, 0..255
  left,  \* left[c]: seconds until channel c times out, 0 when it is off
  due    \* channels whose share of the current second is still to be counted

vars == <<pin, left, due>>

(* The levels a duty may be turned into: zero exactly for a duty that is   *)
(* not positive, full scale from 100 on, and otherwise within one step of  *)
(* 2.55 times the duty.                                                    *)
LevelOf(duty) ==
  { v \in 0 .. 255 :
      /\ (v = 0) <=> (duty <= 0)
      /\ duty >= 100 => v = 255
      /\ duty \in 1 .. 100 => 100 * v - 255 * duty \in (-99 .. 99) }

Init ==
  /\ pin  = [c \in Channels |-> 0]
  /\ left = [c \in Channels |-> 0]
  /\ due  = {}

(* A command takes effect on one output at once and restarts its timeout.  *)
Set(c, duty) ==
  /\ due = {}
  /\ \E v \in LevelOf(duty) : pin' = [pin EXCEPT ![c] = v]
  /\ left' = [left EXCEPT ![c] = PWM_TIMEOUT]
  /\ UNCHANGED due

(* A second has passed: every channel is to be aged by one.                *)
Second ==
  /\ due = {}
  /\ due' = Channels
  /\ UNCHANGED <<pin, left>>

(* Channel c is aged; its output goes to zero when its time is over and    *)
(* otherwise keeps its level.                                              *)
Age(c) ==
  /\ c \in due
  /\ due' = due \ {c}
  /\ left' = [left EXCEPT ![c] = IF @ = 0 THEN 0 ELSE @ - 1]
  /\ pin' = IF left[c] = 1 THEN [pin EXCEPT ![c] = 0] ELSE pin

(* A restart of the board turns every output off.                          *)
Reset ==
  /\ pin'  = [c \in Channels |-> 0]
  /\ left' = [c \in Channels |-> 0]
  /\ due'  = {}

Next ==
  \/ \E c \in Channels, d \in Duties : Set(c, d)
  \/ Second
  \/ \E c \in Channels : Age(c)
  \/ Reset

Spec == Init /\ [][Next]_vars
=============================================================================
