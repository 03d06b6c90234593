------------------------------ MODULE MainLoop ------------------------------
(***************************************************************************)
(* The main loop of the firmware (main.c), its one-second timer (timer.c)  *)
(* and the watchdog, on top of the outputs of pwm.c.                       *)
(*                                                                         *)
(* pwm.c is taken by what it promises, ChannelPromise, which PwmOutputs    *)
(* implements.  Time is counted in ticks of the timer interrupt, one       *)
(* millisecond; any number of them may pass at any step of the loop, up to *)
(* the longest round, and up to the patience of the watchdog where the     *)
(* loop hangs.  Whether the handlers of the 10 ms and the 100 ms timer run *)
(* in a round is left open.                                                *)
(***************************************************************************)
EXTENDS Integers

CONSTANTS
  Channels, PWM_TIMEOUT, Duties,   \* of ChannelPromise
  Timer_1s_Count,                  \* ticks of a second
  Byte,                            \* values of one byte of Count_1s
  WatchdogTicks,                   \* ticks after which the watchdog resets
  RoundTicks,                      \* ticks of the longest round of the loop
  MaxAge                           \* bound: where the history stops counting

ASSUME TimeoutAssumption  == PWM_TIMEOUT \in Nat \ {0}
ASSUME SecondAssumption   == Timer_1s_Count \in Nat \ {0}
ASSUME ByteAssumption     == Byte \in 2 .. Timer_1s_Count
ASSUME WatchdogAssumption == WatchdogTicks \in Nat /\ RoundTicks \in 1 .. WatchdogTicks

(* A round may be the longest without losing a second for good, and the    *)
(* counter does not get near the end of its range.                         *)
ASSUME RoundAssumption ==
  /\ RoundTicks <= Timer_1s_Count
  /\ Timer_1s_Count + Byte + RoundTicks + WatchdogTicks <= (Byte * Byte) \div 2

(* The latest an output goes off: two rounds of the loop after its time,   *)
(* the one that reads the counter torn and too low and the one that should *)
(* see the second is over and hangs, and what a torn read made the first   *)
(* second shorter.                                                         *)
LatestOff == PWM_TIMEOUT * Timer_1s_Count + RoundTicks + WatchdogTicks + Byte - 1

(* The earliest: a second is counted that was over when the command came,  *)
(* but not yet seen, and the last one is cut short by a torn read.         *)
EarliestOff ==
  (PWM_TIMEOUT - 1) * Timer_1s_Count - Byte + 1 - 2 * RoundTicks

ASSUME MaxAgeAssumption == MaxAge \in Nat /\ MaxAge > LatestOff

VARIABLES
  pin, left, due,   \* the outputs
  Count_1s,         \* incremented by the timer interrupt
  at,               \* where the main loop is
  half,             \* the byte of Count_1s that has been read, which it is,
                    \* and whether the counter has changed since
  loaded,           \* the value of Count_1s that is being decremented
  fed,              \* ticks since the watchdog was last reset
  age               \* history: ticks since the last command for a channel
                    \* that is on

outputs == <<pin, left, due>>
vars    == <<outputs, Count_1s, at, half, loaded, fed, age>>

PWM == INSTANCE ChannelPromise

NoHalf == [which |-> "none", value |-> 0, late |-> FALSE]

(* int is two bytes wide.                                                  *)
Word    == Byte * Byte
Wrap(x) == ((x + Word \div 2) % Word) - Word \div 2

LowByte(x)  == x % Byte
HighByte(x) == x \div Byte

Init ==
  /\ PWM!Init
  /\ Count_1s = 0 /\ at = "kick" /\ half = NoHalf /\ loaded = 0 /\ fed = 0
  /\ age = [c \in Channels |-> 0]

-----------------------------------------------------------------------------
(* The hardware.                                                           *)

(* Timer_Is1s takes a second from the counter between cli and sei.         *)
InterruptsOn == at # "store"

WaitsTooLong == fed < 2 * WatchdogTicks

WatchdogWaits == fed < IF at = "hang" THEN WatchdogTicks ELSE RoundTicks

(* T0CompAInt.  The two bytes of a comparison are read a few processor     *)
(* cycles apart, so at most one tick falls between them.                   *)
Tick ==
  /\ InterruptsOn
  /\ WatchdogWaits
  /\ ~half.late
  /\ half' = [half EXCEPT !.late = (at = "second")]
  /\ Count_1s' = Wrap(Count_1s + 1)
  /\ fed' = fed + 1
  /\ age' = [c \in Channels |-> IF pin[c] > 0 /\ age[c] < MaxAge THEN age[c] + 1
                             ELSE IF pin[c] > 0 THEN MaxAge ELSE 0]
  /\ UNCHANGED <<outputs, at, loaded>>

(* The watchdog, or the supply, restarts the program.                      *)
Reset ==
  /\ PWM!Reset
  /\ Count_1s' = 0 /\ at' = "kick" /\ half' = NoHalf /\ loaded' = 0 /\ fed' = 0
  /\ age' = [c \in Channels |-> 0]

Bite == fed = WatchdogTicks /\ Reset

-----------------------------------------------------------------------------
(* The main loop.                                                          *)

(* wdr, at the top of the loop.                                            *)
Kick ==
  /\ at = "kick"
  /\ fed' = 0
  /\ at' = "serial"
  /\ UNCHANGED <<outputs, Count_1s, half, loaded, age>>

(* Run_USB_Serial: a line that is a pwm command for a channel of this      *)
(* board.                                                                  *)
Update_Pwm(c, d) ==
  /\ at = "serial"
  /\ PWM!Set(c, d)
  /\ age' = [age EXCEPT ![c] = 0]
  /\ UNCHANGED <<Count_1s, at, half, loaded, fed>>

(* The restart command never returns.                                      *)
Restart ==
  /\ at = "serial"
  /\ at' = "hang"
  /\ UNCHANGED <<outputs, Count_1s, half, loaded, fed, age>>

(* The serial and sensor handlers are done.                                *)
HandlersDone ==
  /\ at = "serial"
  /\ at' = "first"
  /\ UNCHANGED <<outputs, Count_1s, half, loaded, fed, age>>

(* Timer_Is1s compares Count_1s with interrupts on: its two bytes are read *)
(* one after the other, in an order that is the compiler's.                *)
ReadFirstByte ==
  /\ at = "first"
  /\ half' \in { [which |-> "low",  value |-> LowByte(Count_1s), late |-> FALSE],
                 [which |-> "high", value |-> HighByte(Count_1s), late |-> FALSE] }
  /\ at' = "second"
  /\ UNCHANGED <<outputs, Count_1s, loaded, fed, age>>

ReadAsOneByte == half.value

AsRead == IF half.which = "low" THEN HighByte(Count_1s) * Byte + half.value
                                ELSE half.value * Byte + LowByte(Count_1s)

ReadSecondByte ==
  /\ at = "second"
  /\ half' = NoHalf
  /\ at' = IF AsRead > Timer_1s_Count THEN "load" ELSE "kick"
  /\ UNCHANGED <<outputs, Count_1s, loaded, fed, age>>

(* Count_1s -= Timer_1s_Count, between cli and sei.                        *)
Load ==
  /\ at = "load"
  /\ loaded' = Count_1s
  /\ at' = "store"
  /\ UNCHANGED <<outputs, Count_1s, half, fed, age>>

Cleared == 0

OneTaken == loaded - 1

Remaining == loaded - Timer_1s_Count

Store ==
  /\ at = "store"
  /\ Count_1s' = Remaining
  /\ loaded' = 0
  /\ at' = "passed"
  /\ UNCHANGED <<outputs, half, fed, age>>

(* PWM_RunTimer.                                                           *)
PWM_RunTimer ==
  /\ at = "passed"
  /\ PWM!Second
  /\ at' = "age"
  /\ UNCHANGED <<Count_1s, half, loaded, fed, age>>

AgeChannel(c) ==
  /\ at = "age"
  /\ PWM!Age(c)
  /\ UNCHANGED <<Count_1s, at, half, loaded, fed, age>>

EndRunTimer ==
  /\ at = "age"
  /\ due = {}
  /\ at' = "kick"
  /\ UNCHANGED <<outputs, Count_1s, half, loaded, fed, age>>

MainStep ==
  \/ Kick \/ HandlersDone \/ ReadFirstByte \/ ReadSecondByte
  \/ Load \/ Store \/ PWM_RunTimer \/ EndRunTimer
  \/ \E c \in Channels : AgeChannel(c)

Next ==
  \/ Tick \/ Bite \/ Reset
  \/ \E c \in Channels, d \in Duties : Update_Pwm(c, d)
  \/ Restart
  \/ MainStep

Spec == Init /\ [][Next]_vars

(* The clock runs, the watchdog bites, the processor executes; nobody need *)
(* send a command.                                                         *)
FairSpec == Spec /\ WF_vars(Tick) /\ WF_vars(Bite) /\ WF_vars(MainStep)

-----------------------------------------------------------------------------
TypeOK ==
  /\ pin \in [Channels -> 0 .. 255]
  /\ left \in [Channels -> 0 .. PWM_TIMEOUT]
  /\ due \subseteq Channels
  /\ Count_1s \in Int
  /\ at \in {"kick", "serial", "hang", "first", "second", "load", "store",
             "passed", "age"}
  /\ half \in [which : {"none", "low", "high"}, value : Int, late : BOOLEAN]
  /\ loaded \in Int
  /\ fed \in 0 .. WatchdogTicks
  /\ age \in [Channels -> Nat]

(* Dead man's handle: no output stays on much longer than its timeout,     *)
(* whatever the loop is doing, hanging in the restart command included.    *)
OffInTime == \A c \in Channels : pin[c] > 0 => age[c] <= LatestOff

TimedOut(c) == AgeChannel(c) /\ pin[c] > 0 /\ pin'[c] = 0

(* Nor does the timeout take an output away much too early.                *)
NotTooEarly == [][\A c \in Channels : TimedOut(c) => age[c] >= EarliestOff]_vars

(* timer.h: Timer_Is1s "returns 1 once every second", so when it does, a   *)
(* second has passed since the last one that was counted.                  *)
SecondIsOver == at = "load" => Count_1s >= Timer_1s_Count

(* An output that nobody commands any more goes off.                       *)
RunsDown == \A c \in Channels : []<>(pin[c] = 0 \/ age[c] = 0)
=============================================================================
