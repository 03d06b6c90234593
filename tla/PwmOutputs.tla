----------------------------- MODULE PwmOutputs -----------------------------
(***************************************************************************)
(* The PWM outputs of the firmware, firmware/pwm.c.                        *)
(*                                                                         *)
(* The main loop is the only caller, so there is one call at a time; but   *)
(* the timer hardware reads the compare and control registers all the      *)
(* time, so every register write is a step of its own and the output pin   *)
(* shows what lies between two writes.  pc names the next write.           *)
(***************************************************************************)
EXTENDS Integers

CONSTANTS
  PWM_NUM_CHANELS,   \* outputs of the board
  PWM_TIMEOUT,       \* seconds without an update after which one is disabled
  Duties             \* duties that callers pass, 16 bit integers

ASSUME NumChanelsAssumption == PWM_NUM_CHANELS \in Nat \ {0}
ASSUME TimeoutAssumption    == PWM_TIMEOUT \in Nat \ {0}
(* The values of int on this processor.                                    *)
Int16 == { x \in Int : -32768 <= x /\ x <= 32767 }

ASSUME DutiesAssumption     == Duties \subseteq Int16

Channels == 0 .. PWM_NUM_CHANELS - 1

VARIABLES
  enabled,   \* enabled[c]: the COMnx1 bit that connects the pin of c to its
             \* compare unit; the PORT bit behind it is never set
  ocr,       \* ocr[c]: the compare register OCRnx of c
  timers,    \* PWM_Timers
  pc,        \* the next register write of the main loop
  call,      \* channel and duty of the call of PWM_SetDutyCycle in progress
  i,         \* the loop index of PWM_Clear and PWM_RunTimer; at its limit
             \* when no loop is running
  asked      \* history: the duty of the last call for c since the last reset

pwmVars == <<enabled, ocr, timers, pc, call, i, asked>>

-----------------------------------------------------------------------------
(* From percent to the compare value, in 16 bit arithmetic.                *)

Wrap16(x) == ((x + 32768) % 65536) - 32768

UnclampedAbove(duty) == IF duty < 0 THEN 0 ELSE duty

PWM_RangeCheck(duty) ==
  IF duty > 100 THEN 100 ELSE IF duty < 0 THEN 0 ELSE duty

RawValue(duty) == Wrap16(PWM_RangeCheck(duty) * 327) \div 128

-----------------------------------------------------------------------------
(* Power-on, and any reset: the registers of the timers are cleared by the *)
(* hardware and PWM_Timers by the start-up code.                           *)
Init ==
  /\ enabled = [c \in Channels |-> FALSE]
  /\ ocr     = [c \in Channels |-> 0]
  /\ timers  = [c \in Channels |-> 0]
  /\ pc      = "boot"
  /\ call    = [ch |-> 0, duty |-> 0]
  /\ i       = 0
  /\ asked   = [c \in Channels |-> 0]

AlwaysDriven(duty) == TRUE

Driven(duty) == duty # 0

(* PWM_SetDutyCycle, first write: connect or disconnect the pin.           *)
SetPort(c, duty) ==
  /\ enabled' = [enabled EXCEPT ![c] = Driven(duty)]
  /\ call' = [ch |-> c, duty |-> duty]
  /\ asked' = [asked EXCEPT ![c] = duty]
  /\ pc' = "register"
  /\ UNCHANGED <<ocr, timers, i>>

PWM_SetDutyCycle(c, duty) == pc = "idle" /\ SetPort(c, duty)

(* PWM_SetDutyCycle, second write: the compare value.                      *)
UpdateRegister ==
  /\ pc = "register"
  /\ ocr' = [ocr EXCEPT ![call.ch] = RawValue(call.duty)]
  /\ pc' = "timer"
  /\ UNCHANGED <<enabled, timers, call, i, asked>>

NotRearmed(c) == timers

Rearmed(c) == [timers EXCEPT ![c] = PWM_TIMEOUT]

(* PWM_SetDutyCycle, last write: restart the timeout; then return to the   *)
(* loop of PWM_Clear while it runs, to the main loop otherwise.            *)
RestartTimeout ==
  /\ pc = "timer"
  /\ timers' = Rearmed(call.ch)
  /\ IF i < PWM_NUM_CHANELS THEN pc' = "clear" /\ i' = i + 1
                            ELSE pc' = "idle"  /\ i' = i
  /\ UNCHANGED <<enabled, ocr, call, asked>>

-----------------------------------------------------------------------------
(* PWM_Initialise: the control registers connect every pin while the       *)
(* compare registers still hold zero, then PWM_Clear turns every channel   *)
(* off, then no channel is left with a timeout.                            *)

ConnectAll ==
  /\ pc = "boot"
  /\ enabled' = [c \in Channels |-> TRUE]
  /\ pc' = "clear"
  /\ UNCHANGED <<ocr, timers, call, i, asked>>

PWM_Clear ==
  /\ pc = "clear"
  /\ i < PWM_NUM_CHANELS
  /\ SetPort(i, 0)

ClearTimers ==
  /\ pc = "clear"
  /\ i = PWM_NUM_CHANELS
  /\ timers' = [c \in Channels |-> 0]
  /\ pc' = "idle"
  /\ UNCHANGED <<enabled, ocr, call, i, asked>>

-----------------------------------------------------------------------------
(* PWM_RunTimer, called once a second.                                     *)

PWM_RunTimer ==
  /\ pc = "idle"
  /\ pc' = "scan"
  /\ i' = 0
  /\ UNCHANGED <<enabled, ocr, timers, call, asked>>

(* The channel has no timeout running, or still has time left.             *)
AgeChannel ==
  /\ pc = "scan"
  /\ i < PWM_NUM_CHANELS
  /\ timers[i] # 1
  /\ timers' = [timers EXCEPT ![i] = IF @ = 0 THEN 0 ELSE @ - 1]
  /\ i' = i + 1
  /\ UNCHANGED <<enabled, ocr, pc, call, asked>>

NotKilled(c) == ocr

Killed(c) == [ocr EXCEPT ![c] = 0]

(* The timeout of the channel is over: first the compare value ...         *)
KillOutput ==
  /\ pc = "scan"
  /\ i < PWM_NUM_CHANELS
  /\ timers[i] = 1
  /\ timers' = [timers EXCEPT ![i] = 0]
  /\ ocr' = Killed(i)
  /\ pc' = "release"
  /\ UNCHANGED <<enabled, call, i, asked>>

NotReleased(c) == enabled

Released(c) == [enabled EXCEPT ![c] = FALSE]

(* ... then the pin.                                                       *)
ReleasePort ==
  /\ pc = "release"
  /\ enabled' = Released(i)
  /\ pc' = "scan"
  /\ i' = i + 1
  /\ UNCHANGED <<ocr, timers, call, asked>>

EndRunTimer ==
  /\ pc = "scan"
  /\ i = PWM_NUM_CHANELS
  /\ pc' = "idle"
  /\ UNCHANGED <<enabled, ocr, timers, call, i, asked>>

-----------------------------------------------------------------------------
(* The steps of a call that has begun; the main loop cannot leave it.      *)
PwmStep ==
  \/ UpdateRegister \/ RestartTimeout
  \/ ConnectAll \/ PWM_Clear \/ ClearTimers
  \/ AgeChannel \/ KillOutput \/ ReleasePort \/ EndRunTimer

(* The watchdog, or the supply, resets the processor at any moment.        *)
Reset ==
  /\ enabled' = [c \in Channels |-> FALSE]
  /\ ocr'     = [c \in Channels |-> 0]
  /\ timers'  = [c \in Channels |-> 0]
  /\ pc'      = "boot"
  /\ call'    = [ch |-> 0, duty |-> 0]
  /\ i'       = 0
  /\ asked'   = [c \in Channels |-> 0]

Next ==
  \/ \E c \in Channels, d \in Duties : PWM_SetDutyCycle(c, d)
  \/ PWM_RunTimer
  \/ PwmStep
  \/ Reset

Spec == Init /\ [][Next]_pwmVars

-----------------------------------------------------------------------------
TypeOK ==
  /\ enabled \in [Channels -> BOOLEAN]
  /\ ocr \in [Channels -> 0 .. 255]
  /\ timers \in [Channels -> 0 .. PWM_TIMEOUT]
  /\ pc \in {"boot", "clear", "idle", "register", "timer", "scan", "release"}
  /\ call \in [ch : Channels, duty : Int16]
  /\ i \in 0 .. PWM_NUM_CHANELS
  /\ asked \in [Channels -> Int16]

(* Fail-safe: whenever the main loop is between two calls, a channel whose *)
(* timeout is not running is disconnected and its compare value is zero,   *)
(* however calls, seconds and resets were interleaved before.              *)
FailSafe ==
  pc = "idle" =>
    \A c \in Channels : timers[c] = 0 => ~enabled[c] /\ ocr[c] = 0

(* No stale duty is waiting behind a disconnected pin: PWM_SetDutyCycle    *)
(* connects the pin before it writes the compare register, so whatever the *)
(* register still holds is what the output shows in between.               *)
NoStaleDuty ==
  pc = "idle" => \A c \in Channels : ~enabled[c] => ocr[c] = 0

(* A connected output is on, but for one case: the decision to connect is  *)
(* made before the duty is clamped, so a pin is left connected at compare  *)
(* value zero, which is a short pulse in every period, exactly when the    *)
(* last duty asked for was negative.  No timeout, reset or earlier duty    *)
(* leaves a pin that way, and no duty above zero is rounded down to it.    *)
DrivenMeansOn ==
  pc = "idle" => \A c \in Channels : enabled[c] => (ocr[c] = 0 <=> asked[c] < 0)

-----------------------------------------------------------------------------
(* The refinement: what the pin shows, and the seconds a channel has left. *)
(* A command counts as taken from the write on that changes the pin.       *)

Pin == [c \in Channels |-> IF enabled[c] THEN ocr[c] ELSE 0]

Taken(c) ==
  /\ call.ch = c
  /\ pc = "timer" \/ (pc = "register" /\ call.duty = 0)

Left == [c \in Channels |-> IF Taken(c) THEN PWM_TIMEOUT ELSE timers[c]]

Due ==
  IF pc = "scan" THEN i .. PWM_NUM_CHANELS - 1
  ELSE IF pc = "release" THEN i + 1 .. PWM_NUM_CHANELS - 1
  ELSE {}

Promise == INSTANCE ChannelPromise
  WITH pin <- Pin, left <- Left, due <- Due, Duties <- Duties \cup {0}

(* The registers keep the promise: every write either leaves all outputs   *)
(* as they are or is one command, one ageing or one reset of the abstract  *)
(* board.  In particular no intermediate level ever reaches a pin.         *)
KeepsPromise == Promise!Spec
=============================================================================
