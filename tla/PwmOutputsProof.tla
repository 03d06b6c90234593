-------------------------- MODULE PwmOutputsProof --------------------------
(***************************************************************************)
(* Proofs about PwmOutputs, for any number of channels, any timeout and    *)
(* any 16 bit duties.                                                      *)
(***************************************************************************)
EXTENDS PwmOutputs, TLAPS

InCall(c) == pc \in {"register", "timer"} /\ call.ch = c

(* PWM_Initialise has not returned yet.                                    *)
Booting == pc \in {"boot", "clear"} \/ (pc \in {"register", "timer"} /\ i # PWM_NUM_CHANELS)

(* Where the loop index stands.                                            *)
IndexInv ==
  /\ pc = "idle" => i = PWM_NUM_CHANELS
  /\ pc = "boot" => i = 0
  /\ pc = "release" => i # PWM_NUM_CHANELS

(* While PWM_Initialise runs no compare register holds anything but zero.  *)
BootInv ==
  Booting =>
    /\ \A c \in Channels : ocr[c] = 0
    /\ \A c \in Channels : c < i => ~enabled[c]
    /\ pc \in {"register", "timer"} => call.ch = i /\ call.duty = 0

(* What a call in progress has already written.                            *)
CallInv ==
  /\ pc \in {"register", "timer"} => enabled[call.ch] = (call.duty # 0)
  /\ pc = "timer" => ocr[call.ch] = RawValue(call.duty)
  /\ pc = "release" => ocr[i] = 0 /\ timers[i] = 0

(* FailSafe and NoStaleDuty at every step, not only between two calls: the *)
(* channel a call or a timeout is working on is the only exception.        *)
ChannelInv ==
  ~Booting => \A c \in Channels : ~InCall(c) =>
    /\ ~enabled[c] => ocr[c] = 0
    /\ timers[c] = 0 => ocr[c] = 0 /\ (~enabled[c] \/ (pc = "release" /\ c = i))

(* The duty of a call is one that was commanded, or the 0 of PWM_Clear.    *)
CallDuty == call.duty \in Duties \cup {0}

IInv == TypeOK /\ IndexInv /\ BootInv /\ CallInv /\ CallDuty /\ ChannelInv
-----------------------------------------------------------------------------
(* The conversion of PWM_SetDutyCycle never overflows its 16 bit product   *)
(* and yields a level the promise allows, for every duty.                  *)
LEMMA RawValueIsALevel ==
  ASSUME NEW d \in Int
  PROVE  /\ RawValue(d) \in 0 .. 255
         /\ (RawValue(d) = 0) <=> (d <= 0)
         /\ d >= 100 => RawValue(d) = 255
         /\ d \in 1 .. 100 => 100 * RawValue(d) - 255 * d \in (-99 .. 99)
<1> DEFINE r == PWM_RangeCheck(d)
<1>1. /\ r \in 0 .. 100
      /\ r = 0 <=> d <= 0
      /\ d >= 100 => r = 100
      /\ d \in 1 .. 100 => r = d
  BY DEF PWM_RangeCheck
<1>2. RawValue(d) = (r * 327) \div 128
  <2>1. ((r * 327) + 32768) % 65536 = (r * 327) + 32768
    BY <1>1
  <2> QED BY <1>1, <2>1 DEF RawValue, Wrap16
<1> HIDE DEF r
<1> QED BY <1>1, <1>2

-----------------------------------------------------------------------------
(* Power-on satisfies the inductive invariant.                             *)
LEMMA InitIInv == Init => IInv
  BY NumChanelsAssumption, TimeoutAssumption
  DEF Init, Int16, IInv, TypeOK, IndexInv, BootInv, CallInv, CallDuty, ChannelInv, Booting, InCall, Channels

(* Every step of the main loop, and every reset, preserves it.             *)
LEMMA NextIInv == IInv /\ [Next]_pwmVars => IInv'
<1> SUFFICES ASSUME IInv, [Next]_pwmVars PROVE IInv'
  OBVIOUS
<1> USE NumChanelsAssumption, TimeoutAssumption DEF Channels
<1>0. CallDuty'
  BY DEF IInv, CallDuty, Next, PwmStep, pwmVars, PWM_SetDutyCycle, SetPort, UpdateRegister,
         RestartTimeout, ConnectAll, PWM_Clear, ClearTimers, PWM_RunTimer, AgeChannel,
         KillOutput, ReleasePort, EndRunTimer, Reset
<1>1. ASSUME NEW c \in Channels, NEW d \in Duties, PWM_SetDutyCycle(c, d)
      PROVE  IInv'
  <2>1. d \in Int16
    BY DutiesAssumption
  <2>2. TypeOK'
    BY <1>1, <2>1 DEF IInv, TypeOK, PWM_SetDutyCycle, SetPort, Driven
  <2>3. IndexInv' /\ BootInv' /\ CallInv'
    BY <1>1, <2>1 DEF IInv, TypeOK, IndexInv, BootInv, CallInv, Booting,
                      PWM_SetDutyCycle, SetPort, Driven
  <2>4. ChannelInv'
    BY <1>1, <2>1 DEF IInv, TypeOK, IndexInv, ChannelInv, Booting, InCall,
                      PWM_SetDutyCycle, SetPort, Driven
  <2> QED BY <1>0, <2>2, <2>3, <2>4 DEF IInv
<1>2. CASE UpdateRegister
  <2>1. RawValue(call.duty) \in 0 .. 255 /\ (call.duty = 0 => RawValue(call.duty) = 0)
    <3>1. call.duty \in Int
      BY DEF IInv, TypeOK, Int16
    <3>2. /\ RawValue(call.duty) \in 0 .. 255
          /\ (RawValue(call.duty) = 0) <=> (call.duty <= 0)
      BY <3>1, RawValueIsALevel, Zenon
    <3> QED BY <3>1, <3>2
  <2>2. TypeOK'
    <3>1. call.ch \in Channels /\ ocr' \in [Channels -> 0 .. 255]
      BY <1>2, <2>1 DEF IInv, TypeOK, UpdateRegister
    <3> QED BY <1>2, <3>1, SMTT(20) DEF IInv, TypeOK, UpdateRegister
  <2>3. IndexInv' /\ BootInv'
    BY <1>2, <2>1 DEF IInv, TypeOK, IndexInv, BootInv, Booting, UpdateRegister
  <2>4. CallInv'
    BY <1>2 DEF IInv, TypeOK, CallInv, UpdateRegister, RawValue, PWM_RangeCheck
  <2>5. ChannelInv'
    BY <1>2 DEF IInv, TypeOK, IndexInv, ChannelInv, Booting, InCall, UpdateRegister
  <2> QED BY <1>0, <2>2, <2>3, <2>4, <2>5 DEF IInv
<1>3. CASE RestartTimeout
  <2>1. TypeOK'
    <3>1. timers' \in [Channels -> 0 .. PWM_TIMEOUT]
      BY <1>3 DEF IInv, TypeOK, RestartTimeout, Rearmed
    <3> QED BY <1>3, <3>1, SMTT(20) DEF IInv, TypeOK, IndexInv, RestartTimeout
  <2>2. IndexInv' /\ CallInv'
    BY <1>3 DEF IInv, TypeOK, IndexInv, CallInv, RestartTimeout
  <2>3. BootInv'
    BY <1>3 DEF IInv, TypeOK, IndexInv, BootInv, CallInv, Booting, RestartTimeout
  <2>4. ChannelInv'
    <3>0. RawValue(0) = 0 /\ \A d \in Int : d # 0 /\ RawValue(d) = 0 => d < 0
      BY RawValueIsALevel
    <3> QED BY <1>3, <3>0 DEF IInv, TypeOK, IndexInv, CallInv, ChannelInv, Booting, InCall,
                  RestartTimeout, Rearmed
  <2> QED BY <1>0, <2>1, <2>2, <2>3, <2>4 DEF IInv
<1>4. CASE ConnectAll
  <2>1. TypeOK'
    BY <1>4 DEF IInv, TypeOK, ConnectAll
  <2>2. IndexInv' /\ BootInv' /\ CallInv' /\ ChannelInv'
    BY <1>4 DEF IInv, TypeOK, IndexInv, BootInv, CallInv, ChannelInv, Booting, ConnectAll
  <2> QED BY <1>0, <2>1, <2>2 DEF IInv
<1>5. CASE PWM_Clear
  <2>1. TypeOK'
    BY <1>5, SMTT(20) DEF IInv, TypeOK, Int16, PWM_Clear, SetPort, Driven
  <2>2. IndexInv' /\ BootInv' /\ CallInv' /\ ChannelInv'
    BY <1>5 DEF IInv, TypeOK, IndexInv, BootInv, CallInv, ChannelInv, Booting,
                PWM_Clear, SetPort, Driven
  <2> QED BY <1>0, <2>1, <2>2 DEF IInv
<1>6. CASE ClearTimers
  <2>1. TypeOK'
    <3>1. timers' \in [Channels -> 0 .. PWM_TIMEOUT]
      BY <1>6 DEF ClearTimers
    <3> QED BY <1>6, <3>1 DEF IInv, TypeOK, ClearTimers
  <2>2. IndexInv' /\ BootInv' /\ CallInv' /\ ChannelInv'
    BY <1>6 DEF IInv, TypeOK, IndexInv, BootInv, CallInv, ChannelInv, Booting, ClearTimers
  <2> QED BY <1>0, <2>1, <2>2 DEF IInv
<1>7. CASE PWM_RunTimer
  <2>1. TypeOK'
    BY <1>7 DEF IInv, TypeOK, PWM_RunTimer
  <2>2. IndexInv' /\ BootInv' /\ CallInv' /\ ChannelInv'
    BY <1>7 DEF IInv, TypeOK, IndexInv, BootInv, CallInv, ChannelInv, Booting, InCall,
                PWM_RunTimer
  <2> QED BY <1>0, <2>1, <2>2 DEF IInv
<1>8. CASE AgeChannel
  <2>1. TypeOK'
    <3>1. i \in Channels /\ timers[i] \in 0 .. PWM_TIMEOUT
      BY <1>8 DEF IInv, TypeOK, AgeChannel
    <3>2. timers' \in [Channels -> 0 .. PWM_TIMEOUT]
      BY <1>8, <3>1 DEF IInv, TypeOK, AgeChannel
    <3>3. i' \in 0 .. PWM_NUM_CHANELS
      BY <1>8, <3>1 DEF AgeChannel
    <3>4. UNCHANGED <<enabled, ocr, pc, call, asked>> /\ TypeOK
      BY <1>8 DEF AgeChannel, IInv
    <3> QED BY <3>2, <3>3, <3>4, Zenon DEF TypeOK
  <2>2. IndexInv' /\ BootInv' /\ CallInv'
    BY <1>8 DEF IInv, TypeOK, IndexInv, BootInv, CallInv, Booting, AgeChannel
  <2>3. ChannelInv'
    BY <1>8 DEF IInv, TypeOK, ChannelInv, Booting, InCall, AgeChannel
  <2> QED BY <1>0, <2>1, <2>2, <2>3 DEF IInv
<1>9. CASE KillOutput
  <2>1. TypeOK'
    <3>1. /\ timers' \in [Channels -> 0 .. PWM_TIMEOUT]
          /\ ocr' \in [Channels -> 0 .. 255]
      BY <1>9 DEF IInv, TypeOK, KillOutput, Killed
    <3>2. UNCHANGED <<enabled, call, i, asked>> /\ pc' = "release" /\ TypeOK
      BY <1>9 DEF KillOutput, IInv
    <3> QED BY <3>1, <3>2, Zenon DEF TypeOK
  <2>2. IndexInv' /\ BootInv' /\ CallInv'
    BY <1>9 DEF IInv, TypeOK, IndexInv, BootInv, CallInv, Booting, KillOutput, Killed
  <2>3. ChannelInv'
    BY <1>9 DEF IInv, TypeOK, ChannelInv, Booting, InCall, KillOutput, Killed
  <2> QED BY <1>0, <2>1, <2>2, <2>3 DEF IInv
<1>10. CASE ReleasePort
  <2>1. TypeOK'
    BY <1>10, SMTT(20) DEF IInv, TypeOK, IndexInv, ReleasePort, Released
  <2>2. IndexInv' /\ BootInv' /\ CallInv'
    BY <1>10 DEF IInv, TypeOK, IndexInv, BootInv, CallInv, Booting, ReleasePort, Released
  <2>3. ChannelInv'
    BY <1>10 DEF IInv, TypeOK, IndexInv, CallInv, ChannelInv, Booting, InCall,
                 ReleasePort, Released
  <2> QED BY <1>0, <2>1, <2>2, <2>3 DEF IInv
<1>11. CASE EndRunTimer
  BY <1>0, <1>11 DEF IInv, TypeOK, IndexInv, BootInv, CallInv, ChannelInv, Booting, InCall,
               EndRunTimer
<1>12. CASE Reset
  BY <1>0, <1>12 DEF Reset, Int16, IInv, TypeOK, IndexInv, BootInv, CallInv, ChannelInv, Booting, InCall
<1>13. CASE UNCHANGED pwmVars
  BY <1>0, <1>13 DEF pwmVars, IInv, TypeOK, IndexInv, BootInv, CallInv, ChannelInv, Booting, InCall
<1> QED
  BY <1>1, <1>2, <1>3, <1>4, <1>5, <1>6, <1>7, <1>8, <1>9, <1>10, <1>11, <1>12, <1>13
  DEF Next, PwmStep

(* The inductive invariant holds throughout.                               *)
THEOREM InductiveInvariant == Spec => []IInv
  BY InitIInv, NextIInv, PTL DEF Spec

(* The registers and counters of the outputs never leave their ranges: in  *)
(* particular no compare value exceeds eight bits and no timeout is        *)
(* counted below zero.                                                     *)
THEOREM TypeCorrect == Spec => []TypeOK
  BY InductiveInvariant, PTL DEF IInv

(* An output whose timeout is not running is off, for every schedule of    *)
(* commands, seconds and resets.                                           *)
THEOREM FailSafeHolds == Spec => []FailSafe
<1>1. IInv => FailSafe
  BY DEF IInv, IndexInv, ChannelInv, Booting, InCall, FailSafe
<1> QED BY <1>1, InductiveInvariant, PTL

(* No compare register keeps an old duty behind a disconnected pin, which  *)
(* the next command would show before it writes its own.                   *)
THEOREM NoStaleDutyHolds == Spec => []NoStaleDuty
<1>1. IInv => NoStaleDuty
  BY DEF IInv, IndexInv, ChannelInv, Booting, InCall, NoStaleDuty
<1> QED BY <1>1, InductiveInvariant, PTL

(* A channel that is neither being commanded nor being killed is connected *)
(* at compare value zero only for a negative duty, and the call in         *)
(* progress has the duty that was asked for.                               *)
OnInv ==
  /\ pc \in {"register", "timer"} => asked[call.ch] = call.duty
  /\ ~Booting => \A c \in Channels :
       ~InCall(c) /\ ~(pc = "release" /\ c = i) => (enabled[c] => (ocr[c] = 0 <=> asked[c] < 0))

(* Whatever 16 bit duties are asked for, in whatever order with seconds    *)
(* and resets: a connected output has compare value zero only if the last  *)
(* duty asked for was negative, and then it has.                           *)
THEOREM DrivenMeansOnHolds == Spec => []DrivenMeansOn
<1> USE NumChanelsAssumption, TimeoutAssumption DEF Channels
<1>1. Init => OnInv
  BY DEF Init, OnInv, Booting
<1>2. ASSUME IInv, OnInv, [Next]_pwmVars
      PROVE  OnInv'
  <2> USE <1>2 DEF OnInv, Booting, InCall
  <2>0. TypeOK /\ IndexInv /\ BootInv /\ CallInv /\ CallDuty /\ ChannelInv
    BY DEF IInv
  <2>1. ASSUME NEW c \in Channels, NEW d \in Duties, PWM_SetDutyCycle(c, d)
        PROVE  OnInv'
    BY <2>0, <2>1 DEF TypeOK, IndexInv, PWM_SetDutyCycle, SetPort
  <2>2. CASE UpdateRegister
    BY <2>0, <2>2 DEF TypeOK, UpdateRegister
  <2>3. CASE RestartTimeout
    <3>1. enabled[call.ch] => (ocr[call.ch] = 0 <=> asked[call.ch] < 0)
      <4>1. call.duty \in Int
        BY <2>0 DEF TypeOK, Int16
      <4>2. call.duty # 0 => (RawValue(call.duty) = 0 <=> call.duty < 0)
        <5>1. (RawValue(call.duty) = 0) <=> (call.duty <= 0)
          BY <4>1, RawValueIsALevel, Zenon
        <5> QED BY <4>1, <5>1
      <4>3. enabled[call.ch] = (call.duty # 0) /\ ocr[call.ch] = RawValue(call.duty)
        BY <2>0, <2>3 DEF CallInv, RestartTimeout
      <4>4. asked[call.ch] = call.duty
        BY <2>3 DEF RestartTimeout
      <4> QED BY <4>2, <4>3, <4>4
    <3> QED BY <2>0, <2>3, <3>1 DEF TypeOK, IndexInv, RestartTimeout
  <2>4. CASE ConnectAll
    BY <2>4 DEF ConnectAll
  <2>5. CASE PWM_Clear
    BY <2>0, <2>5 DEF TypeOK, PWM_Clear, SetPort
  <2>6. CASE ClearTimers
    BY <2>0, <2>6 DEF TypeOK, BootInv, ClearTimers
  <2>7. CASE PWM_RunTimer
    BY <2>7 DEF PWM_RunTimer
  <2>8. CASE AgeChannel
    BY <2>8 DEF AgeChannel
  <2>9. CASE KillOutput
    BY <2>0, <2>9 DEF TypeOK, KillOutput, Killed
  <2>10. CASE ReleasePort
    BY <2>0, <2>10 DEF TypeOK, ReleasePort, Released
  <2>11. CASE EndRunTimer
    BY <2>11 DEF EndRunTimer
  <2>12. CASE Reset
    BY <2>12 DEF Reset
  <2>13. CASE UNCHANGED pwmVars
    BY <2>13 DEF pwmVars
  <2> QED
    BY <2>1, <2>2, <2>3, <2>4, <2>5, <2>6, <2>7, <2>8, <2>9, <2>10, <2>11, <2>12, <2>13
    DEF Next, PwmStep
<1>3. IInv /\ OnInv => DrivenMeansOn
  BY DEF IInv, IndexInv, OnInv, Booting, InCall, DrivenMeansOn
<1> QED BY <1>1, <1>2, <1>3, InductiveInvariant, PTL DEF Spec

-----------------------------------------------------------------------------
(* The refinement.  PWM_SetDutyCycle is taken at the write that changes    *)
(* the pin: the first for duty 0, the second for any other duty.           *)

(* Disconnecting a pin at the start of a call is the command of duty 0;    *)
(* connecting one changes no level, as nothing is left behind the pin.     *)
LEMMA SetPortStep ==
  ASSUME IInv, NEW c \in Channels, NEW d \in Duties \cup {0}, SetPort(c, d),
         pc \in {"idle", "clear"}, pc = "clear" => c = i /\ d = 0
  PROVE  Promise!Next \/ UNCHANGED Promise!vars
<1> USE NumChanelsAssumption DEF Channels, Promise!vars
<1>0. Due = {} /\ Due' = {} /\ TypeOK
  BY DEF IInv, SetPort, Due
<1>1. CASE d = 0
  <2>1. Pin' = [Pin EXCEPT ![c] = 0]
    BY <1>0, <1>1 DEF TypeOK, SetPort, Driven, Pin
  <2>2. Left' = [Left EXCEPT ![c] = PWM_TIMEOUT]
    BY <1>0, <1>1 DEF TypeOK, SetPort, Left, Taken
  <2>3. 0 \in Promise!LevelOf(0)
    BY DEF Promise!LevelOf
  <2>4. Promise!Set(c, 0)
    BY <1>0, <2>1, <2>2, <2>3 DEF Promise!Set
  <2> QED BY <1>1, <2>4 DEF Promise!Next
<1>2. CASE d # 0
  <2>1. pc = "idle" /\ ~Booting /\ ~InCall(c)
    BY <1>2 DEF IInv, IndexInv, Booting, InCall
  <2>2. ~enabled[c] => ocr[c] = 0
    BY <2>1 DEF IInv, ChannelInv
  <2>3. Pin' = Pin
    BY <1>0, <1>2, <2>2 DEF TypeOK, SetPort, Driven, Pin
  <2>4. Left' = Left
    BY <1>0, <1>2, <2>1 DEF TypeOK, SetPort, Left, Taken
  <2> QED BY <1>0, <2>3, <2>4
<1> QED BY <1>1, <1>2

(* Every step is a step of the promise, or changes nothing it speaks of.   *)
LEMMA StepRefines ==
  ASSUME IInv, [Next]_pwmVars
  PROVE  [Promise!Next]_(Promise!vars)
<1> USE NumChanelsAssumption, TimeoutAssumption DEF Channels, Promise!vars
<1>0. TypeOK
  BY DEF IInv
<1>1. ASSUME NEW c \in Channels, NEW d \in Duties, PWM_SetDutyCycle(c, d)
      PROVE  Promise!Next \/ UNCHANGED Promise!vars
  BY <1>1, SetPortStep DEF PWM_SetDutyCycle
<1>2. CASE UpdateRegister
  <2>0. Due = {} /\ Due' = {} /\ call.ch \in Channels /\ call.duty \in Int
    BY <1>0, <1>2 DEF TypeOK, Int16, UpdateRegister, Due
  <2>1. CASE call.duty = 0
    <3>1. Pin' = Pin
      BY <1>0, <1>2, <2>1 DEF IInv, CallInv, TypeOK, UpdateRegister, Pin
    <3>2. Left' = Left
      BY <1>2, <2>1 DEF UpdateRegister, Left, Taken
    <3> QED BY <2>0, <3>1, <3>2
  <2>2. CASE call.duty # 0
    <3>1. RawValue(call.duty) \in Promise!LevelOf(call.duty)
      BY <2>0, RawValueIsALevel, SMTT(20) DEF Promise!LevelOf
    <3>2. Pin' = [Pin EXCEPT ![call.ch] = RawValue(call.duty)]
      BY <1>0, <1>2, <2>0, <2>2 DEF IInv, CallInv, TypeOK, UpdateRegister, Pin
    <3>3. Left' = [Left EXCEPT ![call.ch] = PWM_TIMEOUT]
      BY <1>0, <1>2, <2>0, <2>2 DEF TypeOK, UpdateRegister, Left, Taken
    <3>4. Promise!Set(call.ch, call.duty)
      BY <2>0, <3>1, <3>2, <3>3 DEF Promise!Set
    <3>5. call.duty \in Duties \cup {0}
      BY <1>2 DEF IInv, CallDuty, UpdateRegister
    <3> QED BY <2>0, <3>4, <3>5 DEF Promise!Next
  <2> QED BY <2>1, <2>2
<1>3. CASE RestartTimeout
  <2>1. Pin' = Pin /\ Due = {} /\ Due' = {}
    BY <1>0, <1>3 DEF TypeOK, RestartTimeout, Pin, Due
  <2>2. Left' = Left
    BY <1>0, <1>3 DEF TypeOK, RestartTimeout, Rearmed, Left, Taken
  <2> QED BY <2>1, <2>2
<1>4. CASE ConnectAll
  <2>1. Due = {} /\ Due' = {} /\ Left' = Left
    BY <1>4 DEF ConnectAll, Due, Left, Taken
  <2>2. Pin' = Pin
    BY <1>0, <1>4 DEF IInv, BootInv, Booting, TypeOK, ConnectAll, Pin
  <2> QED BY <2>1, <2>2
<1>5. CASE PWM_Clear
  BY <1>0, <1>5, SetPortStep DEF PWM_Clear, TypeOK
<1>6. CASE ClearTimers
  <2>1. Due' = {}
    BY <1>6 DEF ClearTimers, Due
  <2>2. Pin' = [c \in Channels |-> 0]
    BY <1>0, <1>6 DEF IInv, BootInv, Booting, TypeOK, ClearTimers, Pin
  <2>3. Left' = [c \in Channels |-> 0]
    BY <1>6 DEF ClearTimers, Left, Taken
  <2>4. Promise!Reset
    BY <2>1, <2>2, <2>3 DEF Promise!Reset
  <2> QED BY <2>4 DEF Promise!Next
<1>7. CASE PWM_RunTimer
  <2>1. Due = {} /\ Due' = Channels /\ Pin' = Pin /\ Left' = Left
    BY <1>7 DEF PWM_RunTimer, Due, Pin, Left, Taken
  <2>2. Promise!Second
    BY <2>1 DEF Promise!Second
  <2> QED BY <2>2 DEF Promise!Next
<1>8. CASE AgeChannel
  <2>1. i \in Channels /\ Left[i] = timers[i]
    BY <1>0, <1>8 DEF TypeOK, AgeChannel, Left, Taken
  <2>2. i \in Due /\ Due' = Due \ {i}
    BY <1>0, <1>8 DEF TypeOK, AgeChannel, Due
  <2>3. Pin' = Pin
    BY <1>8 DEF AgeChannel, Pin
  <2>4. Left' = [Left EXCEPT ![i] = IF @ = 0 THEN 0 ELSE @ - 1]
    BY <1>0, <1>8 DEF TypeOK, AgeChannel, Left, Taken
  <2>5. Promise!Age(i)
    BY <1>8, <2>1, <2>2, <2>3, <2>4 DEF AgeChannel, Promise!Age
  <2> QED BY <2>1, <2>5 DEF Promise!Next
<1>9. CASE KillOutput
  <2>1. i \in Channels /\ Left[i] = 1
    BY <1>0, <1>9 DEF TypeOK, KillOutput, Left, Taken
  <2>2. i \in Due /\ Due' = Due \ {i}
    BY <1>0, <1>9 DEF TypeOK, KillOutput, Due
  <2>3. Pin' = [Pin EXCEPT ![i] = 0]
    BY <1>0, <1>9, <2>1 DEF TypeOK, KillOutput, Killed, Pin
  <2>4. Left' = [Left EXCEPT ![i] = IF @ = 0 THEN 0 ELSE @ - 1]
    <3>1. Left = timers /\ Left' = timers'
      BY <1>0, <1>9 DEF TypeOK, KillOutput, Left, Taken
    <3>2. timers' = [timers EXCEPT ![i] = 0] /\ timers[i] = 1
      BY <1>9 DEF KillOutput
    <3> QED BY <3>1, <3>2
  <2>5. Promise!Age(i)
    BY <2>1, <2>2, <2>3, <2>4 DEF Promise!Age
  <2> QED BY <2>1, <2>5 DEF Promise!Next
<1>10. CASE ReleasePort
  <2>1. Pin' = Pin
    BY <1>0, <1>10 DEF IInv, CallInv, TypeOK, ReleasePort, Released, Pin
  <2>2. Left' = Left
    BY <1>10 DEF ReleasePort, Left, Taken
  <2>3. Due' = Due
    BY <1>0, <1>10 DEF TypeOK, ReleasePort, Due
  <2> QED BY <2>1, <2>2, <2>3
<1>11. CASE EndRunTimer
  <2>1. Pin' = Pin /\ Left' = Left
    BY <1>11 DEF EndRunTimer, Pin, Left, Taken
  <2>2. Due' = Due
    BY <1>0, <1>11 DEF TypeOK, EndRunTimer, Due
  <2> QED BY <2>1, <2>2
<1>12. CASE Reset
  <2>1. Due' = {} /\ Pin' = [c \in Channels |-> 0] /\ Left' = [c \in Channels |-> 0]
    BY <1>12 DEF Reset, Due, Pin, Left, Taken
  <2>2. Promise!Reset
    BY <2>1 DEF Promise!Reset
  <2> QED BY <2>2 DEF Promise!Next
<1>13. CASE UNCHANGED pwmVars
  BY <1>13 DEF pwmVars, Due, Pin, Left, Taken
<1> QED
  BY <1>1, <1>2, <1>3, <1>4, <1>5, <1>6, <1>7, <1>8, <1>9, <1>10, <1>11, <1>12, <1>13
  DEF Next, PwmStep

(* The registers of pwm.c implement the promise of ChannelPromise: what a  *)
(* pin shows is always the level of the last command for it or zero, it    *)
(* changes in one step, and it goes to zero at the PWM_TIMEOUT-th second.  *)
THEOREM PromiseKept == Spec => KeepsPromise
<1>1. Init => Promise!Init
  BY DEF Init, Promise!Init, Pin, Left, Due, Taken
<1> QED
  BY <1>1, StepRefines, InductiveInvariant, PTL DEF Spec, KeepsPromise, Promise!Spec
=============================================================================
