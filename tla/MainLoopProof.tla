--------------------------- MODULE MainLoopProof ---------------------------
(***************************************************************************)
(* Proofs about MainLoop, for any timeout, any length of a second, any     *)
(* width of a byte, any watchdog, and rounds of the loop that are not      *)
(* longer than a second.                                                   *)
(***************************************************************************)
EXTENDS MainLoop, TLAPS

(* The multiple of Byte next above a second; a count that crosses it while *)
(* it is read may be read as one below.                                    *)
Rest     == Timer_1s_Count % Byte
Crossing == Timer_1s_Count - Rest + Byte

(* The count when the first of its bytes was read.                         *)
AtFirst == IF half.late THEN Count_1s - 1 ELSE Count_1s

HalfInv ==
  /\ at = "second" => \/ half.which = "low" /\ half.value = LowByte(AtFirst)
                      \/ half.which = "high" /\ half.value = HighByte(AtFirst)
  /\ half.late => at = "second" /\ fed >= 1

(* How far the count can be ahead, without the ticks of this round: a      *)
(* second that is seen as late as possible, and less than that where one   *)
(* was seen, or read too low, in this round.                               *)
CountInv ==
  /\ at # "hang" => fed <= RoundTicks
  /\ Count_1s >= -Rest
  /\ Count_1s - fed <= Crossing - 1 + RoundTicks
  /\ at = "kick" => Count_1s - fed <= Crossing - 1
  /\ at \in {"passed", "age"} =>
       Count_1s - fed <= Crossing - 1 + RoundTicks - Timer_1s_Count
  /\ at \in {"load", "store"} => Count_1s >= Timer_1s_Count - Rest
  /\ at = "store" => loaded = Count_1s

(* Seconds counted since the last command for c: those its time was        *)
(* reduced by and the one it is still to be reduced by.                    *)
Owed(c)    == IF at = "passed" \/ (at = "age" /\ c \in due) THEN 1 ELSE 0
Seconds(c) == PWM_TIMEOUT - left[c] + Owed(c)

(* What is counted and what is in the counter are the ticks since then, up *)
(* to what was in the counter at that time.                                *)
AgeInv ==
  /\ at # "age" => due = {}
  /\ \A c \in Channels : pin[c] > 0 =>
       /\ left[c] >= 1
       /\ age[c] <= Seconds(c) * Timer_1s_Count + Count_1s + Rest
       /\ age[c] >= Seconds(c) * Timer_1s_Count + Count_1s - (Crossing - 1 + 2 * RoundTicks)

IInv == TypeOK /\ HalfInv /\ CountInv /\ AgeInv

-----------------------------------------------------------------------------
(* Arithmetic.                                                             *)

LEMMA Sizes ==
  /\ PWM_TIMEOUT \in Nat /\ PWM_TIMEOUT >= 1
  /\ Timer_1s_Count \in Nat /\ Timer_1s_Count >= 1
  /\ Byte \in Nat /\ Byte >= 2 /\ Byte <= Timer_1s_Count
  /\ WatchdogTicks \in Nat /\ RoundTicks \in Nat
  /\ RoundTicks >= 1 /\ RoundTicks <= WatchdogTicks /\ RoundTicks <= Timer_1s_Count
  /\ MaxAge \in Nat
  BY TimeoutAssumption, SecondAssumption, ByteAssumption, WatchdogAssumption,
     RoundAssumption, MaxAgeAssumption

LEMMA Multiples ==
  /\ \A a \in Int : (a + 1) * Byte = a * Byte + Byte
  /\ \A a, b \in Int : a <= b => a * Byte <= b * Byte
<1>1. Byte \in Nat
  BY Sizes
<1>2. \A n \in Nat, a \in Int : (a + 1) * n = a * n + n
  OBVIOUS
<1>3. \A n \in Nat, a, b \in Int : a <= b => a * n <= b * n
  OBVIOUS
<1> QED BY <1>1, <1>2, <1>3

LEMMA Division ==
  ASSUME NEW x \in Int
  PROVE  /\ x \div Byte \in Int /\ x % Byte \in 0 .. Byte - 1
         /\ x = (x \div Byte) * Byte + (x % Byte)
<1>0. Byte \in Nat /\ Byte >= 2
  BY Sizes
<1>1. x \div Byte \in Int
  BY <1>0
<1>2. x % Byte \in 0 .. Byte - 1
  BY <1>0
<1>3. x = Byte * (x \div Byte) + (x % Byte)
  BY <1>0
<1>4. \A n, m \in Int : n * m = m * n
  OBVIOUS
<1> QED BY <1>0, <1>1, <1>2, <1>3, <1>4

(* The next multiple of Byte above a second is the Crossing.               *)
LEMMA NextMultiple ==
  /\ Rest \in 0 .. Byte - 1 /\ Crossing \in Nat
  /\ Timer_1s_Count < Crossing /\ Crossing <= Timer_1s_Count + Byte
  /\ \A a \in Int : a * Byte - Byte <= Timer_1s_Count => a * Byte <= Crossing
  /\ \A a \in Int : a * Byte + Byte - 1 > Timer_1s_Count =>
       a * Byte >= Timer_1s_Count - Rest
<1> DEFINE q == Timer_1s_Count \div Byte
<1>1. /\ q \in Int /\ Rest \in 0 .. Byte - 1 /\ Timer_1s_Count = q * Byte + Rest
      /\ Timer_1s_Count \in Nat /\ Byte \in Nat /\ Byte <= Timer_1s_Count
  BY Division, Sizes DEF Rest
<1> HIDE DEF q
<1>2. q * Byte \in Int /\ (q + 1) * Byte = q * Byte + Byte /\ (q + 1) * Byte = Crossing
  BY <1>1, Multiples DEF Crossing
<1>3. ASSUME NEW a \in Int, a * Byte - Byte <= Timer_1s_Count PROVE a * Byte <= Crossing
  <2>1. CASE a <= q + 1
    BY <1>1, <1>2, <2>1, Multiples
  <2>2. CASE q + 2 <= a
    <3>1. (q + 2) * Byte <= a * Byte /\ (q + 2) * Byte = (q + 1) * Byte + Byte
      <4>1. q + 2 \in Int /\ q + 1 \in Int /\ q + 2 = (q + 1) + 1
        BY <1>1
      <4> QED BY <2>2, <4>1, Multiples
    <3>2. a * Byte \in Int
      BY <1>1
    <3> QED BY <1>1, <1>2, <1>3, <3>1, <3>2 DEF Crossing
  <2> QED BY <1>1, <2>1, <2>2
<1>4. ASSUME NEW a \in Int, a * Byte + Byte - 1 > Timer_1s_Count
      PROVE  a * Byte >= Timer_1s_Count - Rest
  <2>1. a * Byte \in Int /\ (a + 1) * Byte = a * Byte + Byte
    BY <1>1, Multiples
  <2>2. CASE q <= a
    BY <1>1, <1>2, <2>1, <2>2, Multiples
  <2>3. CASE a + 1 <= q
    <3>1. (a + 1) * Byte <= q * Byte
      BY <1>1, <2>3, Multiples
    <3> QED BY <1>1, <1>2, <1>4, <2>1, <3>1
  <2> QED BY <1>1, <2>2, <2>3
<1> QED BY <1>1, <1>2, <1>3, <1>4 DEF Crossing

LEMMA Numbers ==
  /\ PWM_TIMEOUT \in Nat /\ Timer_1s_Count \in Nat /\ Byte \in Nat
  /\ WatchdogTicks \in Nat /\ RoundTicks \in Nat /\ Rest \in Nat /\ Crossing \in Nat
  /\ RoundTicks <= WatchdogTicks /\ RoundTicks <= Timer_1s_Count
<1>1. \A b \in Nat : \A r \in 0 .. b - 1 : r \in Nat
  OBVIOUS
<1>2. Rest \in Nat
  BY <1>1, NextMultiple, Sizes
<1> QED BY <1>2, NextMultiple, Sizes

(* The two bytes of the next count.                                        *)
LEMMA NextBytes ==
  ASSUME NEW x \in Int
  PROVE  /\ LowByte(x) \in 0 .. Byte - 1 /\ HighByte(x) \in Int
         /\ x = HighByte(x) * Byte + LowByte(x)
         /\ \/ LowByte(x + 1) = LowByte(x) + 1 /\ HighByte(x + 1) = HighByte(x)
            \/ /\ LowByte(x) = Byte - 1 /\ LowByte(x + 1) = 0
               /\ HighByte(x + 1) = HighByte(x) + 1
<1> DEFINE l == LowByte(x)
           h == HighByte(x)
           m == LowByte(x + 1)
           k == HighByte(x + 1)
<1>1. /\ l \in 0 .. Byte - 1 /\ h \in Int /\ x = h * Byte + l
      /\ m \in 0 .. Byte - 1 /\ k \in Int /\ x + 1 = k * Byte + m
      /\ Byte \in Nat /\ Byte >= 2
  BY Division, Sizes DEF LowByte, HighByte
<1> HIDE DEF l, h, m, k
<1>2. h * Byte \in Int /\ k * Byte \in Int /\ (h + 1) * Byte = h * Byte + Byte
      /\ (k + 1) * Byte = k * Byte + Byte
  BY <1>1, Multiples
<1>3. ~ (k + 1 <= h)
  <2> SUFFICES ASSUME k + 1 <= h PROVE FALSE
    OBVIOUS
  <2>1. (k + 1) * Byte <= h * Byte
    BY <1>1, Multiples
  <2> QED BY <1>1, <1>2, <2>1
<1>4. ~ (h + 2 <= k)
  <2> SUFFICES ASSUME h + 2 <= k PROVE FALSE
    OBVIOUS
  <2>1. h + 1 \in Int /\ h + 2 = (h + 1) + 1 /\ h + 2 \in Int
    BY <1>1
  <2>2. (h + 2) * Byte = (h + 1) * Byte + Byte /\ (h + 2) * Byte <= k * Byte
    BY <1>1, <2>1, Multiples
  <2> QED BY <1>1, <1>2, <2>2
<1>5. k = h \/ k = h + 1
  BY <1>1, <1>3, <1>4
<1>6. CASE k = h
  BY <1>1, <1>2, <1>6 DEF l, h, m, k
<1>7. CASE k = h + 1
  BY <1>1, <1>2, <1>7 DEF l, h, m, k
<1> QED BY <1>5, <1>6, <1>7

LEMMA NoWrap ==
  ASSUME NEW x \in Int, -Byte < x, x < Timer_1s_Count + Byte + RoundTicks + WatchdogTicks
  PROVE  Wrap(x) = x
<1> DEFINE h == (Byte * Byte) \div 2
           s == Timer_1s_Count + Byte + RoundTicks + WatchdogTicks
<1>1. Byte * Byte \in Nat
  BY Sizes
<1>2. h \in Nat /\ 2 * h <= Byte * Byte
  BY <1>1
<1>3. s \in Nat /\ Byte <= s /\ s <= h /\ Byte \in Nat
  BY Sizes, RoundAssumption
<1>4. x + h \in Nat /\ x + h < Byte * Byte
  BY <1>1, <1>2, <1>3
<1>5. \A n, w \in Nat : n < w => n % w = n
  OBVIOUS
<1>6. (x + h) % (Byte * Byte) = x + h
  BY <1>1, <1>4, <1>5
<1>7. Wrap(x) = ((x + h) % (Byte * Byte)) - h
  BY DEF Wrap, Word
<1> HIDE DEF h
<1> QED BY <1>2, <1>6, <1>7

LEMMA MoreSeconds ==
  ASSUME NEW n \in Int
  PROVE  /\ n * Timer_1s_Count \in Int
         /\ (n + 1) * Timer_1s_Count = n * Timer_1s_Count + Timer_1s_Count
         /\ \A m \in Int : n <= m => n * Timer_1s_Count <= m * Timer_1s_Count
<1>1. \A t \in Nat : (n + 1) * t = n * t + t
  OBVIOUS
<1>2. \A t \in Nat, m \in Int : n <= m => n * t <= m * t
  OBVIOUS
<1>3. \A t \in Nat : n * t \in Int
  OBVIOUS
<1> QED BY <1>1, <1>2, <1>3, Sizes

-----------------------------------------------------------------------------
(* What a read of the counter tells: that a second is over, but for the    *)
(* ticks since the last crossing of a byte; or that the count was less     *)
(* than the next crossing before this round.                               *)
LEMMA WhatIsRead ==
  ASSUME TypeOK, HalfInv, at = "second"
  PROVE  /\ AsRead \in Int
         /\ AsRead > Timer_1s_Count => Count_1s >= Timer_1s_Count - Rest
         /\ AsRead <= Timer_1s_Count => Count_1s - fed <= Crossing - 1
<1> DEFINE x == AtFirst
<1>0. /\ Count_1s \in Int /\ fed \in Nat /\ half.late \in BOOLEAN
      /\ x = IF half.late THEN Count_1s - 1 ELSE Count_1s
      /\ half.late => fed >= 1
      /\ \/ half.which = "low" /\ half.value = LowByte(x)
         \/ half.which = "high" /\ half.value = HighByte(x)
  BY Sizes DEF TypeOK, HalfInv, AtFirst
<1> HIDE DEF x
<1>1. x \in Int
  BY <1>0
<1>2. /\ LowByte(x) \in 0 .. Byte - 1 /\ HighByte(x) \in Int
      /\ x = HighByte(x) * Byte + LowByte(x)
      /\ \/ LowByte(x + 1) = LowByte(x) + 1 /\ HighByte(x + 1) = HighByte(x)
         \/ /\ LowByte(x) = Byte - 1 /\ LowByte(x + 1) = 0
            /\ HighByte(x + 1) = HighByte(x) + 1
  BY <1>1, NextBytes
<1>3. /\ Timer_1s_Count \in Nat /\ Byte \in Nat /\ Rest \in 0 .. Byte - 1
      /\ Timer_1s_Count < Crossing /\ Crossing \in Nat
  BY Sizes, NextMultiple
<1>4. AsRead = IF half.which = "low" THEN HighByte(Count_1s) * Byte + half.value
                                     ELSE half.value * Byte + LowByte(Count_1s)
  BY DEF AsRead
<1>5. CASE ~half.late \/ HighByte(x + 1) = HighByte(x)
  <2>1. AsRead = Count_1s \/ (half.late /\ AsRead = Count_1s - 1)
    <3>1. CASE ~half.late
      BY <1>0, <1>2, <1>4, <3>1
    <3>2. CASE half.late
      <4>1. x + 1 = Count_1s /\ x = Count_1s - 1
        BY <1>0, <3>2
      <4>2. HighByte(Count_1s) = HighByte(x)
        BY <1>5, <3>2, <4>1
      <4>3. LowByte(Count_1s) = LowByte(x) + 1
        BY <1>2, <1>3, <4>1, <4>2
      <4>4. CASE half.which = "low" /\ half.value = LowByte(x)
        BY <1>2, <1>4, <3>2, <4>1, <4>2, <4>4
      <4>5. CASE half.which = "high" /\ half.value = HighByte(x)
        <5>1. AsRead = HighByte(x) * Byte + (LowByte(x) + 1)
          BY <1>4, <4>3, <4>5
        <5> QED BY <1>2, <1>3, <4>1, <5>1
      <4> QED BY <1>0, <4>4, <4>5
    <3> QED BY <1>0, <3>1, <3>2
  <2> QED BY <1>0, <1>3, <2>1
<1>6. CASE half.late /\ HighByte(x + 1) # HighByte(x)
  <2>1. /\ x + 1 = Count_1s /\ x = Count_1s - 1 /\ fed >= 1
        /\ LowByte(x) = Byte - 1 /\ LowByte(Count_1s) = 0
        /\ HighByte(Count_1s) = HighByte(x) + 1
    <3>1. x + 1 = Count_1s /\ x = Count_1s - 1 /\ fed >= 1
      BY <1>0, <1>6
    <3> QED BY <1>2, <1>6, <3>1
  <2> DEFINE h == HighByte(x)
             g == HighByte(Count_1s)
  <2>2. /\ h \in Int /\ g \in Int /\ g = h + 1
        /\ (h + 1) * Byte = h * Byte + Byte /\ h * Byte \in Int
        /\ Count_1s = h * Byte + Byte
    BY <1>2, <1>3, <2>1, Multiples
  <2>3. g * Byte = Count_1s
    BY <2>2
  <2>4. /\ Count_1s - Byte <= Timer_1s_Count => Count_1s <= Crossing
        /\ Count_1s + Byte - 1 > Timer_1s_Count => Count_1s >= Timer_1s_Count - Rest
    BY <2>2, <2>3, NextMultiple
  <2>5. CASE half.which = "low" /\ half.value = LowByte(x)
    <3>1. AsRead = Count_1s + (Byte - 1)
      BY <1>4, <2>1, <2>3, <2>5
    <3> QED BY <1>0, <1>3, <2>1, <2>4, <3>1
  <2>6. CASE half.which = "high" /\ half.value = HighByte(x)
    <3>1. AsRead = h * Byte + 0
      BY <1>4, <2>1, <2>6
    <3> HIDE DEF h, g
    <3>2. AsRead = h * Byte
      BY <2>2, <3>1
    <3>3. AsRead = Count_1s - Byte
      BY <1>3, <2>2, <3>2
    <3> QED BY <1>0, <1>3, <2>1, <2>4, <3>3
  <2> QED BY <1>0, <2>5, <2>6
<1> QED BY <1>0, <1>5, <1>6

-----------------------------------------------------------------------------
(* The invariant.                                                          *)

LEMMA SmallCount ==
  ASSUME TypeOK, CountInv
  PROVE  /\ Count_1s \in Int /\ fed \in Nat
         /\ -Byte < Count_1s
         /\ Count_1s <= Timer_1s_Count - Rest + Byte - 1 + RoundTicks + WatchdogTicks
         /\ at # "hang" =>
              Count_1s <= Timer_1s_Count - Rest + Byte - 1 + 2 * RoundTicks
<1>1. Count_1s \in Int /\ fed \in 0 .. WatchdogTicks
  BY DEF TypeOK
<1>2. /\ Rest \in 0 .. Byte - 1 /\ Byte \in Nat /\ WatchdogTicks \in Nat
      /\ RoundTicks \in Nat /\ Timer_1s_Count \in Nat
      /\ Crossing = Timer_1s_Count - Rest + Byte
  BY Sizes, NextMultiple DEF Crossing
<1>3. /\ at # "hang" => fed <= RoundTicks
      /\ Count_1s >= -Rest
      /\ Count_1s - fed <= Crossing - 1 + RoundTicks
  BY DEF CountInv
<1>4. -Byte < Count_1s
  BY <1>1, <1>2, <1>3
<1>5. Count_1s <= Timer_1s_Count - Rest + Byte - 1 + RoundTicks + WatchdogTicks
  BY <1>1, <1>2, <1>3
<1>6. at # "hang" => Count_1s <= Timer_1s_Count - Rest + Byte - 1 + 2 * RoundTicks
  BY <1>1, <1>2, <1>3
<1> QED BY <1>1, <1>2, <1>4, <1>5, <1>6

LEMMA InTime ==
  ASSUME TypeOK, CountInv, AgeInv
  PROVE  OffInTime
<1> SUFFICES ASSUME NEW c \in Channels, pin[c] > 0 PROVE age[c] <= LatestOff
  BY DEF OffInTime
<1>1. /\ left[c] \in 0 .. PWM_TIMEOUT /\ age[c] \in Nat /\ left[c] >= 1
      /\ age[c] <= Seconds(c) * Timer_1s_Count + Count_1s + Rest
  BY DEF TypeOK, AgeInv
<1>2. /\ Timer_1s_Count \in Nat /\ Byte \in Nat /\ RoundTicks \in Nat /\ PWM_TIMEOUT \in Nat
      /\ WatchdogTicks \in Nat /\ RoundTicks <= WatchdogTicks /\ Rest \in 0 .. Byte - 1
  BY Sizes, NextMultiple
<1>3. /\ Count_1s \in Int
      /\ Count_1s <= Timer_1s_Count - Rest + Byte - 1 + RoundTicks + WatchdogTicks
  BY SmallCount
<1> DEFINE k == PWM_TIMEOUT * Timer_1s_Count
<1>4. k \in Int /\ LatestOff = k + RoundTicks + WatchdogTicks + Byte - 1
  BY <1>2 DEF LatestOff
<1>5. CASE Owed(c) = 0
  <2>1. /\ Seconds(c) \in Int /\ Seconds(c) + 1 <= PWM_TIMEOUT
        /\ PWM_TIMEOUT \in Int /\ Seconds(c) + 1 \in Int
    BY <1>1, <1>2, <1>5 DEF Seconds
  <2>2. /\ Seconds(c) * Timer_1s_Count \in Int
        /\ Seconds(c) * Timer_1s_Count + Timer_1s_Count <= k
    BY <2>1, MoreSeconds
  <2> HIDE DEF k
  <2> QED BY <1>1, <1>2, <1>3, <1>4, <2>2
<1>6. CASE Owed(c) # 0
  <2>1. Owed(c) = 1 /\ at \in {"passed", "age"}
    BY <1>6 DEF Owed
  <2>2. Seconds(c) \in Int /\ Seconds(c) <= PWM_TIMEOUT /\ PWM_TIMEOUT \in Int
    <3>1. Seconds(c) = PWM_TIMEOUT - left[c] + 1
      BY <2>1 DEF Seconds
    <3> QED BY <1>1, <1>2, <3>1
  <2>3. Seconds(c) * Timer_1s_Count \in Int /\ Seconds(c) * Timer_1s_Count <= k
    BY <2>2, MoreSeconds
  <2>4. /\ Count_1s - fed <= Crossing - 1 + RoundTicks - Timer_1s_Count
        /\ fed <= RoundTicks /\ fed \in Nat
    BY <2>1, SmallCount DEF CountInv
  <2>5. Count_1s + Rest <= Byte - 1 + 2 * RoundTicks
    BY <1>2, <1>3, <2>4 DEF Crossing
  <2> HIDE DEF k
  <2> QED BY <1>1, <1>2, <1>3, <1>4, <2>3, <2>5
<1> QED BY <1>5, <1>6

LEMMA InitIInv == Init => IInv
<1> SUFFICES ASSUME Init PROVE IInv
  OBVIOUS
<1>1. TypeOK
  BY Sizes DEF Init, PWM!Init, NoHalf, TypeOK
<1>2. HalfInv
  BY DEF Init, NoHalf, HalfInv
<1>3. CountInv
  <2>1. Count_1s = 0 /\ fed = 0 /\ at = "kick"
    BY DEF Init
  <2> QED BY <2>1, Sizes, NextMultiple DEF CountInv
<1>4. AgeInv
  BY DEF Init, PWM!Init, AgeInv
<1> QED BY <1>1, <1>2, <1>3, <1>4 DEF IInv

(* A tick adds one to the count and to the age of what is on.              *)
LEMMA TickIInv ==
  ASSUME IInv, Tick
  PROVE  IInv'
<1> USE DEF outputs
<1>0. TypeOK /\ HalfInv /\ CountInv /\ AgeInv
  BY DEF IInv
<1>1. /\ Rest \in 0 .. Byte - 1 /\ Crossing \in Nat /\ Timer_1s_Count \in Nat
      /\ Byte \in Nat /\ RoundTicks \in Nat /\ WatchdogTicks \in Nat
      /\ RoundTicks <= WatchdogTicks /\ MaxAge \in Nat
      /\ Crossing = Timer_1s_Count - Rest + Byte
  BY Sizes, NextMultiple DEF Crossing
<1>2. /\ Count_1s \in Int /\ fed \in Nat /\ at # "store"
      /\ at # "hang" => fed < RoundTicks
      /\ at = "hang" => fed < WatchdogTicks
  BY <1>0, SmallCount DEF Tick, InterruptsOn, WatchdogWaits
<1>3. Wrap(Count_1s + 1) = Count_1s + 1
  <2>1. /\ Count_1s >= -Rest /\ Count_1s - fed <= Crossing - 1 + RoundTicks
    BY <1>0 DEF CountInv
  <2>2. -Byte < Count_1s + 1
    BY <1>1, <1>2, <2>1
  <2>3. Count_1s + 1 < Timer_1s_Count + Byte + RoundTicks + WatchdogTicks
    <3>1. fed + 1 <= WatchdogTicks
      BY <1>1, <1>2
    <3> QED BY <1>1, <1>2, <2>1, <3>1
  <2>4. Count_1s + 1 \in Int
    BY <1>2
  <2> QED BY <2>2, <2>3, <2>4, NoWrap
<1>4. /\ Count_1s' = Count_1s + 1 /\ fed' = fed + 1
      /\ half' = [half EXCEPT !.late = (at = "second")] /\ ~half.late
      /\ UNCHANGED <<pin, left, due, at, loaded>>
      /\ age' = [c \in Channels |-> IF pin[c] > 0 /\ age[c] < MaxAge THEN age[c] + 1
                             ELSE IF pin[c] > 0 THEN MaxAge ELSE 0]
  BY <1>3 DEF Tick
<1>5. \A c \in Channels : pin[c] > 0 => age[c] < MaxAge /\ age'[c] = age[c] + 1
  <2>1. \A c \in Channels : pin[c] > 0 => age[c] <= LatestOff /\ age[c] \in Nat
    BY <1>0, InTime DEF OffInTime, TypeOK
  <2>2. LatestOff \in Int /\ LatestOff < MaxAge
    BY Sizes, MaxAgeAssumption DEF LatestOff
  <2>3. \A c \in Channels : pin[c] > 0 => age[c] < MaxAge
    BY <1>1, <2>1, <2>2
  <2> QED BY <1>4, <2>3
<1>6. TypeOK'
  <2>1. age' \in [Channels -> Nat]
    <3>1. \A c \in Channels : age[c] \in Nat
      BY <1>0 DEF TypeOK
    <3>2. \A c \in Channels :
            (IF pin[c] > 0 /\ age[c] < MaxAge THEN age[c] + 1
             ELSE IF pin[c] > 0 THEN MaxAge ELSE 0) \in Nat
      <4> TAKE c \in Channels
      <4>1. age[c] + 1 \in Nat /\ MaxAge \in Nat /\ 0 \in Nat
        BY <1>1, <3>1
      <4> QED BY <4>1
    <3> QED BY <1>4, <3>2
  <2>2. half' \in [which : {"none", "low", "high"}, value : Int, late : BOOLEAN]
    BY <1>0, <1>4 DEF TypeOK
  <2>3. fed' \in 0 .. WatchdogTicks /\ Count_1s' \in Int
    BY <1>1, <1>2, <1>4
  <2> QED BY <1>0, <1>4, <2>1, <2>2, <2>3 DEF TypeOK
<1>7. HalfInv'
  <2>1. /\ half'.which = half.which /\ half'.value = half.value
        /\ half'.late = (at = "second")
    BY <1>0, <1>4 DEF TypeOK
  <2>2. AtFirst = Count_1s
    BY <1>4 DEF AtFirst
  <2>3. at = "second" => AtFirst' = Count_1s
    <3> SUFFICES ASSUME at = "second" PROVE AtFirst' = Count_1s
      OBVIOUS
    <3>1. half'.late
      BY <2>1
    <3>2. AtFirst' = Count_1s' - 1
      BY <3>1 DEF AtFirst
    <3> QED BY <1>2, <1>4, <3>2
  <2>4. at' = "second" => \/ half'.which = "low" /\ half'.value = LowByte(AtFirst')
                          \/ half'.which = "high" /\ half'.value = HighByte(AtFirst')
    BY <1>0, <1>4, <2>1, <2>2, <2>3 DEF HalfInv
  <2>5. half'.late => at' = "second" /\ fed' >= 1
    <3>1. fed' >= 1
      BY <1>2, <1>4
    <3>2. half'.late => at' = "second"
      BY <1>4, <2>1
    <3> QED BY <3>1, <3>2
  <2> QED BY <2>4, <2>5 DEF HalfInv
<1>8. CountInv'
  <2>1. Count_1s' - fed' = Count_1s - fed /\ Count_1s' >= Count_1s
    BY <1>2, <1>4
  <2>2. at' # "hang" => fed' <= RoundTicks
    BY <1>1, <1>2, <1>4
  <2>3. Count_1s >= -Rest /\ Count_1s' >= -Rest
    <3>1. Count_1s >= -Rest
      BY <1>0 DEF CountInv
    <3>2. Rest \in Int
      BY Numbers
    <3> QED BY <1>2, <1>4, <3>1, <3>2
  <2>4. at' \in {"load", "store"} => Count_1s' >= Timer_1s_Count - Rest
    <3> SUFFICES ASSUME at' \in {"load", "store"} PROVE Count_1s' >= Timer_1s_Count - Rest
      OBVIOUS
    <3>1. Count_1s >= Timer_1s_Count - Rest
      BY <1>0, <1>4 DEF CountInv
    <3>2. Timer_1s_Count - Rest \in Int
      BY Numbers
    <3> QED BY <1>2, <1>4, <3>1, <3>2
  <2>5. Count_1s' - fed' <= Crossing - 1 + RoundTicks
    BY <1>0, <2>1 DEF CountInv
  <2>6. at' = "kick" => Count_1s' - fed' <= Crossing - 1
    BY <1>0, <1>4, <2>1 DEF CountInv
  <2>7. at' \in {"passed", "age"} =>
          Count_1s' - fed' <= Crossing - 1 + RoundTicks - Timer_1s_Count
    BY <1>0, <1>4, <2>1 DEF CountInv
  <2> QED BY <1>2, <1>4, <2>2, <2>3, <2>4, <2>5, <2>6, <2>7 DEF CountInv
<1>9. AgeInv'
  <2> SUFFICES ASSUME NEW c \in Channels, pin[c] > 0
               PROVE  /\ left[c] >= 1
                      /\ age'[c] <= Seconds(c) * Timer_1s_Count + Count_1s' + Rest
                      /\ age'[c] >= Seconds(c) * Timer_1s_Count + Count_1s'
                                      - (Crossing - 1 + 2 * RoundTicks)
    BY <1>0, <1>4 DEF AgeInv, Seconds, Owed
  <2>1. /\ left[c] >= 1 /\ age[c] \in Nat /\ Seconds(c) \in Int
        /\ age[c] <= Seconds(c) * Timer_1s_Count + Count_1s + Rest
        /\ age[c] >= Seconds(c) * Timer_1s_Count + Count_1s - (Crossing - 1 + 2 * RoundTicks)
    <3>1. left[c] \in 0 .. PWM_TIMEOUT /\ PWM_TIMEOUT \in Nat
      BY <1>0, Numbers DEF TypeOK
    <3>2. Owed(c) \in {0, 1}
      BY DEF Owed
    <3>3. Seconds(c) \in Int
      BY <3>1, <3>2 DEF Seconds
    <3> QED BY <1>0, <3>3 DEF AgeInv, TypeOK
  <2> DEFINE s == Seconds(c) * Timer_1s_Count
  <2>2. s \in Int
    BY <2>1, MoreSeconds
  <2>3. /\ age[c] <= s + Count_1s + Rest
        /\ age[c] >= s + Count_1s - (Crossing - 1 + 2 * RoundTicks)
    BY <2>1
  <2> HIDE DEF s
  <2>4. Rest \in Int /\ Crossing \in Int /\ RoundTicks \in Int /\ age'[c] = age[c] + 1
    BY <1>5, Numbers
  <2>5. /\ age'[c] <= s + Count_1s' + Rest
        /\ age'[c] >= s + Count_1s' - (Crossing - 1 + 2 * RoundTicks)
    BY <1>2, <1>4, <2>1, <2>2, <2>3, <2>4
  <2> QED BY <2>1, <2>5 DEF s
<1> QED BY <1>6, <1>7, <1>8, <1>9 DEF IInv

LEMMA ResetIInv ==
  ASSUME IInv, Reset
  PROVE  IInv'
<1>1. /\ Count_1s' = 0 /\ fed' = 0 /\ at' = "kick" /\ half' = NoHalf /\ loaded' = 0
      /\ pin' = [c \in Channels |-> 0] /\ left' = [c \in Channels |-> 0] /\ due' = {}
      /\ age' = [c \in Channels |-> 0]
  BY DEF Reset, PWM!Reset
<1>2. TypeOK'
  BY <1>1, Sizes DEF TypeOK, NoHalf
<1>3. HalfInv'
  BY <1>1 DEF HalfInv, NoHalf
<1>4. CountInv'
  BY <1>1, Sizes, NextMultiple DEF CountInv
<1>5. AgeInv'
  BY <1>1 DEF AgeInv
<1> QED BY <1>2, <1>3, <1>4, <1>5 DEF IInv

(* A command: nothing is counted for its channel yet.                      *)
LEMMA UpdateIInv ==
  ASSUME IInv, NEW c \in Channels, NEW d \in Duties, Update_Pwm(c, d)
  PROVE  IInv'
<1>0. TypeOK /\ HalfInv /\ CountInv /\ AgeInv
  BY DEF IInv
<1>1. /\ at = "serial" /\ due' = due /\ left' = [left EXCEPT ![c] = PWM_TIMEOUT]
      /\ age' = [age EXCEPT ![c] = 0]
      /\ UNCHANGED <<Count_1s, at, half, loaded, fed>>
  BY DEF Update_Pwm, PWM!Set
<1>2. PICK v \in 0 .. 255 : pin' = [pin EXCEPT ![c] = v]
  BY DEF Update_Pwm, PWM!Set, PWM!LevelOf
<1>3. TypeOK'
  BY <1>0, <1>1, <1>2, Sizes DEF TypeOK
<1>4. HalfInv' /\ CountInv'
  BY <1>0, <1>1 DEF HalfInv, CountInv, AtFirst
<1>5. AgeInv'
  <2> SUFFICES ASSUME NEW e \in Channels, pin'[e] > 0
               PROVE  /\ left'[e] >= 1
                      /\ age'[e] <= Seconds(e)' * Timer_1s_Count + Count_1s + Rest
                      /\ age'[e] >= Seconds(e)' * Timer_1s_Count + Count_1s
                                      - (Crossing - 1 + 2 * RoundTicks)
    BY <1>0, <1>1 DEF AgeInv
  <2>1. CASE e = c
    <3>1. Seconds(e)' = 0 /\ left'[e] = PWM_TIMEOUT /\ age'[e] = 0
      BY <1>0, <1>1, <2>1, Sizes DEF TypeOK, Seconds, Owed
    <3>2. /\ Count_1s \in Int /\ Count_1s >= -Rest /\ Rest \in Nat /\ Crossing \in Nat
          /\ RoundTicks \in Nat
          /\ Count_1s <= Crossing - 1 + 2 * RoundTicks
      <4>1. Rest \in Nat /\ Crossing \in Nat /\ RoundTicks \in Nat /\ Timer_1s_Count \in Nat
            /\ Byte \in Nat
        BY Numbers
      <4>2. Count_1s <= Timer_1s_Count - Rest + Byte - 1 + 2 * RoundTicks /\ Count_1s \in Int
        BY <1>0, <1>1, SmallCount
      <4>3. Count_1s >= -Rest
        BY <1>0 DEF CountInv
      <4>4. Crossing = Timer_1s_Count - Rest + Byte
        BY DEF Crossing
      <4> QED BY <4>1, <4>2, <4>3, <4>4
    <3>3. 0 * Timer_1s_Count = 0
      BY Sizes
    <3> QED BY <3>1, <3>2, <3>3, Sizes
  <2>2. CASE e # c
    <3>1. pin'[e] = pin[e] /\ left'[e] = left[e] /\ age'[e] = age[e]
      BY <1>0, <1>1, <1>2, <2>2 DEF TypeOK
    <3>2. Seconds(e)' = Seconds(e)
      BY <1>1, <3>1 DEF Seconds, Owed
    <3> QED BY <1>0, <3>1, <3>2 DEF AgeInv
  <2> QED BY <2>1, <2>2
<1> QED BY <1>3, <1>4, <1>5 DEF IInv

(* Steps that touch neither the outputs nor the counter, and begin or end  *)
(* no second.                                                              *)
LEMMA SameSeconds ==
  ASSUME AgeInv, UNCHANGED <<pin, left, due, Count_1s, age>>,
         at \notin {"passed", "age"}, at' \notin {"passed", "age"}
  PROVE  AgeInv'
<1>1. \A c \in Channels : Seconds(c)' = Seconds(c)
  BY DEF Seconds, Owed
<1> QED BY <1>1 DEF AgeInv

LEMMA LoopIInv ==
  ASSUME IInv, Kick \/ HandlersDone \/ Restart \/ ReadFirstByte \/ ReadSecondByte \/ Load
  PROVE  IInv'
<1> USE DEF outputs
<1>0. TypeOK /\ HalfInv /\ CountInv /\ AgeInv /\ Count_1s \in Int /\ fed \in Nat
  BY SmallCount DEF IInv
<1>n. /\ RoundTicks \in Nat /\ Crossing \in Nat /\ WatchdogTicks \in Nat
       /\ RoundTicks <= WatchdogTicks
  BY Sizes, NextMultiple
<1>1. CASE Kick
  <2>1. /\ at = "kick" /\ at' = "serial" /\ fed' = 0
        /\ UNCHANGED <<pin, left, due, Count_1s, half, loaded, age>>
    BY <1>1 DEF Kick
  <2>2. TypeOK'
    BY <1>0, <1>n, <2>1 DEF TypeOK
  <2>3. HalfInv'
    BY <1>0, <2>1 DEF HalfInv
  <2>4. CountInv'
    <3>1. Count_1s - fed <= Crossing - 1 /\ fed <= RoundTicks /\ Count_1s >= -Rest
      BY <1>0, <2>1 DEF CountInv
    <3>2. Count_1s' - fed' <= Crossing - 1 + RoundTicks /\ fed' <= RoundTicks
      BY <1>0, <1>n, <2>1, <3>1
    <3> QED BY <2>1, <3>1, <3>2 DEF CountInv
  <2> QED BY <1>0, <2>1, <2>2, <2>3, <2>4, SameSeconds DEF IInv
<1>2. CASE HandlersDone \/ Restart
  <2>1. /\ at = "serial" /\ at' \in {"first", "hang"}
        /\ UNCHANGED <<pin, left, due, Count_1s, half, loaded, fed, age>>
    BY <1>2 DEF HandlersDone, Restart
  <2>2. TypeOK' /\ HalfInv' /\ CountInv'
    BY <1>0, <2>1 DEF TypeOK, HalfInv, CountInv
  <2> QED BY <1>0, <2>1, <2>2, SameSeconds DEF IInv
<1>3. CASE ReadFirstByte
  <2>1. /\ at = "first" /\ at' = "second"
        /\ UNCHANGED <<pin, left, due, Count_1s, loaded, fed, age>>
        /\ half' \in { [which |-> "low",  value |-> LowByte(Count_1s), late |-> FALSE],
                       [which |-> "high", value |-> HighByte(Count_1s), late |-> FALSE] }
    BY <1>3 DEF ReadFirstByte
  <2>2. LowByte(Count_1s) \in Int /\ HighByte(Count_1s) \in Int
    BY <1>0, NextBytes
  <2>3. /\ half' \in [which : {"none", "low", "high"}, value : Int, late : BOOLEAN]
        /\ ~half'.late
        /\ \/ half'.which = "low" /\ half'.value = LowByte(Count_1s)
           \/ half'.which = "high" /\ half'.value = HighByte(Count_1s)
    <3>1. CASE half' = [which |-> "low",  value |-> LowByte(Count_1s), late |-> FALSE]
      BY <2>2, <3>1
    <3>2. CASE half' = [which |-> "high", value |-> HighByte(Count_1s), late |-> FALSE]
      BY <2>2, <3>2
    <3> QED BY <2>1, <3>1, <3>2
  <2>4. TypeOK' /\ CountInv'
    BY <1>0, <2>1, <2>3 DEF TypeOK, CountInv
  <2>5. HalfInv'
    <3>1. AtFirst' = Count_1s
      BY <2>1, <2>3 DEF AtFirst
    <3> QED BY <2>1, <2>3, <3>1 DEF HalfInv
  <2> QED BY <1>0, <2>1, <2>4, <2>5, SameSeconds DEF IInv
<1>4. CASE ReadSecondByte
  <2>1. /\ at = "second" /\ half' = NoHalf
        /\ at' = IF AsRead > Timer_1s_Count THEN "load" ELSE "kick"
        /\ UNCHANGED <<pin, left, due, Count_1s, loaded, fed, age>>
    BY <1>4 DEF ReadSecondByte
  <2>2. TypeOK' /\ HalfInv'
    BY <1>0, <2>1 DEF TypeOK, HalfInv, NoHalf
  <2>3. /\ AsRead \in Int
        /\ AsRead > Timer_1s_Count => Count_1s >= Timer_1s_Count - Rest
        /\ AsRead <= Timer_1s_Count => Count_1s - fed <= Crossing - 1
    BY <1>0, <2>1, WhatIsRead
  <2>4. CASE AsRead > Timer_1s_Count
    <3>1. CountInv'
      BY <1>0, <2>1, <2>3, <2>4 DEF CountInv
    <3> QED BY <1>0, <2>1, <2>2, <2>4, <3>1, SameSeconds DEF IInv
  <2>5. CASE AsRead <= Timer_1s_Count
    <3>1. at' = "kick"
      BY <2>1, <2>3, <2>5, Sizes
    <3>2. CountInv'
      BY <1>0, <2>1, <2>3, <2>5, <3>1 DEF CountInv
    <3> QED BY <1>0, <2>1, <2>2, <3>1, <3>2, SameSeconds DEF IInv
  <2> QED BY <2>3, <2>4, <2>5, Sizes
<1>5. CASE Load
  <2>1. /\ at = "load" /\ at' = "store" /\ loaded' = Count_1s
        /\ UNCHANGED <<pin, left, due, Count_1s, half, fed, age>>
    BY <1>5 DEF Load
  <2>2. TypeOK' /\ HalfInv' /\ CountInv'
    BY <1>0, <2>1 DEF TypeOK, HalfInv, CountInv
  <2> QED BY <1>0, <2>1, <2>2, SameSeconds DEF IInv
<1> QED BY <1>1, <1>2, <1>3, <1>4, <1>5

(* A second is taken from the counter and owed to every channel.           *)
LEMMA StoreIInv ==
  ASSUME IInv, Store
  PROVE  IInv'
<1> USE DEF outputs
<1>0. TypeOK /\ HalfInv /\ CountInv /\ AgeInv /\ Count_1s \in Int /\ fed \in Nat
  BY SmallCount DEF IInv
<1>n. /\ RoundTicks \in Nat /\ Crossing \in Nat /\ Timer_1s_Count \in Nat /\ Rest \in Nat
       /\ PWM_TIMEOUT \in Nat
  BY Numbers
<1>1. /\ at = "store" /\ at' = "passed" /\ loaded' = 0
      /\ Count_1s' = Count_1s - Timer_1s_Count
      /\ UNCHANGED <<pin, left, due, half, fed, age>>
  BY <1>0 DEF Store, Remaining, CountInv
<1>2. TypeOK' /\ HalfInv'
  <2>1. Count_1s' \in Int
    BY <1>0, <1>n, <1>1
  <2> QED BY <1>0, <1>1, <2>1 DEF TypeOK, HalfInv
<1>3. CountInv'
  <2>1. /\ Count_1s >= Timer_1s_Count - Rest /\ fed <= RoundTicks
        /\ Count_1s - fed <= Crossing - 1 + RoundTicks
    BY <1>0, <1>1 DEF CountInv
  <2>2. /\ Count_1s' >= -Rest
        /\ Count_1s' - fed' <= Crossing - 1 + RoundTicks - Timer_1s_Count
        /\ Count_1s' - fed' <= Crossing - 1 + RoundTicks
    <3>1. \A n, f \in Int, k, t, r, x \in Nat :
            n >= t - x /\ n - f <= k - 1 + r =>
              n - t >= -x /\ n - t - f <= k - 1 + r - t /\ n - t - f <= k - 1 + r
      OBVIOUS
    <3>2. fed' = fed /\ fed \in Int
      BY <1>0, <1>1
    <3> QED BY <1>0, <1>n, <1>1, <2>1, <3>1, <3>2
  <2> QED BY <1>1, <2>1, <2>2 DEF CountInv
<1>4. AgeInv'
  <2> SUFFICES ASSUME NEW c \in Channels, pin[c] > 0
               PROVE  /\ left[c] >= 1
                      /\ age[c] <= Seconds(c)' * Timer_1s_Count + Count_1s' + Rest
                      /\ age[c] >= Seconds(c)' * Timer_1s_Count + Count_1s'
                                      - (Crossing - 1 + 2 * RoundTicks)
    BY <1>0, <1>1 DEF AgeInv
  <2>1. /\ left[c] >= 1 /\ age[c] \in Nat /\ left[c] \in Int
        /\ age[c] <= Seconds(c) * Timer_1s_Count + Count_1s + Rest
        /\ age[c] >= Seconds(c) * Timer_1s_Count + Count_1s - (Crossing - 1 + 2 * RoundTicks)
    <3>1. left[c] \in 0 .. PWM_TIMEOUT /\ age[c] \in Nat
      BY <1>0 DEF TypeOK
    <3>2. left[c] \in Int
      BY <1>n, <3>1
    <3> QED BY <1>0, <3>1, <3>2 DEF AgeInv
  <2>2. Seconds(c) \in Int /\ Seconds(c)' = Seconds(c) + 1
    <3>1. Owed(c) = 0 /\ Owed(c)' = 1
      BY <1>1 DEF Owed
    <3>2. Seconds(c) = PWM_TIMEOUT - left[c] + 0 /\ Seconds(c)' = PWM_TIMEOUT - left[c] + 1
      BY <1>1, <3>1 DEF Seconds
    <3> QED BY <1>n, <2>1, <3>2
  <2>3. /\ Seconds(c) * Timer_1s_Count \in Int
        /\ Seconds(c)' * Timer_1s_Count = Seconds(c) * Timer_1s_Count + Timer_1s_Count
    BY <2>2, MoreSeconds
  <2> DEFINE s == Seconds(c) * Timer_1s_Count
  <2> HIDE DEF s
  <2>4. /\ s \in Int /\ Seconds(c)' * Timer_1s_Count = s + Timer_1s_Count
        /\ age[c] <= s + Count_1s + Rest
        /\ age[c] >= s + Count_1s - (Crossing - 1 + 2 * RoundTicks)
    BY <2>1, <2>3 DEF s
  <2>5. /\ age[c] <= (s + Timer_1s_Count) + Count_1s' + Rest
        /\ age[c] >= (s + Timer_1s_Count) + Count_1s' - (Crossing - 1 + 2 * RoundTicks)
    BY <1>n, <1>0, <1>1, <2>1, <2>4
  <2> QED BY <2>1, <2>4, <2>5
<1> QED BY <1>2, <1>3, <1>4 DEF IInv

LEMMA RunTimerIInv ==
  ASSUME IInv, PWM_RunTimer \/ EndRunTimer
  PROVE  IInv'
<1>0. TypeOK /\ HalfInv /\ CountInv /\ AgeInv /\ Count_1s \in Int /\ fed \in Nat
  BY SmallCount DEF IInv
<1>1. /\ \/ at = "passed" /\ at' = "age" /\ due = {} /\ due' = Channels
         \/ at = "age" /\ at' = "kick" /\ due = {} /\ due' = due
      /\ UNCHANGED <<pin, left, Count_1s, half, loaded, fed, age>>
  BY DEF PWM_RunTimer, EndRunTimer, PWM!Second, outputs
<1>2. TypeOK' /\ HalfInv'
  BY <1>0, <1>1 DEF TypeOK, HalfInv
<1>3. CountInv'
  <2>1. Crossing \in Nat /\ RoundTicks \in Nat /\ Timer_1s_Count \in Nat
        /\ RoundTicks <= Timer_1s_Count
    BY Numbers
  <2>2. Count_1s - fed <= Crossing - 1
    <3>1. Count_1s - fed <= Crossing - 1 + RoundTicks - Timer_1s_Count
      BY <1>0, <1>1 DEF CountInv
    <3>2. Count_1s - fed \in Int
      BY <1>0
    <3> QED BY <2>1, <3>1, <3>2
  <2> QED BY <1>0, <1>1, <2>2 DEF CountInv
<1>4. \A c \in Channels : Seconds(c)' = Seconds(c)
  BY <1>1 DEF Seconds, Owed
<1>5. AgeInv'
  BY <1>0, <1>1, <1>4 DEF AgeInv
<1> QED BY <1>2, <1>3, <1>5 DEF IInv

(* A channel's time is reduced by the second it is owed.                   *)
LEMMA AgeChannelIInv ==
  ASSUME IInv, NEW c \in Channels, AgeChannel(c)
  PROVE  IInv'
<1>0. TypeOK /\ HalfInv /\ CountInv /\ AgeInv
  BY DEF IInv
<1>1. /\ at = "age" /\ c \in due /\ due' = due \ {c}
      /\ left' = [left EXCEPT ![c] = IF left[c] = 0 THEN 0 ELSE left[c] - 1]
      /\ pin' = IF left[c] = 1 THEN [pin EXCEPT ![c] = 0] ELSE pin
      /\ UNCHANGED <<Count_1s, at, half, loaded, fed, age>>
  BY DEF AgeChannel, PWM!Age
<1>2. left[c] \in 0 .. PWM_TIMEOUT /\ PWM_TIMEOUT \in Nat
  BY <1>0, Sizes DEF TypeOK
<1>3. TypeOK'
  <2>1. left' \in [Channels -> 0 .. PWM_TIMEOUT]
    <3>1. (IF left[c] = 0 THEN 0 ELSE left[c] - 1) \in 0 .. PWM_TIMEOUT
      BY <1>2
    <3> QED BY <1>0, <1>1, <3>1 DEF TypeOK
  <2>2. pin' \in [Channels -> 0 .. 255]
    BY <1>0, <1>1 DEF TypeOK
  <2> QED BY <1>0, <1>1, <2>1, <2>2 DEF TypeOK
<1>4. HalfInv' /\ CountInv'
  BY <1>0, <1>1 DEF HalfInv, CountInv, AtFirst
<1>5. AgeInv'
  <2> SUFFICES ASSUME NEW e \in Channels, pin'[e] > 0
               PROVE  /\ left'[e] >= 1
                      /\ age[e] <= Seconds(e)' * Timer_1s_Count + Count_1s + Rest
                      /\ age[e] >= Seconds(e)' * Timer_1s_Count + Count_1s
                                     - (Crossing - 1 + 2 * RoundTicks)
    BY <1>0, <1>1 DEF AgeInv
  <2>1. pin[e] > 0 /\ (e = c => left[c] # 1)
    BY <1>0, <1>1 DEF TypeOK
  <2>2. left[e] >= 1
    BY <1>0, <2>1 DEF AgeInv
  <2>3. CASE e = c
    <3>1. left'[e] = left[e] - 1 /\ left'[e] >= 1
      BY <1>0, <1>1, <1>2, <2>1, <2>2, <2>3 DEF TypeOK
    <3>2. Owed(e) = 1 /\ Owed(e)' = 0
      BY <1>1, <2>3 DEF Owed
    <3>3. Seconds(e)' = Seconds(e)
      BY <1>2, <2>3, <3>1, <3>2 DEF Seconds
    <3> QED BY <1>0, <2>1, <3>1, <3>3 DEF AgeInv
  <2>4. CASE e # c
    <3>1. left'[e] = left[e] /\ Owed(e)' = Owed(e)
      BY <1>0, <1>1, <2>4 DEF TypeOK, Owed
    <3>2. Seconds(e)' = Seconds(e)
      BY <3>1 DEF Seconds
    <3> QED BY <1>0, <2>1, <2>2, <3>1, <3>2 DEF AgeInv
  <2> QED BY <2>3, <2>4
<1> QED BY <1>3, <1>4, <1>5 DEF IInv

LEMMA Inductive == Spec => []IInv
<1>1. IInv /\ UNCHANGED vars => IInv'
  <2> SUFFICES ASSUME IInv, UNCHANGED vars PROVE IInv'
    OBVIOUS
  <2>1. UNCHANGED <<pin, left, due, Count_1s, at, half, loaded, fed, age>>
    BY DEF vars, outputs
  <2>2. TypeOK'
    BY <2>1 DEF IInv, TypeOK
  <2>3. HalfInv' /\ CountInv'
    BY <2>1 DEF IInv, HalfInv, CountInv, AtFirst
  <2>4. \A c \in Channels : Seconds(c)' = Seconds(c)
    BY <2>1 DEF Seconds, Owed
  <2>5. AgeInv'
    BY <2>1, <2>4 DEF IInv, AgeInv
  <2> QED BY <2>2, <2>3, <2>5 DEF IInv
<1>2. IInv /\ [Next]_vars => IInv'
  BY <1>1, TickIInv, ResetIInv, UpdateIInv, LoopIInv, StoreIInv, RunTimerIInv, AgeChannelIInv
     DEF Next, Bite, MainStep
<1> QED BY <1>2, InitIInv, PTL DEF Spec

(* The counter stays far from the end of its range, the watchdog within    *)
(* its patience.                                                           *)
THEOREM TypeCorrect == Spec => []TypeOK
<1>1. IInv => TypeOK
  BY DEF IInv
<1> QED BY <1>1, Inductive, PTL

(* Dead man's handle: an output goes off at the latest two rounds of the   *)
(* loop, one of which may hang, and what torn reads of the counter add     *)
(* after its time.                                                         *)
THEOREM OffInTimeHolds == Spec => []OffInTime
<1>1. IInv => OffInTime
  BY InTime DEF IInv
<1> QED BY <1>1, Inductive, PTL

(* And it never goes off more than a second, two rounds and a torn read    *)
(* early.                                                                  *)
THEOREM NotTooEarlyHolds == Spec => NotTooEarly
<1>1. IInv /\ [Next]_vars => [\A c \in Channels : TimedOut(c) => age[c] >= EarliestOff]_vars
  <2> SUFFICES ASSUME IInv, NEW c \in Channels, TimedOut(c) PROVE age[c] >= EarliestOff
    OBVIOUS
  <2>0. TypeOK /\ CountInv /\ AgeInv
    BY DEF IInv
  <2>1. /\ at = "age" /\ c \in due /\ pin[c] > 0 /\ pin'[c] = 0
        /\ pin' = IF left[c] = 1 THEN [pin EXCEPT ![c] = 0] ELSE pin
    BY DEF TimedOut, AgeChannel, PWM!Age
  <2>2. left[c] = 1
    BY <2>0, <2>1 DEF TypeOK
  <2>3. /\ Timer_1s_Count \in Nat /\ Byte \in Nat /\ RoundTicks \in Nat /\ Rest \in Nat
        /\ PWM_TIMEOUT \in Nat /\ Count_1s \in Int /\ Count_1s >= -Rest
    BY <2>0, Numbers, SmallCount DEF CountInv
  <2>4. Seconds(c) = PWM_TIMEOUT
    BY <2>1, <2>2, <2>3 DEF Seconds, Owed
  <2>5. age[c] \in Nat
    BY <2>0 DEF TypeOK
  <2>6. age[c] >= PWM_TIMEOUT * Timer_1s_Count + Count_1s - (Crossing - 1 + 2 * RoundTicks)
    BY <2>0, <2>1, <2>4 DEF AgeInv
  <2> DEFINE n == PWM_TIMEOUT - 1
  <2>7. n \in Int /\ PWM_TIMEOUT = n + 1
    BY <2>3
  <2>8. /\ n * Timer_1s_Count \in Int
        /\ PWM_TIMEOUT * Timer_1s_Count = n * Timer_1s_Count + Timer_1s_Count
    BY <2>7, MoreSeconds
  <2>9. EarliestOff = n * Timer_1s_Count - Byte + 1 - 2 * RoundTicks
    BY DEF EarliestOff
  <2> HIDE DEF n
  <2> QED BY <2>3, <2>5, <2>6, <2>8, <2>9 DEF Crossing
<1> QED BY <1>1, Inductive, PTL DEF Spec, NotTooEarly
=============================================================================
