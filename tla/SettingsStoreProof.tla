------------------------- MODULE SettingsStoreProof -------------------------
(* Theorems about SettingsStore.                                           *)
EXTENDS SettingsStore, TLAPS

LEMMA DivMod ==
  ASSUME NEW y \in Nat, NEW b \in Nat, b > 0, y < b * b
  PROVE  /\ y % b \in 0 .. b - 1
         /\ y \div b \in 0 .. b - 1
         /\ (y % b) + b * (y \div b) = y
<1>1. y % b \in 0 .. b - 1 /\ y \div b \in Int /\ (y % b) + b * (y \div b) = y
  BY SMT
<1>2. y \div b >= 0
  BY SMT
<1>3. b * (y \div b) < b * b
  BY <1>1, SMT
<1>4. y \div b < b
  BY <1>1, <1>3, SMT
<1> QED BY <1>1, <1>2, <1>4

LEMMA Wrapped ==
  ASSUME NEW w \in Nat, w > 1, NEW x \in Int, -(w \div 2) <= x, x < w \div 2
  PROVE  /\ x % w \in 0 .. w - 1
         /\ x >= 0 => x % w = x
         /\ x < 0 => x % w = x + w
  BY SMT

(* A two-byte setting that is written whole is read back.                  *)
LEMMA ReadBack ==
  ASSUME NEW x \in -(Word \div 2) .. Word \div 2 - 1
  PROVE  /\ Low(x) \in 0 .. Byte - 1 /\ High(x) \in 0 .. Byte - 1
         /\ Signed(Low(x) + Byte * High(x)) = x
<1>1. Byte \in Nat /\ Byte > 1
  BY ByteAssumption
<1>2. Word \in Nat /\ Word > 1
  BY <1>1 DEF Word
<1>3. /\ x % Word \in 0 .. Word - 1
      /\ x >= 0 => x % Word = x
      /\ x < 0 => x % Word = x + Word
  <2> HIDE DEF Word
  <2>1. x \in Int /\ -(Word \div 2) <= x /\ x < Word \div 2
    BY <1>2, SMT
  <2> QED BY <2>1, <1>2, Wrapped
<1> DEFINE y == x % Word
<1>4. y \in Nat /\ y < Byte * Byte
  BY <1>3, <1>2 DEF Word
<1> HIDE DEF y
<1>5. /\ y % Byte \in 0 .. Byte - 1
      /\ y \div Byte \in 0 .. Byte - 1
      /\ (y % Byte) + Byte * (y \div Byte) = y
  BY <1>1, <1>4, DivMod
<1>6. Low(x) = y % Byte /\ High(x) = y \div Byte
  BY DEF Low, High, y
<1>7. Signed(y) = x
  <2> USE DEF y
  <2> HIDE DEF Word
  <2>1. Word \div 2 \in Nat /\ x \in Int
    BY <1>2, SMT
  <2>2. CASE x >= 0
    BY <2>1, <2>2, <1>2, <1>3 DEF Signed
  <2>3. CASE x < 0
    <3>1. x + Word >= Word \div 2
      BY <2>1, <1>2, SMT
    <3> QED BY <2>1, <2>3, <3>1, <1>2, <1>3 DEF Signed
  <2> QED BY <2>1, <2>2, <2>3
<1> QED BY <1>5, <1>6, <1>7

(* Two bytes make a word, and an int is at most the greatest one.          *)
LEMMA WordOfBytes ==
  ASSUME NEW l \in 0 .. Byte - 1, NEW h \in 0 .. Byte - 1
  PROVE  /\ Signed(l + Byte * h) \in Int
         /\ Signed(l + Byte * h) <= Word \div 2 - 1
<1>1. Byte \in Nat /\ Byte > 1
  BY ByteAssumption
<1>2. Byte * h <= Byte * (Byte - 1)
  BY <1>1, SMT
<1>3. l + Byte * h <= Word - 1
  BY <1>1, <1>2, SMT DEF Word
<1>4. Word \in Nat /\ Word > 1 /\ Byte * h \in Nat
  BY <1>1, SMT DEF Word
<1> HIDE DEF Word
<1>5. l + Byte * h \in Nat
  BY <1>4
<1> DEFINE w == l + Byte * h
<1> HIDE DEF w
<1>6. w \in Nat /\ w <= Word - 1
  BY <1>3, <1>5 DEF w
<1>7. Signed(w) \in Int /\ Signed(w) <= Word \div 2 - 1
  <2>1. Word \div 2 \in Nat
    BY <1>4, SMT
  <2> QED BY <1>4, <1>6, <2>1 DEF Signed
<1> QED BY <1>7 DEF w

LEMMA Addresses ==
  ASSUME NEW s \in Settings
  PROVE  /\ Address[s] \in 0 .. EE_NEXT - 1 /\ Address[s] + 1 \in 0 .. EE_NEXT - 1
         /\ Address[s] # Address[s] + 1
         /\ \A t \in Settings : s # t =>
              /\ Address[s] # Address[t] /\ Address[s] # Address[t] + 1
              /\ Address[s] + 1 # Address[t] /\ Address[s] + 1 # Address[t] + 1
  BY AddressAssumption

LEMMA WordIsBig == Word \in Nat /\ Word > 1
  BY ByteAssumption, SMT DEF Word

LEMMA RatesAreInts ==
  /\ Rates \cup {-1} \subseteq -(Word \div 2) .. Word \div 2 - 1
  /\ \A x \in Rates : x \in Int
<1>1. Word \div 2 >= 1 /\ Word \div 2 \in Int
  <2> HIDE DEF Word
  <2> QED BY WordIsBig, SMT
<1> QED BY <1>1, RateAssumption

-----------------------------------------------------------------------------
(* Type correctness.                                                       *)

LEMMA InitTypeOK == Init => TypeOK
<1> SUFFICES ASSUME Init PROVE TypeOK
  OBVIOUS
<1>1. Word \in Nat /\ Word > 1
  BY WordIsBig
<1>2. cell \in [0 .. EE_NEXT - 1 -> 0 .. Byte - 1]
  BY ByteAssumption DEF Init, Erased
<1>3. timer \in [Sensors -> 0 .. Word - 1] /\ quiet \in [Sensors -> 0 .. MaxQuiet]
  BY <1>1, MaxQuietAssumption DEF Init, Zero
<1>4. /\ asked \in [Settings -> Rates \cup {-1}]
      /\ sure \in [Settings -> BOOLEAN] /\ steady \in [Sensors -> BOOLEAN]
  BY DEF Init
<1> QED BY <1>2, <1>3, <1>4 DEF Init, TypeOK

LEMMA NextTypeOK == TypeOK /\ [Next]_vars => TypeOK'
<1> SUFFICES ASSUME TypeOK, [Next]_vars PROVE TypeOK'
  OBVIOUS
<1>1. Word \in Nat /\ Word > 1
  BY WordIsBig
<1> USE DEF program, history
<1>2. ASSUME NEW s \in Settings, NEW x \in Rates, Write_2(s, x) PROVE TypeOK'
  <2>1. call' \in [setting : Settings, value : Rates] /\ call' # NoCall
    BY <1>2, NameAssumption DEF Write_2, NoCall
  <2>2. asked' \in [Settings -> Rates \cup {-1}] /\ sure' \in [Settings -> BOOLEAN]
    BY <1>2 DEF Write_2, TypeOK
  <2> QED BY <1>2, <2>1, <2>2 DEF Write_2, TypeOK
<1>3. ASSUME at \in {"low", "high"}
      PROVE  /\ call.setting \in Settings /\ call.value \in Rates
             /\ Low(call.value) \in 0 .. Byte - 1 /\ High(call.value) \in 0 .. Byte - 1
  <2>1. call \in [setting : Settings, value : Rates]
    BY <1>3 DEF TypeOK
  <2> QED BY <2>1, ReadBack, RatesAreInts
<1>4. CASE WriteLow
  <2>1. writing' \in [addr : 0 .. EE_NEXT - 1, data : 0 .. Byte - 1] \cup {Nothing}
    BY <1>3, <1>4, Addresses DEF WriteLow, Write_1
  <2> QED BY <1>4, <2>1 DEF WriteLow, TypeOK
<1>5. CASE WriteHigh
  <2>1. writing' \in [addr : 0 .. EE_NEXT - 1, data : 0 .. Byte - 1] \cup {Nothing}
    BY <1>3, <1>5, Addresses DEF WriteHigh, Write_1, HighAddress
  <2>2. quiet' \in [Sensors -> 0 .. MaxQuiet]
    BY <1>5, MaxQuietAssumption DEF WriteHigh, TypeOK
  <2>3. steady' \in [Sensors -> BOOLEAN]
    BY <1>5 DEF WriteHigh, TypeOK
  <2> QED BY <1>5, <2>1, <2>2, <2>3 DEF WriteHigh, TypeOK
<1>6. CASE Restart
  BY <1>6 DEF Restart, TypeOK
<1>7. CASE HundredMs
  BY <1>7 DEF HundredMs, TypeOK
<1>8. CASE PWM_Cmds_Run
  <2>1. timer' \in [Sensors -> 0 .. Word - 1]
    <3>1. \A s \in Sensors : Counted(s) \in 0 .. Word - 1
      <4> HIDE DEF Word
      <4> TAKE s \in Sensors
      <4>1. timer[s] \in 0 .. Word - 1
        BY DEF TypeOK
      <4>2. IF Due(s) THEN 1 % Word \in 0 .. Word - 1
                      ELSE (timer[s] + 1) % Word \in 0 .. Word - 1
        BY <1>1, <4>1, SMT
      <4> QED BY <4>2 DEF Counted
    <3> QED BY <1>8, <3>1 DEF PWM_Cmds_Run
  <2>2. quiet' \in [Sensors -> 0 .. MaxQuiet]
    BY <1>8, MaxQuietAssumption DEF PWM_Cmds_Run, TypeOK
  <2>3. steady' \in [Sensors -> BOOLEAN]
    BY <1>8 DEF PWM_Cmds_Run, TypeOK, Due
  <2> QED BY <1>8, <2>1, <2>2, <2>3 DEF PWM_Cmds_Run, TypeOK
<1>9. CASE ByteWritten
  BY <1>9 DEF ByteWritten, TypeOK
<1>10. ASSUME StartUp
       PROVE  /\ at' = "idle" /\ call' = NoCall
              /\ timer' \in [Sensors -> 0 .. Word - 1]
              /\ quiet' \in [Sensors -> 0 .. MaxQuiet]
              /\ steady' \in [Sensors -> BOOLEAN]
  BY <1>1, <1>10, MaxQuietAssumption DEF StartUp, Zero
<1>11. CASE Bite
  BY <1>10, <1>11 DEF Bite, TypeOK
<1>12. CASE SupplyFails
  <2>1. cell' \in [0 .. EE_NEXT - 1 -> 0 .. Byte - 1]
    <3>1. CASE writing = Nothing
      BY <1>12, <3>1 DEF SupplyFails, TypeOK
    <3>2. CASE writing # Nothing
      BY <1>12, <3>2, ByteAssumption DEF SupplyFails, TypeOK, Erased
    <3> QED BY <3>1, <3>2
  <2>2. sure' \in [Settings -> BOOLEAN]
    BY <1>12 DEF SupplyFails, TypeOK, BeingWritten
  <2> QED BY <1>10, <1>12, <2>1, <2>2 DEF SupplyFails, TypeOK
<1>13. CASE UNCHANGED vars
  BY <1>13 DEF vars, TypeOK
<1> QED BY <1>2, <1>4, <1>5, <1>6, <1>7, <1>8, <1>9, <1>11, <1>12, <1>13
        DEF Next, SetLimit, Update_Rate, Settings

(* Cells are bytes, timers words, and the program is in a command exactly  *)
(* when it says which: for any settings and any size of a byte.            *)
THEOREM TypeCorrect == Spec => []TypeOK
<1> QED BY InitTypeOK, NextTypeOK, PTL DEF Spec

-----------------------------------------------------------------------------
(* The inductive invariant.  A cell holds, or will hold when the hardware  *)
(* is ready, its future value.                                             *)

Future(a) == IF writing.addr = a THEN writing.data ELSE cell[a]

FutureRate(s) ==
  OrDefault(Signed(Future(Address[s]) + Byte * Future(Address[s] + 1)), Default[s])

(* What was asked for will be in both cells; in the low one only, while a  *)
(* command is half way through.                                            *)
AskedInv ==
  \A s \in Settings : sure[s] =>
    /\ call.setting # s => /\ Future(Address[s]) = Low(asked[s])
                           /\ Future(Address[s] + 1) = High(asked[s])
    /\ call.setting = s => /\ asked[s] = call.value
                           /\ at = "high" => Future(Address[s]) = Low(call.value)

(* A timer is ahead of what counts since the last report, and exactly one  *)
(* ahead from the first report at a rate on.                               *)
QuietInv ==
  \A s \in Sensors : call.setting # s /\ FutureRate(s) > 0 =>
    /\ quiet[s] <= timer[s] /\ quiet[s] <= FutureRate(s) + 1
    /\ steady[s] => timer[s] = quiet[s] + 1 /\ timer[s] <= FutureRate(s) + 1

IInv == TypeOK /\ AskedInv /\ QuietInv

(* Between commands, with the hardware ready, the future is now.           *)
LEMMA FutureIsNow ==
  ASSUME TypeOK, at \in {"idle", "sensors", "hang"}, writing = Nothing,
         NEW s \in Settings
  PROVE  /\ call = NoCall /\ call.setting # s
         /\ Future(Address[s]) = cell[Address[s]]
         /\ Future(Address[s] + 1) = cell[Address[s] + 1]
<1>1. call = NoCall /\ call.setting # s
  BY NameAssumption DEF TypeOK, NoCall
<1>2. writing.addr = -1
  BY DEF Nothing
<1> QED BY <1>1, <1>2, Addresses, AddressAssumption DEF Future

LEMMA RateIsNow ==
  ASSUME TypeOK, at \in {"idle", "sensors", "hang"}, writing = Nothing,
         NEW s \in Sensors
  PROVE  Rate(s) = FutureRate(s)
  BY FutureIsNow DEF Rate, Stored, FutureRate, Settings

(* Whatever the cells and the hardware hold, a rate is an int.             *)
LEMMA AnyRateIsInt ==
  ASSUME NEW c \in [0 .. EE_NEXT - 1 -> 0 .. Byte - 1],
         NEW w \in [addr : 0 .. EE_NEXT - 1, data : 0 .. Byte - 1] \cup {Nothing},
         NEW s \in Sensors
  PROVE  LET f(a) == IF w.addr = a THEN w.data ELSE c[a]
             r == OrDefault(Signed(f(Address[s]) + Byte * f(Address[s] + 1)), Default[s])
         IN  r \in Int /\ r <= Word \div 2 - 1
<1> DEFINE f(a) == IF w.addr = a THEN w.data ELSE c[a]
<1>1. f(Address[s]) \in 0 .. Byte - 1 /\ f(Address[s] + 1) \in 0 .. Byte - 1
  <2>1. \A a \in 0 .. EE_NEXT - 1 : f(a) \in 0 .. Byte - 1
    <3> TAKE a \in 0 .. EE_NEXT - 1
    <3>1. CASE w = Nothing
      BY <3>1, AddressAssumption DEF Nothing
    <3>2. CASE w # Nothing
      BY <3>2
    <3> QED BY <3>1, <3>2
  <2> QED BY <2>1, Addresses DEF Settings
<1>2. Default[s] \in Int /\ Default[s] <= Word \div 2 - 1
  BY RateAssumption
<1> HIDE DEF Word, f
<1>3. OrDefault(Signed(f(Address[s]) + Byte * f(Address[s] + 1)), Default[s]) \in Int
  BY <1>1, <1>2, WordOfBytes DEF OrDefault
<1>4. OrDefault(Signed(f(Address[s]) + Byte * f(Address[s] + 1)), Default[s])
        <= Word \div 2 - 1
  BY <1>1, <1>2, WordOfBytes DEF OrDefault
<1> QED BY <1>3, <1>4 DEF f

LEMMA RateIsInt ==
  ASSUME TypeOK, NEW s \in Sensors
  PROVE  FutureRate(s) \in Int /\ FutureRate(s) <= Word \div 2 - 1
  BY AnyRateIsInt DEF TypeOK, FutureRate, Future

LEMMA NextRateIsInt ==
  ASSUME TypeOK', NEW s \in Sensors
  PROVE  FutureRate(s)' \in Int
  BY AnyRateIsInt DEF TypeOK, FutureRate, Future

LEMMA InitIInv == Init => AskedInv /\ QuietInv
<1> SUFFICES ASSUME Init PROVE AskedInv /\ QuietInv
  OBVIOUS
<1>1. Low(-1) = Byte - 1 /\ High(-1) = Byte - 1
  <2>1. Byte \in Nat /\ Byte > 1 /\ Word \in Nat /\ Word > 1 /\ Word \div 2 >= 1
    <3> HIDE DEF Word
    <3> QED BY ByteAssumption, WordIsBig, SMT
  <2>2. -1 % Word = Word - 1
    BY <2>1, SMT
  <2> DEFINE y == Word - 1
  <2>3. y = (Byte - 1) + Byte * (Byte - 1)
    BY <2>1, SMT DEF Word
  <2>4. y % Byte = Byte - 1 /\ y \div Byte = Byte - 1
    BY <2>1, <2>3, SMT
  <2> QED BY <2>2, <2>4 DEF Low, High
<1>2. AskedInv
  <2> SUFFICES ASSUME NEW s \in Settings
               PROVE  /\ call.setting # s /\ asked[s] = -1
                      /\ Future(Address[s]) = Byte - 1
                      /\ Future(Address[s] + 1) = Byte - 1
    BY <1>1 DEF AskedInv
  <2>1. writing.addr = -1 /\ call.setting # s /\ asked[s] = -1
    BY NameAssumption DEF Init, Nothing, NoCall
  <2> QED BY <2>1, Addresses, AddressAssumption DEF Init, Future, Erased
<1>3. QuietInv
  <2> SUFFICES ASSUME NEW s \in Sensors, FutureRate(s) > 0
               PROVE  /\ quiet[s] <= timer[s] /\ quiet[s] <= FutureRate(s) + 1
                      /\ ~steady[s]
    BY DEF QuietInv
  <2>1. FutureRate(s) \in Int
    BY InitTypeOK, RateIsInt
  <2> QED BY <2>1 DEF Init, Zero
<1> QED BY <1>2, <1>3

(* Steps that leave the EEPROM alone, and the one that finishes a write,   *)
(* leave the future alone.                                                 *)
LEMMA FutureStays ==
  ASSUME TypeOK, UNCHANGED <<cell, writing>> \/ ByteWritten, NEW s \in Settings
  PROVE  /\ Future(Address[s])' = Future(Address[s])
         /\ Future(Address[s] + 1)' = Future(Address[s] + 1)
<1>1. \A a \in 0 .. EE_NEXT - 1 : Future(a)' = Future(a)
  <2> TAKE a \in 0 .. EE_NEXT - 1
  <2>1. CASE UNCHANGED <<cell, writing>>
    BY <2>1 DEF Future
  <2>2. CASE ByteWritten
    <3>1. writing'.addr = -1 /\ a # -1
      BY <2>2, AddressAssumption DEF ByteWritten, Nothing
    <3> QED BY <2>2, <3>1 DEF ByteWritten, TypeOK, Future
  <2> QED BY <2>1, <2>2
<1> QED BY <1>1, Addresses

LEMMA FutureRateStays ==
  ASSUME TypeOK, UNCHANGED <<cell, writing>> \/ ByteWritten, NEW s \in Sensors
  PROVE  FutureRate(s)' = FutureRate(s)
  BY FutureStays DEF FutureRate, Settings

(* A write sets the future of its cell and of no other.                    *)
LEMMA FutureWritten ==
  ASSUME TypeOK, NEW b \in 0 .. EE_NEXT - 1, NEW d \in 0 .. Byte - 1,
         Write_1(b, d), UNCHANGED cell
  PROVE  \A a \in 0 .. EE_NEXT - 1 :
           Future(a)' = IF a = b THEN d ELSE Future(a)
<1> TAKE a \in 0 .. EE_NEXT - 1
<1>1. writing.addr = -1 /\ a # -1
  BY AddressAssumption DEF Write_1, Nothing
<1>2. CASE cell[b] = d
  BY <1>1, <1>2 DEF Write_1, Future
<1>3. CASE cell[b] # d
  BY <1>1, <1>3 DEF Write_1, Future
<1> QED BY <1>2, <1>3

LEMMA CallInProgress ==
  ASSUME TypeOK, at \in {"low", "high"}
  PROVE  /\ call.setting \in Settings /\ call.value \in Rates
         /\ Low(call.value) \in 0 .. Byte - 1 /\ High(call.value) \in 0 .. Byte - 1
<1>1. call \in [setting : Settings, value : Rates]
  BY DEF TypeOK
<1> QED BY <1>1, ReadBack, RatesAreInts

LEMMA NextAsked == IInv /\ [Next]_vars => AskedInv'
<1> SUFFICES ASSUME TypeOK, AskedInv, [Next]_vars,
                    NEW s \in Settings, sure'[s]
             PROVE  /\ call'.setting # s => /\ Future(Address[s])' = Low(asked'[s])
                                            /\ Future(Address[s] + 1)' = High(asked'[s])
                    /\ call'.setting = s => /\ asked'[s] = call'.value
                                            /\ at' = "high" => Future(Address[s])' = Low(call'.value)
  BY DEF IInv, AskedInv
<1> USE DEF program, history
<1>1. ASSUME NEW t \in Settings, NEW x \in Rates, Write_2(t, x)
      PROVE  /\ call'.setting # s => /\ Future(Address[s])' = Low(asked'[s])
                                     /\ Future(Address[s] + 1)' = High(asked'[s])
             /\ call'.setting = s => asked'[s] = call'.value /\ at' # "high"
  <2>1. call'.setting = t /\ call'.value = x /\ at' = "low"
    BY <1>1 DEF Write_2
  <2>2. call.setting # s
    BY <1>1, NameAssumption DEF Write_2, TypeOK, NoCall
  <2>3. CASE s = t
    BY <1>1, <2>1, <2>3 DEF Write_2, TypeOK
  <2>4. CASE s # t
    <3>1. asked'[s] = asked[s] /\ sure[s]
      BY <1>1, <2>4 DEF Write_2, TypeOK
    <3> QED BY <1>1, <2>1, <2>2, <2>4, <3>1, FutureStays DEF Write_2, AskedInv
  <2> QED BY <2>3, <2>4
<1>2. CASE WriteLow
  <2>1. /\ at = "low" /\ at' = "high" /\ Write_1(Address[call.setting], Low(call.value))
        /\ UNCHANGED <<cell, call, asked, sure>>
    BY <1>2 DEF WriteLow
  <2>2. \A a \in 0 .. EE_NEXT - 1 :
          Future(a)' = IF a = Address[call.setting] THEN Low(call.value) ELSE Future(a)
    BY <2>1, CallInProgress, Addresses, FutureWritten
  <2>3. CASE call.setting = s
    BY <2>1, <2>2, <2>3, Addresses DEF AskedInv
  <2>4. CASE call.setting # s
    BY <2>1, <2>2, <2>4, CallInProgress, Addresses DEF AskedInv
  <2> QED BY <2>3, <2>4
<1>3. CASE WriteHigh
  <2>1. /\ at = "high" /\ call' = NoCall
        /\ Write_1(Address[call.setting] + 1, High(call.value))
        /\ UNCHANGED <<cell, asked, sure>>
    BY <1>3 DEF WriteHigh, HighAddress
  <2>2. \A a \in 0 .. EE_NEXT - 1 :
          Future(a)' = IF a = Address[call.setting] + 1 THEN High(call.value) ELSE Future(a)
    BY <2>1, CallInProgress, Addresses, FutureWritten
  <2>3. call'.setting # s
    BY <2>1, NameAssumption DEF NoCall
  <2>4. CASE call.setting = s
    BY <2>1, <2>2, <2>3, <2>4, Addresses DEF AskedInv
  <2>5. CASE call.setting # s
    BY <2>1, <2>2, <2>3, <2>5, CallInProgress, Addresses DEF AskedInv
  <2> QED BY <2>4, <2>5
<1>4. ASSUME UNCHANGED <<cell, writing>> \/ ByteWritten, UNCHANGED <<asked, sure>>,
             \/ UNCHANGED call /\ (at' = "high" => at = "high")
             \/ at \in {"idle", "sensors", "hang"} /\ call' = NoCall
      PROVE  /\ call'.setting # s => /\ Future(Address[s])' = Low(asked'[s])
                                     /\ Future(Address[s] + 1)' = High(asked'[s])
             /\ call'.setting = s => /\ asked'[s] = call'.value
                                     /\ at' = "high" => Future(Address[s])' = Low(call'.value)
  <2>1. CASE UNCHANGED call /\ (at' = "high" => at = "high")
    BY <1>4, <2>1, FutureStays DEF AskedInv
  <2>2. CASE at \in {"idle", "sensors", "hang"} /\ call' = NoCall
    BY <1>4, <2>2, FutureStays, NameAssumption DEF AskedInv, TypeOK, NoCall
  <2> QED BY <1>4, <2>1, <2>2
<1>5. CASE Restart
  BY <1>4, <1>5 DEF Restart
<1>6. CASE HundredMs
  BY <1>4, <1>6 DEF HundredMs
<1>7. CASE PWM_Cmds_Run
  BY <1>4, <1>7 DEF PWM_Cmds_Run
<1>8. CASE ByteWritten
  BY <1>4, <1>8 DEF ByteWritten
<1>9. CASE Bite
  BY <1>4, <1>9 DEF Bite, StartUp
<1>10. CASE SupplyFails
  <2>1. sure[s] /\ ~BeingWritten(s) /\ asked' = asked /\ call'.setting # s /\ writing' = Nothing
    BY <1>10, NameAssumption DEF SupplyFails, StartUp, NoCall, TypeOK
  <2>2. /\ call.setting # s
        /\ writing.addr # Address[s] /\ writing.addr # Address[s] + 1
    BY <2>1 DEF BeingWritten
  <2>3. cell'[Address[s]] = cell[Address[s]] /\ cell'[Address[s] + 1] = cell[Address[s] + 1]
    BY <1>10, <2>2, Addresses DEF SupplyFails, TypeOK
  <2>4. writing'.addr # Address[s] /\ writing'.addr # Address[s] + 1
    BY <2>1, AddressAssumption, Addresses DEF Nothing
  <2> QED BY <2>1, <2>2, <2>3, <2>4 DEF Future, AskedInv
<1>11. CASE UNCHANGED vars
  BY <1>4, <1>11 DEF vars
<1> QED BY <1>1, <1>2, <1>3, <1>5, <1>6, <1>7, <1>8, <1>9, <1>10, <1>11
        DEF Next, SetLimit, Update_Rate, Settings

(* A round: the timer goes on, or the sensor is reported.                  *)
LEMMA RoundKeepsQuiet ==
  ASSUME IInv, PWM_Cmds_Run, NEW s \in Sensors, FutureRate(s) > 0
  PROVE  /\ quiet'[s] <= timer'[s] /\ quiet'[s] <= FutureRate(s) + 1
         /\ steady'[s] => timer'[s] = quiet'[s] + 1 /\ timer'[s] <= FutureRate(s) + 1
<1> HIDE DEF Word
<1> DEFINE r == FutureRate(s)
<1>1. /\ Rate(s) = r /\ call.setting # s
      /\ r \in Int /\ r > 0 /\ r <= Word \div 2 - 1
  BY RateIsNow, RateIsInt, FutureIsNow DEF PWM_Cmds_Run, IInv, Settings
<1>2. Word \in Nat /\ Word > 1
  BY WordIsBig
<1>3. Word \div 2 < Word /\ Word \div 2 \in Int
  BY <1>2, SMT
<1>4. /\ timer[s] \in 0 .. Word - 1 /\ quiet[s] \in 0 .. MaxQuiet
      /\ MaxQuiet \in Nat /\ MaxQuiet > Word
  BY MaxQuietAssumption DEF IInv, TypeOK
<1>5. /\ quiet[s] <= timer[s] /\ quiet[s] <= r + 1
      /\ steady[s] => timer[s] = quiet[s] + 1 /\ timer[s] <= r + 1
  BY <1>1 DEF IInv, QuietInv
<1>6. /\ timer'[s] = Counted(s)
      /\ quiet'[s] = IF Due(s) THEN 0
                     ELSE IF quiet[s] < MaxQuiet THEN quiet[s] + 1 ELSE MaxQuiet
      /\ steady'[s] = (Due(s) \/ steady[s])
  BY DEF PWM_Cmds_Run
<1> HIDE DEF r
<1>7. CASE Due(s)
  <2>1. Counted(s) = 1
    <3>1. 1 % Word = 1
      BY <1>2, SMT
    <3> QED BY <1>7, <3>1 DEF Counted
  <2> QED BY <1>1, <1>6, <1>7, <2>1 DEF r
<1>8. CASE ~Due(s)
  <2>1. timer[s] <= r
    BY <1>1, <1>4, <1>8 DEF Due
  <2>2. Counted(s) = timer[s] + 1
    <3>1. timer[s] + 1 \in 0 .. Word - 1
      BY <1>1, <1>2, <1>3, <1>4, <2>1
    <3>2. (timer[s] + 1) % Word = timer[s] + 1
      BY <1>2, <3>1, SMT
    <3> QED BY <1>8, <3>2 DEF Counted
  <2>3. quiet'[s] = quiet[s] + 1
    BY <1>1, <1>2, <1>3, <1>4, <1>5, <1>6, <1>8, <2>1
  <2>4. steady'[s] => steady[s]
    BY <1>6, <1>8, Zenon
  <2>5. timer'[s] = timer[s] + 1
    BY <1>6, <2>2
  <2> QED BY <1>1, <1>4, <1>5, <2>1, <2>3, <2>4, <2>5 DEF r
<1> QED BY <1>7, <1>8

LEMMA NextQuiet == IInv /\ [Next]_vars => QuietInv'
<1> SUFFICES ASSUME IInv, TypeOK, QuietInv, [Next]_vars,
                    NEW s \in Sensors, call'.setting # s, FutureRate(s)' > 0
             PROVE  /\ quiet'[s] <= timer'[s] /\ quiet'[s] <= FutureRate(s)' + 1
                    /\ steady'[s] => /\ timer'[s] = quiet'[s] + 1
                                     /\ timer'[s] <= FutureRate(s)' + 1
  BY DEF IInv, QuietInv
<1> USE DEF program, history
<1>1. s \in Settings
  BY DEF Settings
<1>2. FutureRate(s)' \in Int
  BY NextTypeOK, NextRateIsInt
<1>3. ASSUME UNCHANGED <<timer, quiet, steady>>, call.setting # s,
             FutureRate(s)' = FutureRate(s)
      PROVE  /\ quiet'[s] <= timer'[s] /\ quiet'[s] <= FutureRate(s)' + 1
             /\ steady'[s] => /\ timer'[s] = quiet'[s] + 1
                              /\ timer'[s] <= FutureRate(s)' + 1
  BY <1>3 DEF QuietInv
<1>4. ASSUME NEW t \in Settings, NEW x \in Rates, Write_2(t, x) PROVE call.setting # s
  BY <1>4, <1>1, NameAssumption DEF Write_2, TypeOK, NoCall
<1>5. ASSUME NEW t \in Settings, NEW x \in Rates, Write_2(t, x)
      PROVE  UNCHANGED <<timer, quiet, steady, cell, writing>>
  BY <1>5 DEF Write_2
<1>6. CASE WriteLow
  <2>1. /\ call.setting # s /\ UNCHANGED <<cell, timer, quiet, steady>>
        /\ Write_1(Address[call.setting], Low(call.value))
    BY <1>6 DEF WriteLow
  <2>2. at \in {"low", "high"}
    BY <1>6 DEF WriteLow
  <2>3. /\ Future(Address[s])' = Future(Address[s])
        /\ Future(Address[s] + 1)' = Future(Address[s] + 1)
    BY <1>1, <2>1, <2>2, CallInProgress, Addresses, FutureWritten
  <2>4. FutureRate(s)' = FutureRate(s)
    BY <2>3 DEF FutureRate
  <2> QED BY <1>3, <2>1, <2>4
<1>7. CASE WriteHigh
  <2>1. /\ UNCHANGED <<cell, timer>>
        /\ Write_1(Address[call.setting] + 1, High(call.value))
        /\ quiet'[s] = IF s = call.setting THEN 0 ELSE quiet[s]
        /\ steady'[s] => s # call.setting /\ steady[s]
    BY <1>7 DEF WriteHigh, HighAddress
  <2>2. at \in {"low", "high"}
    BY <1>7 DEF WriteHigh
  <2>3. CASE call.setting = s
    <3> HIDE DEF Word
    <3>1. timer[s] \in 0 .. Word - 1
      BY DEF TypeOK
    <3> QED BY <1>2, <2>1, <2>3, <3>1, WordIsBig
  <2>4. CASE call.setting # s
    <3>1. /\ Future(Address[s])' = Future(Address[s])
          /\ Future(Address[s] + 1)' = Future(Address[s] + 1)
      BY <1>1, <2>1, <2>2, <2>4, CallInProgress, Addresses, FutureWritten
    <3>2. FutureRate(s)' = FutureRate(s)
      BY <3>1 DEF FutureRate
    <3> QED BY <2>1, <2>4, <3>2 DEF QuietInv
  <2> QED BY <2>3, <2>4
<1>8. CASE Restart
  BY <1>3, <1>8, FutureRateStays DEF Restart
<1>9. CASE HundredMs
  BY <1>3, <1>9, FutureRateStays DEF HundredMs
<1>10. CASE PWM_Cmds_Run
  <2>1. FutureRate(s)' = FutureRate(s)
    BY <1>10, FutureRateStays DEF PWM_Cmds_Run
  <2> QED BY <1>10, <2>1, RoundKeepsQuiet
<1>11. CASE ByteWritten
  BY <1>3, <1>11, FutureRateStays DEF ByteWritten
<1>12. ASSUME StartUp PROVE timer'[s] = 0 /\ quiet'[s] = 0 /\ ~steady'[s]
  BY <1>12 DEF StartUp, Zero
<1>13. CASE Bite
  BY <1>2, <1>12, <1>13 DEF Bite
<1>14. CASE SupplyFails
  BY <1>2, <1>12, <1>14 DEF SupplyFails
<1>15. CASE UNCHANGED vars
  BY <1>3, <1>15, FutureRateStays DEF vars
<1> QED BY <1>3, <1>4, <1>5, <1>6, <1>7, <1>8, <1>9, <1>10, <1>11, <1>13, <1>14, <1>15,
           FutureRateStays
        DEF Next, SetLimit, Update_Rate, Settings

LEMMA Inductive == Spec => []IInv
<1>1. Init => IInv
  BY InitTypeOK, InitIInv DEF IInv
<1>2. IInv /\ [Next]_vars => IInv'
  BY NextTypeOK, NextAsked, NextQuiet DEF IInv
<1> QED BY <1>1, <1>2, PTL DEF Spec

-----------------------------------------------------------------------------
(* A setting reads as the last command asked for, whenever the hardware    *)
(* has finished: for any settings with addresses of their own, whatever    *)
(* restart or failure of the supply came in between, unless the supply     *)
(* failed while this setting was being written.                            *)
THEOREM AsAskedHolds == Spec => []AsAsked
<1>1. IInv => AsAsked
  <2> SUFFICES ASSUME IInv, Settled, NEW s \in Settings, sure[s]
               PROVE  Stored(s) = asked[s]
    BY DEF AsAsked
  <2>1. /\ cell[Address[s]] = Low(asked[s])
        /\ cell[Address[s] + 1] = High(asked[s])
    BY FutureIsNow DEF IInv, AskedInv, Settled
  <2>2. asked[s] \in -(Word \div 2) .. Word \div 2 - 1
    BY RatesAreInts DEF IInv, TypeOK
  <2> QED BY <2>1, <2>2, ReadBack DEF Stored
<1> QED BY <1>1, Inductive, PTL

(* No sensor is silent for longer than its rate and a round: for any rates *)
(* and any size of the timers, wherever a timer stood when its rate was    *)
(* set.                                                                    *)
THEOREM NotSilentHolds == Spec => []NotSilent
<1>1. IInv => NotSilent
  BY RateIsNow, FutureIsNow DEF IInv, QuietInv, NotSilent, Settled, Settings
<1> QED BY <1>1, Inductive, PTL

(* While a rate is left alone, reports are exactly rate + 1 rounds apart.  *)
THEOREM EvenlySpacedHolds == Spec => EvenlySpaced
<1>1. IInv /\ [Next]_vars =>
        [\A s \in Sensors : Reported(s) /\ steady[s] => quiet[s] = Rate(s)]_vars
  <2> SUFFICES ASSUME IInv, NEW s \in Sensors, PWM_Cmds_Run, quiet'[s] = 0, steady[s]
               PROVE  quiet[s] = Rate(s)
    BY DEF Reported
  <2>1. quiet[s] \in 0 .. MaxQuiet /\ MaxQuiet \in Nat /\ MaxQuiet > 0
    BY MaxQuietAssumption, WordIsBig DEF IInv, TypeOK
  <2>2. Due(s)
    BY <2>1 DEF PWM_Cmds_Run
  <2>3. Rate(s) = FutureRate(s) /\ call.setting # s /\ FutureRate(s) \in Int
    BY RateIsNow, RateIsInt, FutureIsNow DEF PWM_Cmds_Run, IInv, Settings
  <2>4. Rate(s) > 0 /\ timer[s] > Rate(s)
    BY <2>2 DEF Due
  <2>5. timer[s] = quiet[s] + 1 /\ timer[s] <= Rate(s) + 1
    BY <2>3, <2>4 DEF IInv, QuietInv
  <2> QED BY <2>1, <2>3, <2>4, <2>5
<1> QED BY <1>1, Inductive, PTL DEF Spec, EvenlySpaced
=============================================================================
