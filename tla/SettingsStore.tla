--------------------------- MODULE SettingsStore ---------------------------
(***************************************************************************)
(* The settings the board keeps in its EEPROM (eeprom.c, conf_eeprom.h),   *)
(* the commands that write them, and the sensor handlers of PWM_Cmds.c     *)
(* that every 100 ms read them and decide whether to report.               *)
(*                                                                         *)
(* A setting is two bytes, written one after the other.  The hardware      *)
(* takes milliseconds for each and goes on while the program does, and     *)
(* through a reset by the watchdog; when the supply fails, the byte it is  *)
(* writing is as it was, erased, or as it should be.                       *)
(***************************************************************************)
EXTENDS Integers

CONSTANTS
  Sensors,    \* what is reported, at a rate that is a setting
  Limits,     \* settings that are only written
  Address,    \* of each setting, low byte first
  EE_NEXT,    \* the first free address
  Byte,       \* values of a byte
  Default,    \* rate of each sensor in an erased EEPROM
  Rates,      \* the arguments of commands
  MaxQuiet    \* bound: where the history stops counting

Settings == Sensors \cup Limits
Word     == Byte * Byte        \* int and unsigned int are two bytes
Erased   == Byte - 1

Signed(w) == IF w >= Word \div 2 THEN w - Word ELSE w

ASSUME ByteAssumption    == Byte \in Nat /\ Byte > 1 /\ Byte % 2 = 0
ASSUME AddressAssumption ==
  /\ EE_NEXT \in Nat
  /\ Address \in [Settings -> 0 .. EE_NEXT - 2]
  /\ \A s, t \in Settings :
       s # t => Address[s] > Address[t] + 1 \/ Address[t] > Address[s] + 1
ASSUME RateAssumption ==
  /\ Rates \subseteq -(Word \div 2) .. Word \div 2 - 1
  /\ Default \in [Sensors -> 1 .. Word \div 2 - 1]
ASSUME NameAssumption == "none" \notin Settings
ASSUME MaxQuietAssumption == MaxQuiet \in Nat /\ MaxQuiet > Word

VARIABLES
  cell,      \* the EEPROM
  writing,   \* what the hardware is writing: nothing, or an address and a byte
  at,        \* where the program is
  call,      \* of a command in progress: the setting and the value
  timer,     \* CURRENT_Update_Timer, Temperature_, Volt_
  asked,     \* history: the value the last command asked for
  sure,      \* history: the supply did not fail while that was written
  quiet,     \* history: rounds since the last report of a sensor, since the
             \* start, or since its rate was set
  steady     \* history: it was the last report

program == <<at, call, timer>>
history == <<asked, sure, quiet, steady>>
vars    == <<cell, writing, program, history>>

Nothing == [addr |-> -1, data |-> 0]
NoCall  == [setting |-> "none", value |-> 0]

Low(x)  == (x % Word) % Byte
High(x) == (x % Word) \div Byte

(* EEpromRead_2.                                                           *)
Stored(s) == Signed(cell[Address[s]] + Byte * cell[Address[s] + 1])

(* EEpromRead_2_default.  All bits set is what -1 looks like, too.         *)
OrDefault(x, def) == IF x = -1 THEN def ELSE x

Rate(s) == OrDefault(Stored(s), Default[s])

Zero == [s \in Sensors |-> 0]

Init ==
  /\ cell = [a \in 0 .. EE_NEXT - 1 |-> Erased]
  /\ writing = Nothing
  /\ asked = [s \in Settings |-> -1]
  /\ sure = [s \in Settings |-> TRUE]
  /\ at = "idle" /\ call = NoCall
  /\ timer = Zero /\ quiet = Zero /\ steady = [s \in Sensors |-> FALSE]

-----------------------------------------------------------------------------
(* Commands.  Each access of the EEPROM waits for the hardware first.      *)

(* EEprom_Write_2 begins.                                                  *)
Write_2(s, x) ==
  /\ at = "idle"
  /\ at' = "low"
  /\ call' = [setting |-> s, value |-> x]
  /\ asked' = [asked EXCEPT ![s] = x]
  /\ sure' = [sure EXCEPT ![s] = TRUE]
  /\ UNCHANGED <<cell, writing, timer, quiet, steady>>

(* System_Temp and System_Current, which also tell the expansion board to  *)
(* have no limit of its own.                                               *)
SetLimit(s, x) == Write_2(s, x)

(* update: temp, current or volt.  For another name nothing is stored.     *)
Update_Rate(s, x) == Write_2(s, x)

(* EEprom_Write_1, which does not write what is there already.             *)
Write_1(addr, data) ==
  /\ writing = Nothing
  /\ writing' = IF cell[addr] = data THEN Nothing
                                     ELSE [addr |-> addr, data |-> data]

WriteLow ==
  /\ at = "low"
  /\ Write_1(Address[call.setting], Low(call.value))
  /\ at' = "high"
  /\ UNCHANGED <<cell, call, timer, history>>

LowAgain(s) == Address[s]

HighAddress(s) == Address[s] + 1

WriteHigh ==
  /\ at = "high"
  /\ Write_1(HighAddress(call.setting), High(call.value))
  /\ at' = "idle"
  /\ call' = NoCall
  /\ quiet' = [s \in Sensors |-> IF s = call.setting THEN 0 ELSE quiet[s]]
  /\ steady' = [s \in Sensors |-> s # call.setting /\ steady[s]]
  /\ UNCHANGED <<cell, timer, asked, sure>>

(* The restart command hangs until the watchdog bites.                     *)
Restart ==
  /\ at = "idle"
  /\ at' = "hang"
  /\ UNCHANGED <<cell, writing, call, timer, history>>

-----------------------------------------------------------------------------
(* Timer_Is100ms says so.                                                  *)
HundredMs ==
  /\ at = "idle"
  /\ at' = "sensors"
  /\ UNCHANGED <<cell, writing, call, timer, history>>

DueSigned(s) == Rate(s) > 0 /\ Signed(timer[s]) > Rate(s)

DueLate(s) == Rate(s) > 0 /\ timer[s] > Rate(s) + 1

Due(s) == Rate(s) > 0 /\ timer[s] > Rate(s)

NotWrapped(s) == IF Due(s) THEN 1 ELSE timer[s] + 1

NotReset(s) == (timer[s] + 1) % Word

Counted(s) == (IF Due(s) THEN 1 ELSE timer[s] + 1) % Word

(* A round of Run_Current_Sensor, Run_Temp_Sensor and Run_Volt_Sensor.     *)
PWM_Cmds_Run ==
  /\ at = "sensors" /\ writing = Nothing
  /\ at' = "idle"
  /\ timer' = [s \in Sensors |-> Counted(s)]
  /\ quiet' = [s \in Sensors |-> IF Due(s) THEN 0
                                 ELSE IF quiet[s] < MaxQuiet THEN quiet[s] + 1
                                 ELSE MaxQuiet]
  /\ steady' = [s \in Sensors |-> Due(s) \/ steady[s]]
  /\ UNCHANGED <<cell, writing, call, asked, sure>>

-----------------------------------------------------------------------------
(* The hardware.                                                           *)

ByteWritten ==
  /\ writing # Nothing
  /\ cell' = [cell EXCEPT ![writing.addr] = writing.data]
  /\ writing' = Nothing
  /\ UNCHANGED <<program, history>>

(* The program starts from the beginning.                                  *)
StartUp ==
  /\ at' = "idle" /\ call' = NoCall
  /\ timer' = Zero /\ quiet' = Zero /\ steady' = [s \in Sensors |-> FALSE]

(* The watchdog takes a second, and a byte some milliseconds.              *)
Bite ==
  /\ at = "hang" /\ writing = Nothing
  /\ StartUp
  /\ UNCHANGED <<cell, writing, asked, sure>>

BeingWritten(s) ==
  call.setting = s \/ writing.addr \in {Address[s], Address[s] + 1}

SupplyFails ==
  /\ IF writing = Nothing THEN UNCHANGED cell
     ELSE \E b \in {cell[writing.addr], Erased, writing.data} :
            cell' = [cell EXCEPT ![writing.addr] = b]
  /\ writing' = Nothing
  /\ sure' = [s \in Settings |-> sure[s] /\ ~BeingWritten(s)]
  /\ StartUp
  /\ UNCHANGED asked

Next ==
  \/ \E s \in Limits, x \in Rates : SetLimit(s, x)
  \/ \E s \in Sensors, x \in Rates : Update_Rate(s, x)
  \/ WriteLow \/ WriteHigh \/ Restart
  \/ HundredMs \/ PWM_Cmds_Run
  \/ ByteWritten \/ Bite \/ SupplyFails

Spec == Init /\ [][Next]_vars

(* The hardware finishes, the watchdog bites, a command that has begun is  *)
(* executed.  The main loop asks for the 100 ms after every pass over the  *)
(* commands, so these cannot keep a round from coming.                     *)
FairSpec ==
  /\ Spec
  /\ WF_vars(ByteWritten) /\ WF_vars(Bite)
  /\ WF_vars(WriteLow) /\ WF_vars(WriteHigh)
  /\ SF_vars(HundredMs) /\ WF_vars(PWM_Cmds_Run)

-----------------------------------------------------------------------------
TypeOK ==
  /\ cell \in [0 .. EE_NEXT - 1 -> 0 .. Byte - 1]
  /\ writing \in [addr : 0 .. EE_NEXT - 1, data : 0 .. Byte - 1] \cup {Nothing}
  /\ at \in {"idle", "low", "high", "sensors", "hang"}
  /\ call \in [setting : Settings, value : Rates] \cup {NoCall}
  /\ (call = NoCall) <=> at \in {"idle", "sensors", "hang"}
  /\ timer \in [Sensors -> 0 .. Word - 1]
  /\ asked \in [Settings -> Rates \cup {-1}]
  /\ sure \in [Settings -> BOOLEAN] /\ steady \in [Sensors -> BOOLEAN]
  /\ quiet \in [Sensors -> 0 .. MaxQuiet]

(* A setting is what the last command asked for, as soon as the hardware   *)
(* has finished, also when restart follows at once and when a supply       *)
(* failure hit the write of another setting.                               *)
Settled == at \in {"idle", "sensors", "hang"} /\ writing = Nothing
AsAsked == Settled => \A s \in Settings : sure[s] => Stored(s) = asked[s]

(* No sensor is silent for longer than its rate and one round, whatever    *)
(* its timer had counted up to while the rate was another or none.         *)
NotSilent ==
  \A s \in Sensors : Settled /\ Rate(s) > 0 => quiet[s] <= Rate(s) + 1

(* While a rate is left alone, reports are exactly rate + 1 rounds apart.  *)
Reported(s) == PWM_Cmds_Run /\ quiet'[s] = 0
EvenlySpaced ==
  [][\A s \in Sensors : Reported(s) /\ steady[s] => quiet[s] = Rate(s)]_vars

(* A sensor that is switched on is reported again and again.               *)
KeepsReporting ==
  \A s \in Sensors : []<>(Settled /\ (Rate(s) <= 0 \/ quiet[s] = 0))
=============================================================================
