-------------------------- MODULE MCSettingsStore --------------------------
(* An instance of SettingsStore for TLC: a sensor and a limit next to it,  *)
(* in bytes of four values.  A failing supply mixes the rates: 7, the       *)
(* greatest int here, is one of the results.                               *)
EXTENDS SettingsStore

Temp        == {"temp"}
TempLimit   == {"temp limit"}
Conf_eeprom == [s \in Settings |-> IF s = "temp" THEN 2 ELSE 0]
FourRounds  == [s \in Sensors |-> 4]
SomeRates   == {-1, 0, 3, 6}
=============================================================================
