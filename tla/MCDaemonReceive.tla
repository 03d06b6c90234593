-------------------------- MODULE MCDaemonReceive --------------------------
(* An instance of DaemonReceive for TLC.                                   *)
EXTENDS DaemonReceive

OneSensor   == {"volt"}
TwoReadings == {1, 2}
None        == -1
Echo        == [of |-> "pwm", reading |-> -1]
End         == [of |-> "end", reading |-> -1]
EchoOnly    == {Echo}

(* What happens to lie in the buffer at the start: nothing, a report,      *)
(* a line, and a string that fills it.                                     *)
Volt         == [of |-> "volt", reading |-> 1]
AnyLeftovers == {<< >>, <<Volt>>, <<Echo, End>>,
                 [i \in 1 .. BufSize |-> Echo]}
=============================================================================
