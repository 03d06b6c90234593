---------------------------- MODULE MCPwmOutputs ----------------------------
(* Instances of PwmOutputs for TLC: two channels, a timeout of three       *)
(* seconds; duties at and beyond the ends of the range.                    *)
EXTENDS PwmOutputs

HostDuties   == {-1, 0, 1, 50, 100, 130}
=============================================================================
