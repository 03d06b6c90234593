------------------------------ MODULE MCSystem ------------------------------
(* Instance of System for TLC: an update of one channel, and one of both.  *)
EXTENDS System, TLC

TwoChannels == {0, 1}

TwoUpdates == { (0 :> 40) @@ (1 :> NoDuty), (0 :> 100) @@ (1 :> 40) }
=============================================================================
