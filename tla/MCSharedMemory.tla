--------------------------- MODULE MCSharedMemory ---------------------------
(* Instances of SharedMemory for TLC: an update of one channel, and one that    *)
(* is clamped on its second channel and out of range on its third.        *)
EXTENDS SharedMemory, TLC

TwoChannels == {0, 1}

TwoUpdates == { 0 :> 30, (0 :> 60) @@ (1 :> 130) @@ (2 :> 10) }

ClientSymmetry == Permutations(Clients)
=============================================================================
