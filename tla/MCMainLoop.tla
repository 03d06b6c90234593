----------------------------- MODULE MCMainLoop -----------------------------
(* An instance of MainLoop for TLC: a second of twelve ticks, bytes of     *)
(* nine values, so that the counter crosses a byte boundary below a second *)
(* and one above it as 767 -> 768 and 1023 -> 1024 do, a watchdog of a     *)
(* second and rounds of up to half of that.                                *)
EXTENDS MainLoop

OneChannel == {0}
OnAndOff   == {0, 100}
=============================================================================
