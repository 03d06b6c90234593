---------------------------- MODULE MCLineReader ----------------------------
(* An instance of LineReader for TLC.  Lines differ in their length, the   *)
(* shortest is restart.  One line does not fill the line buffer; two of    *)
(* full length that an overrun joins are longer than it.                   *)
EXTENDS LineReader

OneChar      == {"c"}
RestartLines == {<<"c">>}
=============================================================================
