---------------------------- MODULE LineReader ----------------------------
(***************************************************************************)
(* How the board receives lines: the receive half of uart.c, a ring that   *)
(* the receive interrupt fills without looking whether it is full, and     *)
(* Run_USB_Serial of main.c, which every 10 ms moves what the ring holds   *)
(* to a line buffer and hands complete lines to Cmd_Lookup.                *)
(*                                                                         *)
(* Run_External_Serial is the same for the other UART.  A look at the ring *)
(* and the fetch of a character are one step: they take microseconds, and  *)
(* a character on the line takes 87 of them.                               *)
(***************************************************************************)
EXTENDS Integers, Sequences

CONSTANTS
  UART_BUF_LEN,   \* slots of the ring
  LINEBUF_SIZE,   \* places of the line buffer
  Text, EOL,      \* characters of a line; '\r' or '\n', both end one
  NoChar,         \* no character
  Restarts,       \* the lines that are the restart command
  MaxLine,        \* characters of the longest line the host sends
  MaxOverruns     \* bound: overruns of the ring within one line

ASSUME RingAssumption == UART_BUF_LEN \in Nat /\ UART_BUF_LEN > 1
ASSUME CharAssumption == EOL \notin Text /\ NoChar \notin Text \cup {EOL}
ASSUME LineAssumption == LINEBUF_SIZE \in Nat /\ MaxLine \in Nat /\ MaxOverruns \in Nat
ASSUME EmptyAssumption == << >> \notin Restarts

VARIABLES
  RxBuf, RxIn, RxOut,   \* the ring and its offsets
  LineBuf,              \* the string in USB_LineBuf
  length,               \* of UartRxGetLine, counted down; 0 outside
  at,                   \* where Run_USB_Serial is
  ran,                  \* the line that was last handed to Cmd_Lookup
  sent,                 \* characters the host has sent of its present line
  overruns              \* history: overruns since the line buffer was cleared

ring == <<RxBuf, RxIn, RxOut>>
vars == <<ring, LineBuf, length, at, ran, sent, overruns>>

Slots == 0 .. UART_BUF_LEN - 1

NotWrapped(offset) == offset + 1

(* (offset + 1) & (UART_BUF_LEN - 1), of a power of two.                   *)
Advanced(offset) == IF offset + 1 = UART_BUF_LEN THEN 0 ELSE offset + 1

OneLeft == Advanced(RxOut) = RxIn \/ RxIn = RxOut

UartRxEmpty == RxIn = RxOut

Full == Advanced(RxIn) = RxOut

Init ==
  /\ RxBuf = [s \in Slots |-> NoChar] /\ RxIn = 0 /\ RxOut = 0
  /\ LineBuf = << >> /\ length = 0 /\ at = "poll" /\ ran = << >>
  /\ sent = 0 /\ overruns = 0

-----------------------------------------------------------------------------
(* The line.  The host sends lines of at most MaxLine characters, the      *)
(* interrupt stores whatever comes.  It is enabled while a handler runs.   *)
UartRxInterrupt(c) ==
  /\ c # EOL => sent < MaxLine
  /\ sent' = IF c = EOL THEN 0 ELSE sent + 1
  /\ Full => overruns < MaxOverruns
  /\ overruns' = IF Full THEN overruns + 1 ELSE overruns
  /\ RxBuf' = [RxBuf EXCEPT ![RxIn] = c]
  /\ RxIn' = Advanced(RxIn)
  /\ UNCHANGED <<RxOut, LineBuf, length, at, ran>>

-----------------------------------------------------------------------------
(* Run_USB_Serial, when Timer_Is10ms says so.                              *)
Poll ==
  /\ at = "poll"
  /\ at' = "call"
  /\ UNCHANGED <<ring, LineBuf, length, ran, sent, overruns>>

(* U1_RxGetLine(USB_LineBuf + size, LINEBUF_SIZE - size).  A string that   *)
(* fills the buffer has its end in the byte behind it, which belongs to    *)
(* Ext_LineBuf and is taken to stay zero: nothing but the expansion board  *)
(* writes there.                                                           *)
UartRxGetLine ==
  /\ at = "call"
  /\ length' = LINEBUF_SIZE - Len(LineBuf)
  /\ at' = "loop"
  /\ UNCHANGED <<ring, LineBuf, ran, sent, overruns>>

(* One character of the loop.  An empty line is complete, but not looked up. *)
GetChar ==
  /\ at = "loop" /\ length # 0 /\ ~UartRxEmpty
  /\ RxOut' = Advanced(RxOut)
  /\ IF RxBuf[RxOut] = EOL
     THEN /\ at' = IF LineBuf = << >> THEN "call" ELSE "lookup"
          /\ length' = 0
          /\ UNCHANGED LineBuf
     ELSE /\ LineBuf' = Append(LineBuf, RxBuf[RxOut])
          /\ length' = length - 1
          /\ UNCHANGED at
  /\ UNCHANGED <<RxBuf, RxIn, ran, sent, overruns>>

OnePlaceLeft == length - 1 <= 1

OutOfPlaces == length - 1 = 0

LineKept == LineBuf

(* USB_LineBuf[0] = 0.                                                     *)
Cleared == << >>

(* The loop ends without a line, having counted length down once more:     *)
(* -1 says the buffer is full, and it is cleared; 0 ends the poll.         *)
NoLine ==
  /\ at = "loop" /\ (length = 0 \/ UartRxEmpty)
  /\ length' = 0
  /\ IF OutOfPlaces
     THEN LineBuf' = Cleared /\ overruns' = 0 /\ at' = "call"
     ELSE at' = "poll" /\ UNCHANGED <<LineBuf, overruns>>
  /\ UNCHANGED <<ring, ran, sent>>

(* Cmd_Lookup: the handler runs, then the buffer is cleared; the handler   *)
(* of restart does not return.                                             *)
Cmd_Lookup ==
  /\ at = "lookup"
  /\ ran' = LineBuf
  /\ IF LineBuf \in Restarts
     THEN at' = "hang" /\ UNCHANGED <<LineBuf, overruns>>
     ELSE LineBuf' = Cleared /\ overruns' = 0 /\ at' = "call"
  /\ UNCHANGED <<ring, length, sent>>

LoopStep == Poll \/ UartRxGetLine \/ GetChar \/ NoLine \/ Cmd_Lookup

-----------------------------------------------------------------------------
(* The watchdog, or the supply, restarts the program; start-up code clears *)
(* the memory.  What came in while restart was hanging is forgotten.       *)
Reset ==
  /\ RxBuf' = [s \in Slots |-> NoChar] /\ RxIn' = 0 /\ RxOut' = 0
  /\ LineBuf' = << >> /\ length' = 0 /\ at' = "poll" /\ ran' = << >>
  /\ overruns' = 0
  /\ UNCHANGED sent

Bite == at = "hang" /\ Reset

Next ==
  \/ \E c \in Text \cup {EOL} : UartRxInterrupt(c)
  \/ LoopStep \/ Bite \/ Reset

Spec == Init /\ [][Next]_vars

(* The processor executes, the 10 ms come round, the watchdog bites; the   *)
(* host need not send anything.                                            *)
FairSpec == Spec /\ WF_vars(LoopStep) /\ WF_vars(Bite)

-----------------------------------------------------------------------------
TypeOK ==
  /\ RxBuf \in [Slots -> Text \cup {EOL, NoChar}]
  /\ RxIn \in Slots /\ RxOut \in Slots
  /\ LineBuf \in Seq(Text) /\ Len(LineBuf) <= LINEBUF_SIZE /\ ran \in Seq(Text)
  /\ length \in 0 .. LINEBUF_SIZE
  /\ at \in {"poll", "call", "loop", "lookup", "hang"}
  /\ sent \in 0 .. MaxLine /\ overruns \in 0 .. MaxOverruns

(* A string that fills the line buffer has its end outside, and no later   *)
(* call finds room for a character: the board hears nothing until its next *)
(* reset.  That takes a line as long as the buffer, or as many lines as    *)
(* are that long together and were joined by one overrun after another:    *)
(* nothing else, no poll that finds a line in part and no line that was    *)
(* obeyed, adds to what lies in the buffer.                                *)
NeverDeafByItself == Len(LineBuf) <= (overruns + 1) * MaxLine

(* Every character is fetched in the end, unless the ring is overrun, the  *)
(* board reset, or the line buffer full to its last place.                 *)
AllFetched ==
  \A s \in Slots :
    RxIn = s ~> (RxOut = s \/ RxIn = RxOut \/ Len(LineBuf) = LINEBUF_SIZE)

-----------------------------------------------------------------------------
(* The refinement: what was received and not yet handed over is in the     *)
(* line buffer, with the end that was fetched already, and in the ring.    *)

Count == IF RxIn >= RxOut THEN RxIn - RxOut ELSE RxIn - RxOut + UART_BUF_LEN

Slot(k) == IF RxOut + k > UART_BUF_LEN THEN RxOut + k - 1 - UART_BUF_LEN
                                       ELSE RxOut + k - 1

InRing == [k \in 1 .. Count |-> RxBuf[Slot(k)]]

Fetched == CASE at = "hang"   -> << >>
             [] at = "lookup" -> Append(LineBuf, EOL)
             [] OTHER         -> LineBuf

LastLine(r, line) == IF line = << >> THEN r ELSE line
IsRestart(r) == r \in Restarts

Stream == INSTANCE LineStream WITH
  pending <- Fetched \o InRing, result <- ran, Start <- << >>,
  Left <- {<< >>}, Apply <- LastLine, Stops <- IsRestart, Lossy <- TRUE,
  Burst <- UART_BUF_LEN - 1, TooLong <- LINEBUF_SIZE - 1

(* Lines are obeyed in order, each once and complete.  What is lost, is    *)
(* lost from the end, by an overrun with a full ring, by a reset, or as a  *)
(* line that is longer than the buffer; after restart nothing that came    *)
(* before the reset is obeyed.                                             *)
KeepsStream == Stream!Spec
=============================================================================
