------------------------------ MODULE UartTx ------------------------------
(***************************************************************************)
(* The transmit half of firmware/uart.c, which uart1.c and uart3.c         *)
(* instantiate: a ring that the main loop fills and the data register      *)
(* empty interrupt drains.  The loop switches that interrupt on, and the   *)
(* interrupt switches itself off.  Interrupts as such are enabled, by the  *)
(* start-up code of the watchdog, before anything is sent.                 *)
(***************************************************************************)
EXTENDS Integers, Sequences

CONSTANTS
  UART_BUF_LEN,   \* slots of the ring
  Chars,          \* the characters
  NoChar          \* no character

ASSUME BufLenAssumption == UART_BUF_LEN \in Nat /\ UART_BUF_LEN > 1
ASSUME NoCharAssumption == NoChar \notin Chars

VARIABLES
  TxBuf, TxIn, TxOut,   \* the ring and its offsets
  udrie,                \* data register empty interrupt enabled, in UCSRB
  reg,                  \* UDR: a character until it is shifted out
  at,                   \* where UartTxPutChar is
  char                  \* its argument

ring == <<TxBuf, TxIn, TxOut>>
vars == <<ring, udrie, reg, at, char>>

Slots == 0 .. UART_BUF_LEN - 1

NotWrapped(offset) == offset + 1

(* (offset + 1) & (UART_BUF_LEN - 1), of a power of two.                   *)
Advanced(offset) == IF offset + 1 = UART_BUF_LEN THEN 0 ELSE offset + 1

NeverFull == FALSE

UartTxFull == TxOut = Advanced(TxIn)

LastOne == Advanced(TxOut) = TxIn

UartTxEmpty == TxOut = TxIn

Init ==
  /\ TxBuf = [s \in Slots |-> NoChar] /\ TxIn = 0 /\ TxOut = 0
  /\ udrie = FALSE /\ reg = NoChar
  /\ at = "idle" /\ char = NoChar

-----------------------------------------------------------------------------
(* The main loop.                                                          *)

(* The next character of UartTxPuts or UartTxPutsf.                        *)
UartTxPutChar(c) ==
  /\ at = "idle"
  /\ char' = c
  /\ at' = "wait"
  /\ UNCHANGED <<ring, udrie, reg>>

(* while ( UartTxFull() );                                                 *)
FindRoom ==
  /\ at = "wait"
  /\ ~UartTxFull
  /\ at' = "store"
  /\ UNCHANGED <<ring, udrie, reg, char>>

StoreChar ==
  /\ at = "store"
  /\ TxBuf' = [TxBuf EXCEPT ![TxIn] = char]
  /\ at' = "advance"
  /\ UNCHANGED <<TxIn, TxOut, udrie, reg, char>>

AdvanceIn ==
  /\ at = "advance"
  /\ TxIn' = Advanced(TxIn)
  /\ at' = "enable"
  /\ UNCHANGED <<TxBuf, TxOut, udrie, reg, char>>

AsItWas == udrie

SwitchedOn == TRUE

(* UCSRB |= (1<<UDRIE1).  The interrupt may clear the bit between the load *)
(* and the store of that; what is stored has it set all the same.          *)
EnableSending ==
  /\ at = "enable"
  /\ udrie' = SwitchedOn
  /\ at' = "idle"
  /\ char' = NoChar
  /\ UNCHANGED <<ring, reg>>

PutStep == FindRoom \/ StoreChar \/ AdvanceIn \/ EnableSending

-----------------------------------------------------------------------------
(* The hardware.                                                           *)

(* The interrupt runs while it is enabled and the data register is empty.  *)
UartTxInterrupt ==
  /\ udrie /\ reg = NoChar
  /\ IF UartTxEmpty
     THEN udrie' = FALSE /\ UNCHANGED <<reg, TxOut>>
     ELSE reg' = TxBuf[TxOut] /\ TxOut' = Advanced(TxOut) /\ UNCHANGED udrie
  /\ UNCHANGED <<TxBuf, TxIn, at, char>>

Shift ==
  /\ reg # NoChar
  /\ reg' = NoChar
  /\ UNCHANGED <<ring, udrie, at, char>>

(* The watchdog, or the supply, restarts the program.                      *)
Reset ==
  /\ TxBuf' = [s \in Slots |-> NoChar] /\ TxIn' = 0 /\ TxOut' = 0
  /\ udrie' = FALSE /\ reg' = NoChar
  /\ at' = "idle" /\ char' = NoChar

Next ==
  \/ \E c \in Chars : UartTxPutChar(c)
  \/ PutStep
  \/ UartTxInterrupt \/ Shift \/ Reset

Spec == Init /\ [][Next]_vars

(* The processor goes on with a call it has begun, and runs an interrupt   *)
(* that is due; the hardware shifts.  No handler has to send anything.     *)
FairSpec ==
  /\ Spec
  /\ WF_vars(PutStep)
  /\ WF_vars(UartTxInterrupt)
  /\ WF_vars(Shift)

-----------------------------------------------------------------------------
TypeOK ==
  /\ TxBuf \in [Slots -> Chars \cup {NoChar}]
  /\ TxIn \in Slots /\ TxOut \in Slots
  /\ udrie \in BOOLEAN
  /\ reg \in Chars \cup {NoChar}
  /\ at \in {"idle", "wait", "store", "advance", "enable"}
  /\ char \in Chars \cup {NoChar}
  /\ (at = "idle") <=> (char = NoChar)

(* Characters are never left behind with the interrupt switched off: the   *)
(* interrupt may find the ring empty and switch itself off at any moment   *)
(* of UartTxPutChar, which has to undo that when it has added one.         *)
PendingIsEnabled == TxIn # TxOut /\ at # "enable" => udrie

(* UartTxPutChar always finds room in the end: the interrupt it waits for  *)
(* is never off while the ring is full.                                    *)
PutReturns == at = "wait" ~> at = "idle"

(* What is in the ring is sent, up to the last character, unless a reset   *)
(* empties it.                                                             *)
AllSent == \A s \in Slots : TxIn = s ~> (TxOut = s \/ TxIn = TxOut)

-----------------------------------------------------------------------------
(* The refinement: the characters between the two offsets, oldest first.   *)
(* A character counts as put when TxIn advances.                           *)

Count == IF TxIn >= TxOut THEN TxIn - TxOut ELSE TxIn - TxOut + UART_BUF_LEN

Slot(k) == IF TxOut + k > UART_BUF_LEN THEN TxOut + k - 1 - UART_BUF_LEN
                                       ELSE TxOut + k - 1

Content == [k \in 1 .. Count |-> TxBuf[Slot(k)]]

Queue == INSTANCE CharQueue WITH queue <- Content, Capacity <- UART_BUF_LEN - 1

(* Characters leave in the order in which they were put, each once, with   *)
(* one slot less than the ring has; nothing else ever leaves.              *)
KeepsQueue == Queue!Spec
=============================================================================
