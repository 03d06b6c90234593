---------------------------- MODULE UartTxProof ----------------------------
(***************************************************************************)
(* Proofs about UartTx, for a ring of any length and any characters.       *)
(***************************************************************************)
EXTENDS UartTx, SequenceTheorems, TLAPS

(* Room that was found is not lost: only the loop takes slots.             *)
RoomInv == at \in {"store", "advance"} => ~UartTxFull

(* What is about to be added lies in the slot TxIn names.                  *)
StoredInv == at = "advance" => TxBuf[TxIn] = char

IInv == TypeOK /\ PendingIsEnabled /\ RoomInv /\ StoredInv

(* Advanced goes round the slots, one by one.                              *)
LEMMA AdvancedInSlots ==
  ASSUME NEW s \in Slots
  PROVE  /\ Advanced(s) \in Slots
         /\ Advanced(s) # s
         /\ \A t \in Slots : Advanced(s) = Advanced(t) => s = t
  BY BufLenAssumption DEF Advanced, Slots

LEMMA InitIInv == Init => IInv
<1> SUFFICES ASSUME Init PROVE IInv
  OBVIOUS
<1>1. TxBuf \in [Slots -> Chars \cup {NoChar}] /\ TxIn \in Slots /\ TxOut \in Slots
  BY BufLenAssumption DEF Init, Slots
<1>2. TypeOK
  BY <1>1 DEF Init, TypeOK
<1> QED BY <1>2 DEF Init, IInv, PendingIsEnabled, RoomInv, StoredInv

LEMMA NextIInv == IInv /\ [Next]_vars => IInv'
<1> SUFFICES ASSUME IInv, [Next]_vars PROVE IInv'
  OBVIOUS
<1> USE DEF IInv, TypeOK, PendingIsEnabled, RoomInv, StoredInv, UartTxFull, ring
<1>1. CASE \E c \in Chars : UartTxPutChar(c)
  BY <1>1, NoCharAssumption DEF UartTxPutChar
<1>2. CASE FindRoom
  BY <1>2 DEF FindRoom, Advanced
<1>3. CASE StoreChar
  BY <1>3 DEF StoreChar
<1>4. CASE AdvanceIn
  BY <1>4, AdvancedInSlots DEF AdvanceIn
<1>5. CASE EnableSending
  BY <1>5 DEF EnableSending, SwitchedOn
<1>6. CASE UartTxInterrupt
  <2>1. CASE UartTxEmpty
    BY <1>6, <2>1 DEF UartTxInterrupt, UartTxEmpty
  <2>2. CASE ~UartTxEmpty
    <3>1. /\ reg' = TxBuf[TxOut] /\ TxOut' = Advanced(TxOut)
          /\ UNCHANGED <<TxBuf, TxIn, udrie, at, char>>
          /\ udrie /\ TxOut # TxIn
      BY <1>6, <2>2 DEF UartTxInterrupt, UartTxEmpty
    <3>2. TxOut' # Advanced(TxIn)
      BY <3>1, AdvancedInSlots
    <3>3. TxOut' \in Slots /\ reg' \in Chars \cup {NoChar}
      BY <3>1, AdvancedInSlots
    <3> QED BY <3>1, <3>2, <3>3 DEF Advanced
  <2> QED BY <2>1, <2>2
<1>7. CASE Shift
  BY <1>7 DEF Shift
<1>8. CASE Reset
  <2>1. Init'
    BY <1>8 DEF Reset, Init
  <2>2. TxBuf' \in [Slots -> Chars \cup {NoChar}] /\ TxIn' \in Slots /\ TxOut' \in Slots
    BY <2>1, BufLenAssumption DEF Init, Slots
  <2> QED BY <2>1, <2>2 DEF Init
<1>9. CASE UNCHANGED vars
  BY <1>9 DEF vars, Advanced
<1> QED
  BY <1>1, <1>2, <1>3, <1>4, <1>5, <1>6, <1>7, <1>8, <1>9 DEF Next, PutStep

LEMMA Inductive == Spec => []IInv
  BY InitIInv, NextIInv, PTL DEF Spec

(* Offsets stay within the ring, and only characters are in it.            *)
THEOREM TypeCorrect == Spec => []TypeOK
<1>1. IInv => TypeOK
  BY DEF IInv
<1> QED BY <1>1, Inductive, PTL

(* Whenever the main loop is not just about to switch the interrupt on,    *)
(* characters in the ring have it switched on.                             *)
THEOREM PendingIsEnabledHolds == Spec => []PendingIsEnabled
<1>1. IInv => PendingIsEnabled
  BY DEF IInv
<1> QED BY <1>1, Inductive, PTL

-----------------------------------------------------------------------------
(* The characters between the offsets are never more than all slots but    *)
(* one, and none of them lies where the next one is stored.                *)
LEMMA RingShape ==
  ASSUME TxIn \in Slots, TxOut \in Slots
  PROVE  /\ Count \in 0 .. UART_BUF_LEN - 1
         /\ Count = 0 <=> TxIn = TxOut
         /\ TxOut # Advanced(TxIn) => Count < UART_BUF_LEN - 1
         /\ \A k \in 1 .. Count : Slot(k) \in Slots /\ Slot(k) # TxIn
         /\ Slot(Count + 1) = TxIn
  BY BufLenAssumption DEF Slots, Count, Slot, Advanced

LEMMA ContentIsASequence ==
  ASSUME IInv
  PROVE  /\ Content \in Seq(Chars \cup {NoChar})
         /\ Len(Content) = Count
  BY RingShape DEF IInv, TypeOK, Content

LEMMA AppendAsFunction ==
  ASSUME NEW S, NEW s \in Seq(S), NEW e \in S
  PROVE  Append(s, e) = [k \in 1 .. Len(s) + 1 |-> IF k = Len(s) + 1 THEN e ELSE s[k]]
<1> DEFINE t == [k \in 1 .. Len(s) + 1 |-> IF k = Len(s) + 1 THEN e ELSE s[k]]
<1>1. Len(s) \in Nat /\ \A k \in 1 .. Len(s) : s[k] \in S
  OBVIOUS
<1>2. t \in [1 .. Len(s) + 1 -> S]
  BY <1>1
<1>3. t \in Seq(S) /\ Len(t) = Len(s) + 1
  BY <1>1, <1>2
<1>4. /\ Append(s, e) \in Seq(S) /\ Len(Append(s, e)) = Len(s) + 1
      /\ \A k \in 1 .. Len(s) + 1 : Append(s, e)[k] = t[k]
  BY <1>1
<1> QED BY <1>3, <1>4, SeqEqual

(* AdvanceIn puts the character.                                           *)
LEMMA AdvanceInPuts ==
  ASSUME IInv, AdvanceIn
  PROVE  Queue!Put(char)
<1>1. /\ TxBuf' = TxBuf /\ TxOut' = TxOut /\ reg' = reg
      /\ TxIn' = Advanced(TxIn) /\ TxOut # Advanced(TxIn)
      /\ TxIn \in Slots /\ TxOut \in Slots
      /\ TxBuf[TxIn] = char
  BY DEF IInv, TypeOK, RoomInv, StoredInv, UartTxFull, AdvanceIn
<1>2. Count' = Count + 1
  BY <1>1, BufLenAssumption DEF Count, Advanced, Slots
<1>3. \A k \in Int : Slot(k)' = Slot(k)
  BY <1>1 DEF Slot
<1>4. Content' = [k \in 1 .. Count + 1 |-> TxBuf[Slot(k)]]
  BY <1>1, <1>2, <1>3 DEF Content
<1>5. Content' = Append(Content, char)
  <2>1. Count \in Nat /\ TxBuf[Slot(Count + 1)] = char
    BY <1>1, RingShape
  <2>2. \A k \in 1 .. Count : Content[k] = TxBuf[Slot(k)]
    BY DEF Content
  <2>3. char \in Chars \cup {NoChar}
    BY DEF IInv, TypeOK
  <2>4. Content' = [k \in 1 .. Count + 1 |-> IF k = Count + 1 THEN char ELSE Content[k]]
    BY <1>4, <2>1, <2>2
  <2> QED BY <2>3, <2>4, ContentIsASequence, AppendAsFunction
<1>6. Len(Content) < UART_BUF_LEN - 1
  BY <1>1, RingShape, ContentIsASequence
<1> QED BY <1>1, <1>5, <1>6 DEF Queue!Put

(* The interrupt hands over the oldest one, or finds there is none.        *)
LEMMA InterruptHandsOver ==
  ASSUME IInv, UartTxInterrupt
  PROVE  Queue!HandOver \/ UNCHANGED Queue!vars
<1>1. CASE UartTxEmpty
  <2>1. UNCHANGED <<ring, reg>>
    BY <1>1 DEF UartTxInterrupt, ring
  <2> QED BY <2>1 DEF Queue!vars, Content, Count, Slot, ring
<1>2. CASE ~UartTxEmpty
  <2>1. /\ TxBuf' = TxBuf /\ TxIn' = TxIn /\ TxOut' = Advanced(TxOut)
        /\ reg = NoChar /\ reg' = TxBuf[TxOut]
        /\ TxIn \in Slots /\ TxOut \in Slots /\ TxIn # TxOut
    BY <1>2 DEF IInv, TypeOK, UartTxInterrupt, UartTxEmpty
  <2>2. Count' = Count - 1 /\ Count > 0
    BY <2>1, BufLenAssumption DEF Count, Advanced, Slots
  <2>3. \A k \in 1 .. Count - 1 : Slot(k)' = Slot(k + 1)
    BY <2>1, BufLenAssumption DEF Slot, Advanced, Slots, Count
  <2>4. Slot(1) = TxOut
    BY <2>1, BufLenAssumption DEF Slot, Slots
  <2>5. Count \in Nat
    BY <2>1, RingShape
  <2>6. Content' = Tail(Content)
    BY <2>1, <2>2, <2>3, <2>5, ContentIsASequence DEF Content
  <2>7. Content # << >> /\ reg' = Head(Content)
    BY <2>1, <2>2, <2>4, <2>5, ContentIsASequence DEF Content
  <2> QED BY <2>1, <2>6, <2>7 DEF Queue!HandOver
<1> QED BY <1>1, <1>2

(* Every step of the ring is a step of the queue, or none.                 *)
LEMMA StepRefines ==
  ASSUME IInv, [Next]_vars
  PROVE  [Queue!Next]_Queue!vars
<1>1. ASSUME UNCHANGED <<ring, reg>>
      PROVE  UNCHANGED Queue!vars
  BY <1>1 DEF Queue!vars, Content, Count, Slot, ring
<1>2. CASE \E c \in Chars : UartTxPutChar(c)
  BY <1>1, <1>2 DEF UartTxPutChar
<1>3. CASE FindRoom \/ EnableSending
  BY <1>1, <1>3 DEF FindRoom, EnableSending
<1>4. CASE StoreChar
  <2>1. /\ TxBuf' = [TxBuf EXCEPT ![TxIn] = char]
        /\ TxIn' = TxIn /\ TxOut' = TxOut /\ reg' = reg
        /\ TxIn \in Slots /\ TxOut \in Slots /\ TxBuf \in [Slots -> Chars \cup {NoChar}]
    BY <1>4 DEF IInv, TypeOK, StoreChar
  <2>2. Count' = Count /\ \A k \in 1 .. Count : Slot(k)' = Slot(k)
    BY <2>1 DEF Count, Slot
  <2>3. \A k \in 1 .. Count : TxBuf'[Slot(k)] = TxBuf[Slot(k)]
    BY <2>1, RingShape
  <2>4. Content' = Content
    BY <2>2, <2>3 DEF Content
  <2> QED BY <2>1, <2>4 DEF Queue!vars
<1>5. CASE AdvanceIn
  <2>1. char \in Chars
    BY <1>5 DEF IInv, TypeOK, AdvanceIn
  <2> QED BY <1>5, <2>1, AdvanceInPuts DEF Queue!Next
<1>6. CASE UartTxInterrupt
  BY <1>6, InterruptHandsOver DEF Queue!Next
<1>7. CASE Shift
  <2>1. Content' = Content
    BY <1>7 DEF Shift, Content, Count, Slot, ring
  <2> QED BY <1>7, <2>1 DEF Shift, Queue!Next, Queue!Shift
<1>8. CASE Reset
  <2>1. Content' = << >> /\ reg' = NoChar
    BY <1>8 DEF Reset, Content, Count
  <2> QED BY <2>1 DEF Queue!Next, Queue!Reset
<1>9. CASE UNCHANGED vars
  BY <1>1, <1>9 DEF vars
<1> QED BY <1>2, <1>3, <1>4, <1>5, <1>6, <1>7, <1>8, <1>9 DEF Next, PutStep

(* Characters leave in order and once, for every length of the ring.       *)
THEOREM QueueKept == Spec => KeepsQueue
<1>1. Init => Queue!Init
  BY DEF Init, Queue!Init, Content, Count
<1>2. IInv /\ [Next]_vars => [Queue!Next]_Queue!vars
  BY StepRefines
<1> QED BY <1>1, <1>2, Inductive, PTL DEF Spec, KeepsQueue, Queue!Spec
=============================================================================
