-------------------------- MODULE LineReaderProof --------------------------
(***************************************************************************)
(* Proofs about LineReader, for a ring and a line buffer of any length,    *)
(* any characters, lines of any length and any number of overruns.         *)
(***************************************************************************)
EXTENDS LineReader, SequenceTheorems, TLAPS

(* Append, element by element.                                             *)
LEMMA AppendAsFunction ==
  ASSUME NEW S, NEW s \in Seq(S), NEW e \in S
  PROVE  Append(s, e) = [k \in 1 .. Len(s) + 1 |-> IF k = Len(s) + 1 THEN e ELSE s[k]]
<1> DEFINE t == [k \in 1 .. Len(s) + 1 |-> IF k = Len(s) + 1 THEN e ELSE s[k]]
<1>1. Len(s) \in Nat /\ \A k \in 1 .. Len(s) : s[k] \in S
  OBVIOUS
<1>2. t \in [1 .. Len(s) + 1 -> S]
  BY <1>1
<1>3. t \in Seq(S) /\ Len(t) = Len(s) + 1
  BY <1>1, <1>2
<1>4. /\ Append(s, e) \in Seq(S) /\ Len(Append(s, e)) = Len(s) + 1
      /\ \A k \in 1 .. Len(s) + 1 : Append(s, e)[k] = t[k]
  BY <1>1
<1> QED BY <1>3, <1>4, SeqEqual

(* What comes behind the second of two pieces comes behind both.           *)
LEMMA ConcatAppend ==
  ASSUME NEW S, NEW s \in Seq(S), NEW t \in Seq(S), NEW e \in S
  PROVE  s \o Append(t, e) = Append(s \o t, e)
<1>1. /\ s \o Append(t, e) \in Seq(S) /\ Append(s \o t, e) \in Seq(S)
      /\ Len(s \o Append(t, e)) = Len(s) + Len(t) + 1
      /\ Len(Append(s \o t, e)) = Len(s) + Len(t) + 1
      /\ Len(s) \in Nat /\ Len(t) \in Nat
  OBVIOUS
<1>2. \A k \in 1 .. Len(s) + Len(t) + 1 : (s \o Append(t, e))[k] = Append(s \o t, e)[k]
  BY <1>1
<1> QED BY <1>1, <1>2, SeqEqual

(* The first element of one piece, put behind the piece in front of it.    *)
LEMMA MoveHead ==
  ASSUME NEW S, NEW s \in Seq(S), NEW t \in Seq(S), t # << >>
  PROVE  Append(s, t[1]) \o Tail(t) = s \o t
<1>1. /\ t[1] \in S /\ Tail(t) \in Seq(S) /\ Len(Tail(t)) = Len(t) - 1
      /\ Len(s) \in Nat /\ Len(t) \in Nat /\ Len(t) > 0
  OBVIOUS
<1>2. /\ Append(s, t[1]) \o Tail(t) \in Seq(S) /\ s \o t \in Seq(S)
      /\ Len(Append(s, t[1]) \o Tail(t)) = Len(s) + Len(t)
      /\ Len(s \o t) = Len(s) + Len(t)
  BY <1>1
<1>3. \A k \in 1 .. Len(s) + Len(t) : (Append(s, t[1]) \o Tail(t))[k] = (s \o t)[k]
  BY <1>1
<1> QED BY <1>2, <1>3, SeqEqual

(* Two pieces without the second one.                                      *)
LEMMA DropEnd ==
  ASSUME NEW S, NEW s \in Seq(S), NEW t \in Seq(S), NEW n, n = Len(t)
  PROVE  SubSeq(s \o t, 1, Len(s \o t) - n) = s
<1>1. /\ Len(s) \in Nat /\ Len(t) \in Nat /\ s \o t \in Seq(S)
      /\ Len(s \o t) = Len(s) + Len(t)
  OBVIOUS
<1>2. Len(s \o t) - n = Len(s)
  BY <1>1
<1>3. /\ SubSeq(s \o t, 1, Len(s)) \in Seq(S)
      /\ Len(SubSeq(s \o t, 1, Len(s))) = Len(s)
      /\ \A k \in 1 .. Len(s) : SubSeq(s \o t, 1, Len(s))[k] = s[k]
  BY <1>1
<1> QED BY <1>2, <1>3, SeqEqual

-----------------------------------------------------------------------------
Chars == Text \cup {EOL}

(* A piece of what is in the ring without the end of a line.               *)
TextRun(a, b) == \A k \in a + 1 .. b : InRing[k] # EOL

(* Pieces are not longer than the host sends lines; the last one not       *)
(* longer than what it has sent of the present one.                        *)
RunInv ==
  \A a, b \in 0 .. Count : a <= b /\ TextRun(a, b) =>
    b - a <= IF b = Count THEN sent ELSE MaxLine

(* What overruns since the line buffer was cleared can have added to it.   *)
Joined == overruns * MaxLine

(* The same for a line that is in the line buffer in part.                 *)
LineInv ==
  at \in {"poll", "call", "loop"} =>
    \A b \in 0 .. Count : TextRun(0, b) =>
      Len(LineBuf) + b <= Joined + (IF b = Count THEN sent ELSE MaxLine)

LenInv == Len(LineBuf) <= Joined + MaxLine

LengthInv == at = "loop" => length = LINEBUF_SIZE - Len(LineBuf)

CharInv == \A k \in 1 .. Count : InRing[k] \in Chars

LookupInv == at = "lookup" => LineBuf # << >>

RanInv == at = "hang" <=> ran \in Restarts

IInv == /\ TypeOK /\ CharInv
        /\ RunInv /\ LineInv /\ LenInv /\ LengthInv
        /\ LookupInv /\ RanInv

-----------------------------------------------------------------------------
(* The ring.                                                               *)

LEMMA AdvancedInSlots ==
  ASSUME NEW s \in Slots
  PROVE  Advanced(s) \in Slots
  BY RingAssumption DEF Advanced, Slots

LEMMA RingShape ==
  ASSUME RxIn \in Slots, RxOut \in Slots
  PROVE  /\ Count \in 0 .. UART_BUF_LEN - 1
         /\ Count = 0 <=> UartRxEmpty
         /\ Full <=> Count = UART_BUF_LEN - 1
         /\ \A k \in 1 .. Count : Slot(k) \in Slots /\ Slot(k) # RxIn
         /\ Slot(Count + 1) = RxIn
  BY RingAssumption DEF Slots, Count, Slot, Advanced, UartRxEmpty, Full

LEMMA InRingIsASequence ==
  ASSUME RxIn \in Slots, RxOut \in Slots, CharInv
  PROVE  /\ InRing \in Seq(Chars) /\ Len(InRing) = Count
         /\ Count \in Nat
<1>1. Count \in Nat
  BY RingShape
<1>2. InRing = [k \in 1 .. Count |-> RxBuf[Slot(k)]]
  BY DEF InRing
<1>3. \A k \in 1 .. Count : RxBuf[Slot(k)] \in Chars
  BY <1>2 DEF CharInv
<1> QED BY <1>1, <1>2, <1>3

(* The interrupt adds a character at the end, or drops all with it.        *)
LEMMA InterruptAdds ==
  ASSUME TypeOK, CharInv, NEW c \in Chars, UartRxInterrupt(c), ~Full
  PROVE  /\ Count' = Count + 1
         /\ InRing' = Append(InRing, c)
         /\ \A k \in 1 .. Count : InRing'[k] = InRing[k]
         /\ InRing'[Count + 1] = c
<1>1. /\ RxBuf' = [RxBuf EXCEPT ![RxIn] = c] /\ RxIn' = Advanced(RxIn) /\ RxOut' = RxOut
      /\ RxIn \in Slots /\ RxOut \in Slots /\ RxBuf \in [Slots -> Text \cup {EOL, NoChar}]
      /\ Advanced(RxIn) # RxOut
  BY DEF TypeOK, UartRxInterrupt, Full
<1>2. Count' = Count + 1
  BY <1>1, RingAssumption DEF Count, Advanced, Slots
<1>3. \A k \in Int : Slot(k)' = Slot(k)
  BY <1>1 DEF Slot
<1>4. Count \in Nat
  BY <1>1, RingShape
<1>5. InRing' = [k \in 1 .. Count + 1 |-> RxBuf'[Slot(k)]]
  BY <1>2, <1>3, <1>4 DEF InRing
<1>6. \A k \in 1 .. Count : RxBuf'[Slot(k)] = InRing[k]
  BY <1>1, <1>4, RingShape DEF InRing
<1>7. RxBuf'[Slot(Count + 1)] = c
  BY <1>1, RingShape
<1>8. InRing' = [k \in 1 .. Count + 1 |-> IF k = Count + 1 THEN c ELSE InRing[k]]
  BY <1>4, <1>5, <1>6, <1>7
<1>9. InRing' = Append(InRing, c)
  BY <1>1, <1>8, InRingIsASequence, AppendAsFunction
<1>10. /\ \A k \in 1 .. Count : InRing'[k] = InRing[k]
       /\ InRing'[Count + 1] = c
  BY <1>4, <1>5, <1>6, <1>7
<1> QED BY <1>2, <1>9, <1>10

LEMMA InterruptDrops ==
  ASSUME TypeOK, NEW c, UartRxInterrupt(c), Full
  PROVE  Count' = 0 /\ InRing' = << >>
  BY RingAssumption DEF TypeOK, UartRxInterrupt, Full, Count, Advanced, Slots, InRing

(* A fetch takes the oldest one.                                           *)
LEMMA FetchTakes ==
  ASSUME TypeOK, CharInv, ~UartRxEmpty, RxOut' = Advanced(RxOut), RxIn' = RxIn, RxBuf' = RxBuf
  PROVE  /\ Count > 0 /\ Count' = Count - 1
         /\ InRing' = Tail(InRing)
         /\ \A k \in 1 .. Count - 1 : InRing'[k] = InRing[k + 1]
         /\ InRing # << >> /\ RxBuf[RxOut] = InRing[1] /\ InRing[1] \in Chars
<1>1. RxIn \in Slots /\ RxOut \in Slots /\ RxIn # RxOut
  BY DEF TypeOK, UartRxEmpty
<1>2. Count' = Count - 1 /\ Count > 0
  BY <1>1, RingAssumption DEF Count, Advanced, Slots
<1>3. \A k \in 1 .. Count - 1 : Slot(k)' = Slot(k + 1)
  BY <1>1, RingAssumption DEF Slot, Advanced, Slots, Count
<1>4. Slot(1) = RxOut
  BY <1>1, RingAssumption DEF Slot, Slots
<1>5. Count \in Nat
  BY <1>1, RingShape
<1>6. InRing' = Tail(InRing)
  BY <1>1, <1>2, <1>3, <1>5, InRingIsASequence DEF InRing
<1>7. \A k \in 1 .. Count - 1 : InRing'[k] = InRing[k + 1]
  BY <1>1, <1>2, <1>3, <1>5 DEF InRing
<1>8. InRing # << >> /\ RxBuf[RxOut] = InRing[1] /\ InRing[1] \in Chars
  BY <1>1, <1>2, <1>4, <1>5, InRingIsASequence DEF InRing, CharInv
<1> QED BY <1>2, <1>6, <1>7, <1>8

LEMMA RingStays ==
  ASSUME UNCHANGED ring
  PROVE  Count' = Count /\ InRing' = InRing
  BY DEF ring, Count, InRing, Slot

-----------------------------------------------------------------------------
(* The arithmetic of lines that overruns have joined.                      *)

LEMMA JoinedBound ==
  ASSUME NEW n \in 0 .. MaxOverruns
  PROVE  /\ n * MaxLine \in Nat
         /\ (n + 1) * MaxLine = n * MaxLine + MaxLine
<1>1. MaxLine \in Nat /\ MaxOverruns \in Nat
  BY LineAssumption
<1> QED BY <1>1, SMT

LEMMA JoinedNow ==
  ASSUME TypeOK
  PROVE  Joined \in Nat /\ (overruns + 1) * MaxLine = Joined + MaxLine
  BY JoinedBound DEF TypeOK, Joined

-----------------------------------------------------------------------------
(* Each part of the invariant is preserved.                                *)

LEMMA InitIInv == Init => IInv
<1> SUFFICES ASSUME Init PROVE IInv
  OBVIOUS
<1>1. Count = 0 /\ LineBuf = << >> /\ ran = << >> /\ at = "poll" /\ sent = 0 /\ overruns = 0
  BY DEF Init, Count
<1>2. Joined = 0
  BY <1>1, LineAssumption DEF Joined
<1>3. TypeOK
  <2>1. RxBuf \in [Slots -> Text \cup {EOL, NoChar}] /\ RxIn \in Slots /\ RxOut \in Slots
    BY RingAssumption DEF Init, Slots
  <2>2. /\ sent \in 0 .. MaxLine /\ overruns \in 0 .. MaxOverruns
        /\ length \in 0 .. LINEBUF_SIZE
    BY LineAssumption DEF Init
  <2>3. << >> \in Seq(Text) /\ Len(<< >>) <= LINEBUF_SIZE
    BY LineAssumption
  <2> QED BY <1>1, <2>1, <2>2, <2>3 DEF TypeOK
<1>4. CharInv
  BY <1>1 DEF CharInv
<1>5. RunInv
  BY <1>1 DEF RunInv
<1>6. LineInv
  BY <1>1, <1>2 DEF LineInv
<1>7. LenInv
  BY <1>1, <1>2, LineAssumption DEF LenInv
<1> QED BY <1>1, <1>3, <1>4, <1>5, <1>6, <1>7, EmptyAssumption
        DEF IInv, LengthInv, LookupInv, RanInv

(* Only the interrupt, the fetch and a reset change the ring.              *)
LEMMA RingSteps ==
  ASSUME TypeOK, [Next]_vars
  PROVE  \/ \E c \in Chars : UartRxInterrupt(c)
         \/ /\ GetChar /\ ~UartRxEmpty /\ RxOut' = Advanced(RxOut) /\ RxIn' = RxIn
            /\ RxBuf' = RxBuf /\ sent' = sent /\ overruns' = overruns
         \/ Reset
         \/ UNCHANGED <<ring, sent>>
  BY DEF Next, LoopStep, Poll, UartRxGetLine, GetChar, NoLine, Cmd_Lookup, Bite,
         Chars, ring, vars

LEMMA ResetRing ==
  ASSUME Reset
  PROVE  Count' = 0 /\ InRing' = << >>
  BY DEF Reset, Count, InRing

LEMMA NextChar == IInv /\ [Next]_vars => CharInv'
<1> SUFFICES ASSUME TypeOK, CharInv, [Next]_vars PROVE CharInv'
  BY DEF IInv
<1>0. Count \in Nat
  BY InRingIsASequence DEF TypeOK
<1>1. ASSUME NEW c \in Chars, UartRxInterrupt(c) PROVE CharInv'
  <2>1. CASE Full
    BY <1>1, <2>1, InterruptDrops DEF CharInv
  <2>2. CASE ~Full
    BY <1>0, <1>1, <2>2, InterruptAdds DEF CharInv
  <2> QED BY <2>1, <2>2
<1>2. ASSUME ~UartRxEmpty, RxOut' = Advanced(RxOut), RxIn' = RxIn, RxBuf' = RxBuf
      PROVE  CharInv'
  BY <1>0, <1>2, FetchTakes DEF CharInv
<1>3. CASE Reset
  BY <1>3, ResetRing DEF CharInv
<1>4. CASE UNCHANGED ring
  BY <1>4, RingStays DEF CharInv
<1> QED BY <1>1, <1>2, <1>3, <1>4, RingSteps

LEMMA NextRun == IInv /\ [Next]_vars => RunInv'
<1> SUFFICES ASSUME TypeOK, CharInv, RunInv, [Next]_vars PROVE RunInv'
  BY DEF IInv
<1>0. Count \in Nat /\ sent \in 0 .. MaxLine /\ MaxLine \in Nat
  BY InRingIsASequence, LineAssumption DEF TypeOK
<1>1. ASSUME NEW c \in Chars, UartRxInterrupt(c) PROVE RunInv'
  <2>1. /\ sent' = IF c = EOL THEN 0 ELSE sent + 1
        /\ c # EOL => sent < MaxLine
    BY <1>1 DEF UartRxInterrupt
  <2>2. CASE Full
    BY <1>0, <1>1, <2>1, <2>2, InterruptDrops DEF RunInv
  <2>3. CASE ~Full
    <3>1. /\ Count' = Count + 1
          /\ \A k \in 1 .. Count : InRing'[k] = InRing[k]
          /\ InRing'[Count + 1] = c
      BY <1>1, <2>3, InterruptAdds
    <3> SUFFICES ASSUME NEW a \in 0 .. Count + 1, NEW b \in 0 .. Count + 1, a <= b,
                        \A k \in a + 1 .. b : InRing'[k] # EOL
                 PROVE  b - a <= IF b = Count + 1 THEN sent' ELSE MaxLine
      BY <3>1 DEF RunInv, TextRun
    <3>2. CASE b <= Count
      <4>1. TextRun(a, b)
        BY <1>0, <3>1, <3>2 DEF TextRun
      <4> QED BY <1>0, <3>2, <4>1 DEF RunInv
    <3>3. CASE b = Count + 1 /\ a = Count + 1
      BY <1>0, <2>1, <3>3
    <3>4. CASE b = Count + 1 /\ a <= Count
      <4>1. c # EOL
        BY <1>0, <3>1, <3>4
      <4>2. TextRun(a, Count)
        BY <1>0, <3>1, <3>4 DEF TextRun
      <4>3. Count - a <= sent
        BY <1>0, <3>4, <4>2 DEF RunInv
      <4> QED BY <1>0, <2>1, <3>4, <4>1, <4>3
    <3> QED BY <1>0, <3>2, <3>3, <3>4
  <2> QED BY <2>2, <2>3
<1>2. ASSUME ~UartRxEmpty, RxOut' = Advanced(RxOut), RxIn' = RxIn, RxBuf' = RxBuf,
             sent' = sent
      PROVE  RunInv'
  <2>1. /\ Count > 0 /\ Count' = Count - 1
        /\ \A k \in 1 .. Count - 1 : InRing'[k] = InRing[k + 1]
    BY <1>2, FetchTakes
  <2> SUFFICES ASSUME NEW a \in 0 .. Count - 1, NEW b \in 0 .. Count - 1, a <= b,
                      \A k \in a + 1 .. b : InRing'[k] # EOL
               PROVE  b - a <= IF b = Count - 1 THEN sent ELSE MaxLine
    BY <1>2, <2>1 DEF RunInv, TextRun
  <2>2. TextRun(a + 1, b + 1)
    <3> SUFFICES ASSUME NEW k \in (a + 1) + 1 .. b + 1 PROVE InRing[k] # EOL
      BY DEF TextRun
    <3>1. k - 1 \in a + 1 .. b /\ k - 1 \in 1 .. Count - 1 /\ (k - 1) + 1 = k
      BY <1>0, <2>1
    <3> QED BY <2>1, <3>1
  <2>3. a + 1 \in 0 .. Count /\ b + 1 \in 0 .. Count /\ a + 1 <= b + 1
    BY <1>0, <2>1
  <2>4. (b + 1) - (a + 1) <= IF b + 1 = Count THEN sent ELSE MaxLine
    BY <2>2, <2>3 DEF RunInv
  <2> QED BY <1>0, <2>4
<1>3. CASE Reset
  <2>1. sent' = sent
    BY <1>3 DEF Reset
  <2> QED BY <1>0, <1>3, <2>1, ResetRing DEF RunInv
<1>4. CASE UNCHANGED <<ring, sent>>
  BY <1>4, RingStays DEF RunInv, TextRun
<1> QED BY <1>1, <1>2, <1>3, <1>4, RingSteps

LEMMA NextCount ==
  ASSUME RxIn' \in Slots, RxOut' \in Slots
  PROVE  Count' \in Nat
<1>1. \A i, o \in Slots :
        (IF i >= o THEN i - o ELSE i - o + UART_BUF_LEN) \in Nat
  BY RingAssumption DEF Slots
<1> QED BY <1>1 DEF Count

(* An empty line buffer joins nothing.                                     *)
LEMMA LineFromEmpty ==
  ASSUME TypeOK', RunInv', LineBuf' = << >>
  PROVE  LineInv'
<1>1. Count' \in Nat /\ sent' \in Nat /\ overruns' \in 0 .. MaxOverruns /\ MaxLine \in Nat
  BY RingAssumption, LineAssumption DEF TypeOK, Count, Slots
<1>2. Joined' \in Nat
  BY <1>1, JoinedBound DEF Joined
<1> SUFFICES ASSUME NEW b \in 0 .. Count', TextRun(0, b)'
             PROVE  b <= Joined' + (IF b = Count' THEN sent' ELSE MaxLine)
  BY DEF LineInv
<1>3. b - 0 <= IF b = Count' THEN sent' ELSE MaxLine
  BY <1>1 DEF RunInv
<1>4. b \in Nat
  BY <1>1
<1> DEFINE j == Joined'
           n == Count'
           t == sent'
<1>5. /\ j \in Nat /\ t \in Nat /\ MaxLine \in Nat
      /\ b - 0 <= IF b = n THEN t ELSE MaxLine
  BY <1>1, <1>2, <1>3
<1> HIDE DEF j, n, t
<1>6. b <= j + (IF b = n THEN t ELSE MaxLine)
  BY <1>4, <1>5
<1> QED BY <1>6 DEF j, n, t

LEMMA NextTypeOK == IInv /\ [Next]_vars => TypeOK'
<1> SUFFICES ASSUME IInv, TypeOK, [Next]_vars PROVE TypeOK'
  BY DEF IInv
<1> USE DEF ring
<1>1. ASSUME NEW c \in Chars, UartRxInterrupt(c) PROVE TypeOK'
  <2>1. RxBuf' \in [Slots -> Text \cup {EOL, NoChar}]
    BY <1>1 DEF UartRxInterrupt, TypeOK, Chars
  <2>2. RxIn' \in Slots
    BY <1>1, AdvancedInSlots DEF UartRxInterrupt, TypeOK
  <2>3. sent' \in 0 .. MaxLine /\ overruns' \in 0 .. MaxOverruns
    BY <1>1, LineAssumption DEF UartRxInterrupt, TypeOK
  <2> QED BY <1>1, <2>1, <2>2, <2>3 DEF UartRxInterrupt, TypeOK
<1>2. CASE Poll
  BY <1>2 DEF Poll, TypeOK
<1>3. CASE UartRxGetLine
  <2>1. length' \in 0 .. LINEBUF_SIZE
    <3>1. Len(LineBuf) \in Nat /\ Len(LineBuf) <= LINEBUF_SIZE
      BY DEF TypeOK
    <3> QED BY <1>3, <3>1, LineAssumption DEF UartRxGetLine
  <2> QED BY <1>3, <2>1 DEF UartRxGetLine, TypeOK
<1>4. CASE GetChar
  <2>1. RxOut' \in Slots
    BY <1>4, AdvancedInSlots DEF GetChar, TypeOK
  <2>2. RxBuf[RxOut] \in Chars
    BY <1>4, FetchTakes DEF GetChar, IInv
  <2>3. length' \in 0 .. LINEBUF_SIZE /\ at' \in {"call", "lookup", "loop"}
    BY <1>4, LineAssumption DEF GetChar, TypeOK
  <2>4. LineBuf' \in Seq(Text) /\ Len(LineBuf') <= LINEBUF_SIZE
    <3>1. \/ LineBuf' = LineBuf
          \/ LineBuf' = Append(LineBuf, RxBuf[RxOut]) /\ RxBuf[RxOut] \in Text
      BY <1>4, <2>2 DEF GetChar, Chars
    <3>2. LineBuf \in Seq(Text) /\ Len(LineBuf) < LINEBUF_SIZE
      BY <1>4, LineAssumption DEF GetChar, TypeOK, IInv, LengthInv
    <3> QED BY <3>1, <3>2, LineAssumption
  <2>5. UNCHANGED <<RxBuf, RxIn, ran, sent, overruns>>
    BY <1>4 DEF GetChar
  <2> QED BY <2>1, <2>3, <2>4, <2>5 DEF TypeOK
<1>5. CASE NoLine
  <2>1. /\ LineBuf' \in Seq(Text) /\ Len(LineBuf') <= LINEBUF_SIZE
        /\ overruns' \in 0 .. MaxOverruns
    <3>1. \/ LineBuf' = << >> /\ overruns' = 0
          \/ LineBuf' = LineBuf /\ overruns' = overruns
      BY <1>5 DEF NoLine, Cleared
    <3>2. /\ LineBuf \in Seq(Text) /\ << >> \in Seq(Text)
          /\ Len(LineBuf) <= LINEBUF_SIZE /\ Len(<< >>) <= LINEBUF_SIZE
          /\ overruns \in 0 .. MaxOverruns /\ 0 \in 0 .. MaxOverruns
      BY LineAssumption DEF TypeOK
    <3> QED BY <3>1, <3>2
  <2>2. length' \in 0 .. LINEBUF_SIZE /\ at' \in {"call", "poll"}
    BY <1>5, LineAssumption DEF NoLine, TypeOK
  <2> QED BY <1>5, <2>1, <2>2 DEF NoLine, TypeOK
<1>6. CASE Cmd_Lookup
  <2>1. /\ LineBuf' \in Seq(Text) /\ Len(LineBuf') <= LINEBUF_SIZE
        /\ ran' \in Seq(Text) /\ overruns' \in 0 .. MaxOverruns
    <3>1. /\ \/ LineBuf' = << >> /\ overruns' = 0
             \/ LineBuf' = LineBuf /\ overruns' = overruns
          /\ ran' = LineBuf
      BY <1>6 DEF Cmd_Lookup, Cleared
    <3>2. /\ LineBuf \in Seq(Text) /\ << >> \in Seq(Text)
          /\ Len(LineBuf) <= LINEBUF_SIZE /\ Len(<< >>) <= LINEBUF_SIZE
          /\ overruns \in 0 .. MaxOverruns /\ 0 \in 0 .. MaxOverruns
      BY LineAssumption DEF TypeOK
    <3> QED BY <3>1, <3>2
  <2>2. at' \in {"call", "hang"}
    BY <1>6 DEF Cmd_Lookup
  <2> QED BY <1>6, <2>1, <2>2 DEF Cmd_Lookup, TypeOK
<1>7. CASE Reset
  <2>1. RxBuf' \in [Slots -> Text \cup {EOL, NoChar}] /\ RxIn' \in Slots /\ RxOut' \in Slots
    BY <1>7, RingAssumption DEF Reset, Slots
  <2>2. /\ overruns' \in 0 .. MaxOverruns /\ length' \in 0 .. LINEBUF_SIZE
        /\ LineBuf' \in Seq(Text) /\ Len(LineBuf') <= LINEBUF_SIZE
        /\ ran' \in Seq(Text) /\ sent' = sent /\ at' = "poll"
    BY <1>7, LineAssumption DEF Reset
  <2> QED BY <2>1, <2>2 DEF TypeOK
<1>8. CASE UNCHANGED vars
  BY <1>8 DEF vars, TypeOK
<1> QED BY <1>1, <1>2, <1>3, <1>4, <1>5, <1>6, <1>7, <1>8 DEF Next, LoopStep, Bite, Chars

LEMMA NextLine == IInv /\ [Next]_vars => LineInv'
<1> SUFFICES ASSUME IInv, TypeOK, CharInv, RunInv, LineInv, [Next]_vars PROVE LineInv'
  BY DEF IInv
<1>0. /\ Count \in Nat /\ sent \in 0 .. MaxLine /\ MaxLine \in Nat
      /\ Joined \in Nat /\ Len(LineBuf) \in Nat
  BY InRingIsASequence, LineAssumption, JoinedNow DEF TypeOK
<1>00. TypeOK' /\ RunInv'
  BY NextTypeOK, NextRun
<1>1. ASSUME NEW c \in Chars, UartRxInterrupt(c) PROVE LineInv'
  <2>1. /\ sent' = IF c = EOL THEN 0 ELSE sent + 1
        /\ c # EOL => sent < MaxLine
        /\ at' = at /\ LineBuf' = LineBuf
        /\ overruns' = IF Full THEN overruns + 1 ELSE overruns
    BY <1>1 DEF UartRxInterrupt
  <2>2. CASE Full /\ at \in {"poll", "call", "loop"}
    <3>1. Joined' = Joined + MaxLine
      BY <2>1, <2>2, JoinedBound DEF TypeOK, Joined
    <3>2. Len(LineBuf) + 0 <= Joined + (IF 0 = Count THEN sent ELSE MaxLine)
      BY <1>0, <2>2 DEF LineInv, TextRun
    <3>3. Count' = 0
      BY <1>1, <2>2, InterruptDrops
    <3> QED BY <1>0, <2>1, <3>1, <3>2, <3>3 DEF LineInv
  <2>3. CASE ~Full /\ at \in {"poll", "call", "loop"}
    <3>1. /\ Count' = Count + 1
          /\ \A k \in 1 .. Count : InRing'[k] = InRing[k]
          /\ InRing'[Count + 1] = c
      BY <1>1, <2>3, InterruptAdds
    <3>2. Joined' = Joined
      BY <2>1, <2>3 DEF Joined
    <3> SUFFICES ASSUME NEW b \in 0 .. Count + 1, \A k \in 0 + 1 .. b : InRing'[k] # EOL
                 PROVE  Len(LineBuf) + b <= Joined + (IF b = Count + 1 THEN sent' ELSE MaxLine)
      BY <2>1, <3>1, <3>2 DEF LineInv, TextRun
    <3>3. CASE b <= Count
      <4>1. TextRun(0, b)
        BY <1>0, <3>1, <3>3 DEF TextRun
      <4>2. Len(LineBuf) + b <= Joined + (IF b = Count THEN sent ELSE MaxLine)
        BY <1>0, <2>3, <3>3, <4>1 DEF LineInv
      <4> QED BY <1>0, <3>3, <4>2
    <3>4. CASE b = Count + 1
      <4>1. c # EOL
        BY <1>0, <3>1, <3>4
      <4>2. TextRun(0, Count)
        BY <1>0, <3>1, <3>4 DEF TextRun
      <4>3. Len(LineBuf) + Count <= Joined + sent
        BY <1>0, <2>3, <4>2 DEF LineInv
      <4> QED BY <1>0, <2>1, <3>4, <4>1, <4>3
    <3> QED BY <1>0, <3>3, <3>4
  <2>4. CASE at \notin {"poll", "call", "loop"}
    BY <2>1, <2>4 DEF LineInv
  <2> QED BY <2>2, <2>3, <2>4
<1>2. ASSUME UNCHANGED <<ring, sent, LineBuf, overruns>>,
             at' \in {"poll", "call", "loop"} => at \in {"poll", "call", "loop"}
      PROVE  LineInv'
  BY <1>2, RingStays DEF LineInv, TextRun, Joined
<1>3. CASE Poll
  BY <1>2, <1>3 DEF Poll
<1>4. CASE UartRxGetLine
  BY <1>2, <1>4 DEF UartRxGetLine
<1>5. CASE GetChar
  <2>1. /\ Count > 0 /\ Count' = Count - 1 /\ RxBuf[RxOut] = InRing[1]
        /\ \A k \in 1 .. Count - 1 : InRing'[k] = InRing[k + 1]
    BY <1>5, FetchTakes DEF GetChar
  <2>2. sent' = sent /\ Joined' = Joined /\ at = "loop"
    BY <1>5 DEF GetChar, Joined
  <2>3. CASE RxBuf[RxOut] = EOL /\ LineBuf = << >>
    <3>1. LineBuf' = << >>
      BY <1>5, <2>3 DEF GetChar
    <3> QED BY <1>00, <3>1, LineFromEmpty
  <2>4. CASE RxBuf[RxOut] = EOL /\ LineBuf # << >>
    BY <1>5, <2>4 DEF GetChar, LineInv
  <2>5. CASE RxBuf[RxOut] # EOL
    <3>1. Len(LineBuf') = Len(LineBuf) + 1
      BY <1>5, <2>5 DEF GetChar, TypeOK
    <3> SUFFICES ASSUME NEW b \in 0 .. Count - 1, \A k \in 0 + 1 .. b : InRing'[k] # EOL
                 PROVE  Len(LineBuf) + 1 + b <= Joined + (IF b = Count - 1 THEN sent ELSE MaxLine)
      BY <2>1, <2>2, <3>1 DEF LineInv, TextRun
    <3>2. TextRun(0, b + 1)
      <4> SUFFICES ASSUME NEW k \in 0 + 1 .. b + 1 PROVE InRing[k] # EOL
        BY DEF TextRun
      <4>1. CASE k = 1
        BY <2>1, <2>5, <4>1
      <4>2. CASE k # 1
        <5>1. k - 1 \in 0 + 1 .. b /\ k - 1 \in 1 .. Count - 1 /\ (k - 1) + 1 = k
          BY <1>0, <2>1, <4>2
        <5> QED BY <2>1, <5>1
      <4> QED BY <4>1, <4>2
    <3>3. Len(LineBuf) + (b + 1) <= Joined + (IF b + 1 = Count THEN sent ELSE MaxLine)
      BY <1>0, <2>1, <2>2, <3>2 DEF LineInv
    <3> QED BY <1>0, <2>1, <3>3
  <2> QED BY <2>3, <2>4, <2>5
<1>6. CASE NoLine
  <2>1. CASE OutOfPlaces
    BY <1>00, <1>6, <2>1, LineFromEmpty DEF NoLine, Cleared
  <2>2. CASE ~OutOfPlaces
    BY <1>2, <1>6, <2>2 DEF NoLine
  <2> QED BY <2>1, <2>2
<1>7. CASE Cmd_Lookup
  <2>1. CASE LineBuf \in Restarts
    BY <1>7, <2>1 DEF Cmd_Lookup, LineInv
  <2>2. CASE LineBuf \notin Restarts
    BY <1>00, <1>7, <2>2, LineFromEmpty DEF Cmd_Lookup, Cleared
  <2> QED BY <2>1, <2>2
<1>8. CASE Reset
  BY <1>00, <1>8, LineFromEmpty DEF Reset
<1>9. CASE UNCHANGED vars
  BY <1>2, <1>9 DEF vars
<1> QED BY <1>1, <1>3, <1>4, <1>5, <1>6, <1>7, <1>8, <1>9 DEF Next, LoopStep, Bite, Chars

LEMMA NextIInv == IInv /\ [Next]_vars => IInv'
<1> SUFFICES ASSUME IInv, TypeOK, [Next]_vars PROVE IInv'
  BY DEF IInv
<1>1. TypeOK' /\ CharInv' /\ RunInv' /\ LineInv'
  BY NextTypeOK, NextChar, NextRun, NextLine
<1>2. LenInv'
  <2>1. CASE at' \in {"poll", "call", "loop"}
    <3>1. /\ Count' \in Nat /\ sent' \in 0 .. MaxLine /\ MaxLine \in Nat
          /\ Len(LineBuf') \in Nat /\ overruns' \in 0 .. MaxOverruns
      <4>1. /\ sent' \in 0 .. MaxLine /\ Len(LineBuf') \in Nat
            /\ overruns' \in 0 .. MaxOverruns /\ RxIn' \in Slots /\ RxOut' \in Slots
        BY <1>1 DEF TypeOK
      <4>2. Count' \in Nat
        BY <4>1, NextCount
      <4> QED BY <4>1, <4>2, LineAssumption
    <3>2. Joined' \in Nat
      BY <3>1, JoinedBound DEF Joined
    <3>3. Len(LineBuf') + 0 <= Joined' + (IF 0 = Count' THEN sent' ELSE MaxLine)
      BY <1>1, <2>1, <3>1 DEF LineInv, TextRun
    <3> QED BY <3>1, <3>2, <3>3 DEF LenInv
  <2>2. CASE at' \notin {"poll", "call", "loop"}
    <3>1. LineBuf' = LineBuf
      BY <2>2 DEF Next, LoopStep, UartRxInterrupt, Poll, UartRxGetLine, GetChar, NoLine,
                  Cmd_Lookup, Bite, Reset, vars
    <3>2. overruns' = overruns \/ overruns' = overruns + 1
      BY <2>2 DEF Next, LoopStep, UartRxInterrupt, Poll, UartRxGetLine, GetChar, NoLine,
                  Cmd_Lookup, Bite, Reset, vars
    <3>3. Joined \in Nat /\ (overruns + 1) * MaxLine = Joined + MaxLine /\ MaxLine \in Nat
      BY JoinedNow, LineAssumption
    <3>4. Joined' = Joined \/ Joined' = Joined + MaxLine
      BY <3>2, <3>3 DEF Joined
    <3>5. Len(LineBuf) \in Nat /\ Len(LineBuf) <= Joined + MaxLine
      BY DEF TypeOK, IInv, LenInv
    <3> QED BY <3>1, <3>3, <3>4, <3>5 DEF LenInv
  <2> QED BY <2>1, <2>2
<1>3. LengthInv' /\ LookupInv' /\ RanInv'
  <2> USE DEF LengthInv, LookupInv, RanInv, ring
  <2>1. LengthInv /\ LookupInv /\ RanInv
    BY DEF IInv
  <2>2. ASSUME NEW c \in Chars, UartRxInterrupt(c) PROVE LengthInv' /\ LookupInv' /\ RanInv'
    BY <2>1, <2>2 DEF UartRxInterrupt
  <2>3. CASE Poll
    BY <2>1, <2>3 DEF Poll
  <2>4. CASE UartRxGetLine
    BY <2>1, <2>4 DEF UartRxGetLine
  <2>5. CASE GetChar
    <3>1. CASE RxBuf[RxOut] = EOL
      BY <2>1, <2>5, <3>1 DEF GetChar
    <3>2. CASE RxBuf[RxOut] # EOL
      <4>1. Len(LineBuf') = Len(LineBuf) + 1 /\ Len(LineBuf) \in Nat
        BY <2>5, <3>2 DEF GetChar, TypeOK
      <4> QED BY <2>1, <2>5, <3>2, <4>1, LineAssumption DEF GetChar
    <3> QED BY <3>1, <3>2
  <2>6. CASE NoLine
    BY <2>1, <2>6 DEF NoLine
  <2>7. CASE Cmd_Lookup
    <3>1. at = "lookup" /\ ran' = LineBuf
      BY <2>7 DEF Cmd_Lookup
    <3> QED BY <2>1, <2>7, <3>1 DEF Cmd_Lookup
  <2>8. CASE Reset
    BY <2>8, EmptyAssumption DEF Reset
  <2>9. CASE UNCHANGED vars
    BY <2>1, <2>9 DEF vars
  <2> QED BY <2>2, <2>3, <2>4, <2>5, <2>6, <2>7, <2>8, <2>9 DEF Next, LoopStep, Bite, Chars
<1> QED BY <1>1, <1>2, <1>3 DEF IInv

LEMMA Inductive == Spec => []IInv
  BY InitIInv, NextIInv, PTL DEF Spec

(* Offsets stay within the ring, and the string within the line buffer, so *)
(* that only its end can lie outside, in the one place behind it.          *)
THEOREM TypeCorrect == Spec => []TypeOK
<1>1. IInv => TypeOK
  BY DEF IInv
<1> QED BY <1>1, Inductive, PTL

(* What lies in the line buffer is no longer than the lines overruns have  *)
(* joined in it, for every size of ring and buffer: the board goes deaf    *)
(* only if they are as long as the buffer.                                 *)
THEOREM NeverDeafByItselfHolds == Spec => []NeverDeafByItself
<1>1. IInv => NeverDeafByItself
  BY JoinedNow DEF IInv, LenInv, NeverDeafByItself
<1> QED BY <1>1, Inductive, PTL

-----------------------------------------------------------------------------
(* The refinement: what a line and its end are, in front of what comes.    *)

LEMMA LineInFront ==
  ASSUME NEW s \in Seq(Text), NEW t \in Seq(Chars), NEW p, p = Append(s, EOL) \o t
  PROVE  /\ Stream!HasLine(p) /\ Stream!LineEnd(p) = Len(s) + 1
         /\ Stream!FirstLine(p) = s /\ Stream!AfterLine(p) = t
<1>1. /\ Len(s) \in Nat /\ Len(t) \in Nat /\ s \in Seq(Chars)
      /\ p \in Seq(Chars) /\ Len(p) = Len(s) + 1 + Len(t)
  BY DEF Chars
<1>2. /\ p[Len(s) + 1] = EOL
      /\ \A k \in 1 .. Len(s) : p[k] = s[k] /\ s[k] \in Text
      /\ \A k \in 1 .. Len(t) : p[Len(s) + 1 + k] = t[k]
  BY <1>1 DEF Chars
<1>3. \A k \in 1 .. Len(s) : p[k] # EOL
  BY <1>2, CharAssumption
<1>4. Stream!HasLine(p)
  BY <1>1, <1>2 DEF Stream!HasLine
<1>5. Stream!LineEnd(p) = Len(s) + 1
  <2> DEFINE First(i) == p[i] = EOL /\ \A j \in 1 .. i - 1 : p[j] # EOL
  <2>1. Len(s) + 1 \in 1 .. Len(p) /\ First(Len(s) + 1)
    BY <1>1, <1>2, <1>3
  <2>2. \A i \in 1 .. Len(p) : First(i) => i = Len(s) + 1
    BY <1>1, <1>2, <1>3
  <2>3. Stream!LineEnd(p) = CHOOSE i \in 1 .. Len(p) : First(i)
    BY DEF Stream!LineEnd
  <2> HIDE DEF First
  <2> QED BY <2>1, <2>2, <2>3
<1>6. SubSeq(p, 1, Len(s)) = s
  <2>1. /\ SubSeq(p, 1, Len(s)) \in Seq(Chars)
        /\ Len(SubSeq(p, 1, Len(s))) = Len(s)
        /\ \A k \in 1 .. Len(s) : SubSeq(p, 1, Len(s))[k] = s[k]
    BY <1>1, <1>2
  <2> QED BY <1>1, <2>1, SeqEqual
<1>7. SubSeq(p, Len(s) + 1 + 1, Len(p)) = t
  <2>1. /\ SubSeq(p, Len(s) + 1 + 1, Len(p)) \in Seq(Chars)
        /\ Len(SubSeq(p, Len(s) + 1 + 1, Len(p))) = Len(t)
        /\ \A k \in 1 .. Len(t) :
             SubSeq(p, Len(s) + 1 + 1, Len(p))[k] = p[Len(s) + 1 + k]
    BY <1>1
  <2> QED BY <1>1, <1>2, <2>1, SeqEqual
<1>8. (Len(s) + 1) - 1 = Len(s)
  BY <1>1
<1> QED BY <1>4, <1>5, <1>6, <1>7, <1>8 DEF Stream!FirstLine, Stream!AfterLine

(* What is pending for the abstract end.                                   *)
Waiting == Fetched \o InRing

LEMMA FetchedIsASequence ==
  ASSUME TypeOK
  PROVE  Fetched \in Seq(Chars) /\ LineBuf \in Seq(Chars)
<1>1. LineBuf \in Seq(Chars) /\ EOL \in Chars /\ << >> \in Seq(Chars)
  BY DEF TypeOK, Chars
<1>2. Append(LineBuf, EOL) \in Seq(Chars)
  BY <1>1
<1> QED BY <1>1, <1>2 DEF Fetched

LEMMA RefinesInterrupt ==
  ASSUME IInv, NEW c \in Chars, UartRxInterrupt(c)
  PROVE  Stream!Next
<1>0. TypeOK /\ CharInv /\ RxIn \in Slots /\ RxOut \in Slots
  BY DEF IInv, TypeOK
<1>1. /\ Fetched \in Seq(Chars) /\ InRing \in Seq(Chars) /\ Len(InRing) = Count
      /\ Count \in Nat /\ Waiting \in Seq(Chars) /\ Len(Waiting) = Len(Fetched) + Count
      /\ Len(Fetched) \in Nat
  BY <1>0, InRingIsASequence, FetchedIsASequence DEF Waiting
<1>2. Fetched' = Fetched /\ ran' = ran
  BY DEF UartRxInterrupt, Fetched
<1>3. CASE ~Full
  <2>1. InRing' = Append(InRing, c)
    BY <1>0, <1>3, InterruptAdds
  <2>2. Waiting' = Append(Waiting, c)
    BY <1>1, <1>2, <2>1, ConcatAppend DEF Waiting
  <2>3. Stream!Receive(c)
    BY <1>2, <2>2 DEF Stream!Receive, Waiting
  <2> QED BY <2>3 DEF Stream!Next, Chars
<1>4. CASE Full
  <2>1. InRing' = << >> /\ Count = UART_BUF_LEN - 1
    BY <1>0, <1>4, InterruptDrops, RingShape
  <2>2. Waiting' = Fetched
    BY <1>1, <1>2, <2>1 DEF Waiting
  <2>3. SubSeq(Waiting, 1, Len(Waiting) - (UART_BUF_LEN - 1)) = Fetched
    BY <1>1, <2>1, DropEnd DEF Waiting
  <2>4. Len(Waiting) >= UART_BUF_LEN - 1
    BY <1>1, <2>1
  <2>5. Stream!Overrun
    BY <1>2, <2>2, <2>3, <2>4 DEF Stream!Overrun, Waiting
  <2> QED BY <2>5 DEF Stream!Next
<1> QED BY <1>3, <1>4

(* An empty line is taken from the front at once.                          *)
LEMMA RefinesFetch ==
  ASSUME IInv, GetChar
  PROVE  Stream!Next \/ UNCHANGED Stream!vars
<1>0. /\ TypeOK /\ CharInv /\ RxIn \in Slots /\ RxOut \in Slots /\ at = "loop"
      /\ RanInv /\ ran' = ran
  BY DEF IInv, TypeOK, GetChar
<1>1. /\ LineBuf \in Seq(Chars) /\ InRing \in Seq(Chars) /\ Fetched = LineBuf
  BY <1>0, InRingIsASequence, FetchedIsASequence DEF Fetched
<1>2. /\ InRing' = Tail(InRing) /\ InRing # << >> /\ RxBuf[RxOut] = InRing[1]
  BY <1>0, FetchTakes DEF GetChar
<1>3. CASE InRing[1] # EOL
  <2>1. LineBuf' = Append(LineBuf, InRing[1]) /\ at' = "loop"
    BY <1>0, <1>2, <1>3 DEF GetChar
  <2>2. Waiting' = Waiting
    BY <1>1, <1>2, <2>1, MoveHead DEF Waiting, Fetched
  <2> QED BY <1>0, <2>2 DEF Stream!vars, Waiting
<1>4. CASE InRing[1] = EOL /\ LineBuf # << >>
  <2>1. LineBuf' = LineBuf /\ at' = "lookup"
    BY <1>0, <1>2, <1>4 DEF GetChar
  <2>2. Fetched' = Append(LineBuf, InRing[1])
    BY <1>4, <2>1 DEF Fetched
  <2>3. Waiting' = Waiting
    BY <1>1, <1>2, <2>2, MoveHead DEF Waiting
  <2> QED BY <1>0, <2>3 DEF Stream!vars, Waiting
<1>5. CASE InRing[1] = EOL /\ LineBuf = << >>
  <2>1. LineBuf' = << >> /\ at' = "call"
    BY <1>0, <1>2, <1>5 DEF GetChar
  <2>2. /\ Tail(InRing) \in Seq(Chars) /\ << >> \in Seq(Chars) /\ << >> \in Seq(Text)
        /\ << >> \o InRing = InRing /\ << >> \o Tail(InRing) = Tail(InRing)
    BY <1>1, <1>2
  <2>3. Waiting = InRing /\ Waiting' = Tail(InRing)
    BY <1>1, <1>2, <1>5, <2>1, <2>2 DEF Waiting, Fetched
  <2>4. Waiting = Append(<< >>, EOL) \o Tail(InRing)
    BY <1>1, <1>2, <1>5, <2>2, <2>3, MoveHead
  <2>5. /\ Stream!HasLine(Waiting) /\ Stream!FirstLine(Waiting) = << >>
        /\ Stream!AfterLine(Waiting) = Waiting'
    BY <2>2, <2>3, <2>4, LineInFront
  <2>6. ~IsRestart(ran) /\ LastLine(ran, << >>) = ran
    BY <1>0 DEF RanInv, IsRestart, LastLine
  <2>7. Stream!TakeLine
    BY <1>0, <2>5, <2>6 DEF Stream!TakeLine, Waiting
  <2> QED BY <2>7 DEF Stream!Next
<1> QED BY <1>3, <1>4, <1>5

LEMMA RefinesNoLine ==
  ASSUME IInv, NoLine
  PROVE  Stream!Next \/ UNCHANGED Stream!vars
<1>0. /\ TypeOK /\ CharInv /\ RxIn \in Slots /\ RxOut \in Slots /\ at = "loop"
      /\ LengthInv /\ ran' = ran /\ InRing' = InRing
  BY RingStays DEF IInv, TypeOK, NoLine
<1>1. CASE ~OutOfPlaces
  BY <1>0, <1>1 DEF NoLine, Stream!vars, Fetched
<1>2. CASE OutOfPlaces
  <2>1. /\ Len(LineBuf) = LINEBUF_SIZE - 1 /\ UartRxEmpty /\ LineBuf \in Seq(Text)
        /\ Len(LineBuf) \in Nat
    BY <1>0, <1>2, LineAssumption DEF OutOfPlaces, LengthInv, NoLine, TypeOK
  <2>2. InRing = << >>
    BY <1>0, <2>1, RingShape, InRingIsASequence
  <2>3. LineBuf \o << >> = LineBuf /\ << >> \o << >> = << >>
    BY <2>1
  <2>4. Waiting = LineBuf /\ Waiting' = << >>
    BY <1>0, <1>2, <2>2, <2>3 DEF Waiting, Fetched, NoLine, Cleared
  <2>5. ~Stream!HasLine(LineBuf)
    BY <2>1, CharAssumption DEF Stream!HasLine
  <2>6. Stream!GiveUp
    BY <1>0, <2>1, <2>4, <2>5 DEF Stream!GiveUp, Waiting
  <2> QED BY <2>6 DEF Stream!Next
<1> QED BY <1>1, <1>2

(* The line that is handed over is the first one.                          *)
LEMMA RefinesLookup ==
  ASSUME IInv, Cmd_Lookup
  PROVE  Stream!Next
<1>0. /\ TypeOK /\ CharInv /\ RxIn \in Slots /\ RxOut \in Slots /\ at = "lookup"
      /\ LineBuf # << >> /\ LineBuf \in Seq(Text) /\ RanInv
      /\ ran' = LineBuf /\ InRing' = InRing
  BY RingStays DEF IInv, TypeOK, Cmd_Lookup, LookupInv
<1>1. InRing \in Seq(Chars) /\ << >> \o InRing = InRing
  BY <1>0, InRingIsASequence
<1>2. Waiting = Append(LineBuf, EOL) \o InRing
  BY <1>0 DEF Waiting, Fetched
<1>3. Fetched' = << >>
  BY DEF Cmd_Lookup, Cleared, Fetched
<1>4. Waiting' = InRing
  BY <1>0, <1>1, <1>3 DEF Waiting
<1>5. /\ Stream!HasLine(Waiting) /\ Stream!FirstLine(Waiting) = LineBuf
      /\ Stream!AfterLine(Waiting) = Waiting'
  BY <1>0, <1>1, <1>2, <1>4, LineInFront
<1>6. ~IsRestart(ran) /\ LastLine(ran, LineBuf) = LineBuf
  BY <1>0 DEF RanInv, IsRestart, LastLine
<1>7. Stream!TakeLine
  BY <1>0, <1>5, <1>6 DEF Stream!TakeLine, Waiting
<1> QED BY <1>7 DEF Stream!Next

LEMMA RefinesReset ==
  ASSUME Reset
  PROVE  Stream!Next
<1>1. InRing' = << >> /\ Fetched' = << >> /\ ran' = << >>
  BY ResetRing DEF Reset, Fetched
<1>2. Waiting' = << >>
  BY <1>1 DEF Waiting
<1>3. Stream!Reset
  BY <1>1, <1>2 DEF Stream!Reset, Waiting
<1> QED BY <1>3 DEF Stream!Next

LEMMA StepRefines == IInv /\ [Next]_vars => [Stream!Next]_(Stream!vars)
<1> SUFFICES ASSUME IInv, [Next]_vars PROVE Stream!Next \/ UNCHANGED Stream!vars
  OBVIOUS
<1>1. ASSUME NEW c \in Chars, UartRxInterrupt(c) PROVE Stream!Next
  BY <1>1, RefinesInterrupt
<1>2. ASSUME UNCHANGED <<ring, LineBuf, ran>>, Fetched' = Fetched
      PROVE  UNCHANGED Stream!vars
  BY <1>2, RingStays DEF Stream!vars
<1>3. CASE Poll
  <2>1. Fetched' = Fetched
    BY <1>3 DEF Poll, Fetched
  <2> QED BY <1>2, <1>3, <2>1 DEF Poll
<1>4. CASE UartRxGetLine
  <2>1. Fetched' = Fetched
    BY <1>4 DEF UartRxGetLine, Fetched
  <2> QED BY <1>2, <1>4, <2>1 DEF UartRxGetLine
<1>5. CASE UNCHANGED vars
  BY <1>2, <1>5 DEF vars, Fetched
<1> QED BY <1>1, <1>3, <1>4, <1>5, RefinesFetch, RefinesNoLine, RefinesLookup, RefinesReset
        DEF Next, LoopStep, Bite, Chars

(* Lines are handed to Cmd_Lookup in the order in which they came, each    *)
(* once and complete; what is lost, is lost from the end, and what comes   *)
(* after restart is not obeyed before the reset.                           *)
THEOREM StreamKept == Spec => KeepsStream
<1>1. Init => Stream!Init
  <2> SUFFICES ASSUME Init PROVE Stream!Init
    OBVIOUS
  <2>1. Fetched = << >> /\ InRing = << >> /\ ran = << >>
    BY DEF Init, Fetched, InRing, Count
  <2> QED BY <2>1 DEF Stream!Init
<1>2. IInv /\ [Next]_vars => [Stream!Next]_(Stream!vars)
  BY StepRefines
<1> QED BY <1>1, <1>2, Inductive, PTL DEF Spec, KeepsStream, Stream!Spec
=============================================================================
