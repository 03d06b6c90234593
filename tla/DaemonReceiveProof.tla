------------------------- MODULE DaemonReceiveProof -------------------------
(***************************************************************************)
(* Proofs about DaemonReceive, for any texts, any buffer and any string in *)
(* it at the start, and any lengths of lines and of what arrives between   *)
(* two reads, as long as a line fits in the port.                          *)
(***************************************************************************)
EXTENDS DaemonReceive, SequenceTheorems, FiniteSetTheorems, WellFoundedInduction, TLAPS

(* What comes behind the second of two pieces comes behind both.           *)
LEMMA ConcatAppend ==
  ASSUME NEW S, NEW s \in Seq(S), NEW t \in Seq(S), NEW e \in S
  PROVE  s \o Append(t, e) = Append(s \o t, e)
<1>1. /\ s \o Append(t, e) \in Seq(S) /\ Append(s \o t, e) \in Seq(S)
      /\ Len(s \o Append(t, e)) = Len(s) + Len(t) + 1
      /\ Len(Append(s \o t, e)) = Len(s) + Len(t) + 1
      /\ Len(s) \in Nat /\ Len(t) \in Nat
  OBVIOUS
<1>2. \A k \in 1 .. Len(s) + Len(t) + 1 : (s \o Append(t, e))[k] = Append(s \o t, e)[k]
  BY <1>1
<1> QED BY <1>1, <1>2, SeqEqual

(* A set of natural numbers has a smallest one.                            *)
LEMMA SmallestNumber ==
  ASSUME NEW S \in SUBSET Nat, S # {}
  PROVE  \E m \in S : \A k \in S : m <= k
<1> DEFINE R == OpToRel(<, Nat)
<1>1. \E m \in S : \A k \in S : ~ (<<k, m>> \in R)
  BY NatLessThanWellFounded, WFMin
<1>2. \A k, m \in Nat : <<k, m>> \in R <=> k < m
  BY DEF OpToRel
<1> HIDE DEF R
<1>3. PICK m \in S : \A k \in S : ~ (<<k, m>> \in R)
  BY <1>1
<1>4. ASSUME NEW k \in S PROVE m <= k
  <2>1. k \in Nat /\ m \in Nat /\ ~ (k < m)
    BY <1>2, <1>3
  <2> QED BY <2>1
<1> QED BY <1>3, <1>4

-----------------------------------------------------------------------------
Chars == Text \cup {EOL}

-----------------------------------------------------------------------------
(* The first end of a line.                                                *)

LEMMA FirstEnd ==
  ASSUME NEW s \in Seq(Chars), HasLine(s)
  PROVE  /\ LineEnd(s) \in 1 .. Len(s) /\ s[LineEnd(s)] = EOL
         /\ \A j \in 1 .. LineEnd(s) - 1 : s[j] # EOL
<1> DEFINE Ends == {i \in 1 .. Len(s) : s[i] = EOL}
<1>1. Len(s) \in Nat /\ Ends \in SUBSET Nat /\ Ends # {}
  BY DEF HasLine
<1>2. PICK m \in Ends : \A k \in Ends : m <= k
  BY <1>1, SmallestNumber
<1>3. \A j \in 1 .. m - 1 : j \in 1 .. Len(s) /\ ~ (m <= j)
  BY <1>1, <1>2
<1>4. m \in 1 .. Len(s) /\ s[m] = EOL /\ \A j \in 1 .. m - 1 : s[j] # EOL
  BY <1>2, <1>3
<1> QED BY <1>4 DEF LineEnd

LEMMA OnlyFirstEnd ==
  ASSUME NEW s \in Seq(Chars), NEW i \in 1 .. Len(s), s[i] = EOL,
         \A j \in 1 .. i - 1 : s[j] # EOL
  PROVE  HasLine(s) /\ LineEnd(s) = i
<1>1. HasLine(s)
  BY DEF HasLine
<1>2. Len(s) \in Nat
  OBVIOUS
<1>3. /\ LineEnd(s) \in 1 .. Len(s) /\ s[LineEnd(s)] = EOL
      /\ \A j \in 1 .. LineEnd(s) - 1 : s[j] # EOL
  BY <1>1, FirstEnd
<1>4. ~ (LineEnd(s) < i) /\ ~ (i < LineEnd(s))
  BY <1>2, <1>3
<1> QED BY <1>1, <1>2, <1>3, <1>4

LEMMA LineTaken ==
  ASSUME NEW s \in Seq(Chars), HasLine(s)
  PROVE  /\ ThisLine(s) \in Seq(Text) /\ Len(ThisLine(s)) = LineEnd(s) - 1
         /\ \A k \in 1 .. LineEnd(s) - 1 : ThisLine(s)[k] = s[k]
         /\ NextLines(s) \in Seq(Chars) /\ Len(NextLines(s)) = Len(s) - LineEnd(s)
         /\ \A k \in 1 .. Len(s) - LineEnd(s) : NextLines(s)[k] = s[LineEnd(s) + k]
<1> DEFINE e == LineEnd(s)
<1>1. /\ e \in 1 .. Len(s) /\ Len(s) \in Nat
      /\ \A k \in 1 .. Len(s) : s[k] \in Chars
      /\ \A k \in 1 .. e - 1 : s[k] # EOL
  BY FirstEnd
<1> HIDE DEF e
<1>2. \A k \in 1 .. e - 1 : s[k] \in Text
  BY <1>1 DEF Chars
<1>3. /\ SubSeq(s, 1, e - 1) \in Seq(Text) /\ Len(SubSeq(s, 1, e - 1)) = e - 1
      /\ \A k \in 1 .. e - 1 : SubSeq(s, 1, e - 1)[k] = s[k]
  BY <1>1, <1>2, SubSeqProperties
<1>4. /\ SubSeq(s, e + 1, Len(s)) \in Seq(Chars)
      /\ Len(SubSeq(s, e + 1, Len(s))) = Len(s) - e
      /\ \A k \in 1 .. Len(s) - e : SubSeq(s, e + 1, Len(s))[k] = s[e + k]
  BY <1>1
<1> QED BY <1>3, <1>4 DEF e, ThisLine, NextLines

LEMMA ReceivedType ==
  ASSUME NEW v \in [Sensors -> Readings \cup {0}], NEW text \in Seq(Text)
  PROVE  Received(v, text) \in [Sensors -> Readings \cup {0}]
<1>1. CASE IsReport(text) /\ Head(text).reading # NoReading
  <2>1. Head(text) \in Reports
    BY <1>1 DEF IsReport
  <2>2. Head(text).of \in Sensors /\ Head(text).reading \in Readings
    BY <1>1, <2>1 DEF Reports
  <2> QED BY <1>1, <2>2 DEF Received
<1>2. CASE ~(IsReport(text) /\ Head(text).reading # NoReading)
  BY <1>2 DEF Received
<1> QED BY <1>1, <1>2

-----------------------------------------------------------------------------
(* Types.                                                                  *)

LEMMA ReadTakes ==
  ASSUME TypeOK, Read
  PROVE  /\ chunk' \in 1 .. Len(port) /\ Len(port) \in Nat /\ Len(readBuf) \in Nat
         /\ readBuf' \in Seq(Chars) /\ Len(readBuf') = Len(readBuf) + chunk'
         /\ port' \in Seq(Chars) /\ Len(port') = Len(port) - chunk'
         /\ readBuf' \o port' = readBuf \o port
<1>1. /\ port \in Seq(Chars) /\ readBuf \in Seq(Chars) /\ port # << >>
      /\ Len(port) \in Nat /\ Len(readBuf) \in Nat /\ Room > 0 /\ BufSize \in Nat
      /\ Len(port) > 0
  BY RoomAssumption DEF TypeOK, Read, Chars
<1>2. chunk' \in 1 .. Len(port)
  BY <1>1 DEF Read, Room
<1> DEFINE c == chunk'
<1>3. c \in 1 .. Len(port)
  BY <1>2
<1> HIDE DEF c
<1>4. /\ SubSeq(port, 1, c) \in Seq(Chars) /\ Len(SubSeq(port, 1, c)) = c
      /\ SubSeq(port, c + 1, Len(port)) \in Seq(Chars)
      /\ Len(SubSeq(port, c + 1, Len(port))) = Len(port) - c
  BY <1>1, <1>3
<1>5. SubSeq(port, 1, c) \o SubSeq(port, c + 1, Len(port)) = port
  BY <1>1, <1>3, ConcatAdjacentSubSeq, SubSeqFull
<1>6. /\ readBuf \o SubSeq(port, 1, c) \in Seq(Chars)
      /\ Len(readBuf \o SubSeq(port, 1, c)) = Len(readBuf) + c
  BY <1>1, <1>4
<1>7. (readBuf \o SubSeq(port, 1, c)) \o SubSeq(port, c + 1, Len(port)) = readBuf \o port
  <2> DEFINE front == SubSeq(port, 1, c)
             back  == SubSeq(port, c + 1, Len(port))
  <2>1. \A a, b \in Seq(Chars) : (readBuf \o a) \o b = readBuf \o (a \o b)
    BY <1>1, ConcatAssociative
  <2>2. front \in Seq(Chars) /\ back \in Seq(Chars) /\ front \o back = port
    BY <1>4, <1>5
  <2> HIDE DEF front, back
  <2>3. (readBuf \o front) \o back = readBuf \o (front \o back)
    BY Zenon, <2>1, <2>2
  <2>4. (readBuf \o front) \o back = readBuf \o port
    BY Zenon, <2>2, <2>3
  <2> QED BY Zenon, <2>4 DEF front, back
<1>8. /\ readBuf' = readBuf \o SubSeq(port, 1, c)
      /\ port' = SubSeq(port, c + 1, Len(port))
  BY Zenon DEF Read, c, FromLastRound
<1> QED BY <1>1, <1>2, <1>4, <1>6, <1>7, <1>8 DEF c

(* The ends of lines are places in the string.                             *)
LEMMA UnknownEnds ==
  ASSUME NEW s \in Seq(Chars)
  PROVE  /\ Unknown(s) \subseteq 1 .. Len(s) /\ IsFiniteSet(Unknown(s))
         /\ Cardinality(Unknown(s)) \in 0 .. Len(s)
<1>1. Len(s) \in Nat /\ Unknown(s) \in SUBSET (1 .. Len(s))
  BY DEF Unknown
<1>2. IsFiniteSet(1 .. Len(s)) /\ Cardinality(1 .. Len(s)) = Len(s)
  <2>1. ASSUME NEW n \in Nat PROVE IsFiniteSet(1 .. n) /\ Cardinality(1 .. n) = n
    <3>1. 1 \in Int /\ n \in Int /\ (IF 1 > n THEN 0 ELSE n - 1 + 1) = n
      OBVIOUS
    <3> QED BY <3>1, FS_Interval
  <2> QED BY <1>1, <2>1
<1>3. IsFiniteSet(Unknown(s)) /\ Cardinality(Unknown(s)) <= Len(s)
  BY <1>1, <1>2, FS_Subset
<1>4. Cardinality(Unknown(s)) \in Nat
  BY <1>3, FS_CardinalityType
<1> QED BY <1>1, <1>3, <1>4

LEMMA InitTypes == Init => TypeOK
<1> SUFFICES ASSUME Init PROVE TypeOK
  OBVIOUS
<1>1. readBuf \in Seq(Text \cup {EOL}) /\ Len(readBuf) <= BufSize
  BY LeftoverAssumption DEF Init
<1>2. Cardinality(Unknown(readBuf)) \in 0 .. Len(readBuf)
  BY <1>1, UnknownEnds DEF Chars
<1>3. MaxChunk \in Nat /\ MaxTexts \in Nat /\ BufSize \in Nat /\ Len(readBuf) \in Nat
  BY <1>1, RoomAssumption
<1>4. found \in 0 .. BufSize /\ peak \in 0 .. BufSize
  BY <1>1, <1>2, <1>3 DEF Init
<1> QED BY <1>1, <1>3, <1>4 DEF Init, TypeOK

LEMMA StepTypes == TypeOK /\ [Next]_vars => TypeOK'
<1> SUFFICES ASSUME TypeOK, [Next]_vars PROVE TypeOK'
  OBVIOUS
<1> USE DEF history
<1>0. /\ MaxChunk \in Nat /\ MaxTexts \in Nat /\ BufSize \in Nat
      /\ Len(port) \in Nat /\ Len(readBuf) \in Nat
  BY RoomAssumption DEF TypeOK
<1>1. ASSUME NEW c \in Text \cup {EOL}, Len(port) < MaxChunk, port' = Append(port, c),
             printed' \in 0 .. MaxTexts, UNCHANGED <<readBuf, value, at, history>>
      PROVE TypeOK'
  <2>1. port' \in Seq(Text \cup {EOL}) /\ Len(port') <= MaxChunk
    BY <1>0, <1>1 DEF TypeOK
  <2> QED BY <1>1, <2>1 DEF TypeOK
<1>2. ASSUME NEW t \in Text, Prints(t) PROVE TypeOK'
  <2>1. printed' \in 0 .. MaxTexts
    BY <1>0, <1>2 DEF Prints, TypeOK
  <2> QED BY <1>1, <1>2, <2>1 DEF Prints
<1>3. CASE PrintsEnd
  BY <1>0, <1>1, <1>3 DEF PrintsEnd
<1>4. CASE NothingRead
  BY <1>4 DEF NothingRead, vars, TypeOK
<1>5. CASE Read
  <2>1. /\ chunk' \in 1 .. Len(port) /\ Len(port') = Len(port) - chunk'
        /\ readBuf' \in Seq(Text \cup {EOL}) /\ port' \in Seq(Text \cup {EOL})
        /\ Len(readBuf') = Len(readBuf) + chunk'
    BY <1>5, ReadTakes DEF Chars
  <2>2. Len(port) <= MaxChunk /\ chunk' <= BufSize - Len(readBuf)
    BY <1>0, <1>5 DEF Read, Room, TypeOK
  <2>3. Len(port') <= MaxChunk /\ chunk' \in 0 .. MaxChunk /\ Len(readBuf') <= BufSize
    BY <1>0, <2>1, <2>2
  <2>4. Cardinality(Unknown(readBuf')) \in 0 .. Len(readBuf')
    BY <2>1, UnknownEnds DEF Chars
  <2>5. peak \in 0 .. BufSize /\ Len(readBuf') \in Nat
    BY <2>1 DEF TypeOK
  <2>6. peak' = IF Cardinality(Unknown(readBuf')) > peak + 1
                THEN Cardinality(Unknown(readBuf')) - 1 ELSE peak
    BY <1>5 DEF Read
  <2>7. peak' \in 0 .. BufSize
    BY <1>0, <2>3, <2>4, <2>5, <2>6
  <2>8. at' = "parse" /\ UNCHANGED <<value, printed, found>>
    BY <1>5 DEF Read
  <2> QED BY <2>1, <2>3, <2>7, <2>8 DEF TypeOK
<1>6. CASE ProcessString
  <2>1. CASE HasLine(readBuf)
    <3>1. /\ ThisLine(readBuf) \in Seq(Text) /\ NextLines(readBuf) \in Seq(Text \cup {EOL})
          /\ Len(NextLines(readBuf)) = Len(readBuf) - LineEnd(readBuf)
          /\ LineEnd(readBuf) \in 1 .. Len(readBuf)
      BY <2>1, LineTaken, FirstEnd DEF TypeOK, Chars
    <3>2. Received(value, ThisLine(readBuf)) \in [Sensors -> Readings \cup {0}]
      BY <3>1, ReceivedType DEF TypeOK
    <3>3. Len(NextLines(readBuf)) <= BufSize
      <4>1. Len(readBuf) <= BufSize
        BY DEF TypeOK
      <4> QED BY <1>0, <3>1, <4>1
    <3>4. /\ value' = Received(value, ThisLine(readBuf)) /\ readBuf' = NextLines(readBuf)
          /\ at' \in {"select", "parse"} /\ UNCHANGED <<port, printed, history>>
      BY <1>6, <2>1 DEF ProcessString
    <3> QED BY <3>1, <3>2, <3>3, <3>4 DEF TypeOK
  <2>2. CASE ~HasLine(readBuf)
    BY <1>6, <2>2 DEF ProcessString, TypeOK
  <2> QED BY <2>1, <2>2
<1>7. CASE UNCHANGED vars
  BY <1>7 DEF vars, TypeOK
<1> QED BY <1>2, <1>3, <1>4, <1>5, <1>6, <1>7 DEF Next

(* The string in readBuf is never longer than the buffer, only its end may *)
(* lie one place outside; and a reading is one that a report of the board  *)
(* named, whatever its lines look like.                                    *)
THEOREM TypeCorrect == Spec => []TypeOK
  BY InitTypes, StepTypes, PTL DEF Spec

-----------------------------------------------------------------------------
(* The refinement.                                                         *)

(* What is taken from the buffer is the first line of all that came.       *)
LEMMA LineInFront ==
  ASSUME NEW s \in Seq(Chars), NEW t \in Seq(Chars), HasLine(s)
  PROVE  /\ Stream!HasLine(s \o t) /\ Stream!FirstLine(s \o t) = ThisLine(s)
         /\ Stream!AfterLine(s \o t) = NextLines(s) \o t
<1> DEFINE e == LineEnd(s)
           p == s \o t
<1>1. /\ e \in 1 .. Len(s) /\ s[e] = EOL /\ \A j \in 1 .. e - 1 : s[j] # EOL
      /\ Len(s) \in Nat /\ Len(t) \in Nat
  BY FirstEnd
<1>2. /\ p \in Seq(Chars) /\ Len(p) = Len(s) + Len(t)
      /\ \A k \in 1 .. Len(s) : p[k] = s[k]
      /\ \A k \in 1 .. Len(t) : p[Len(s) + k] = t[k]
  BY <1>1
<1> HIDE DEF e, p
<1>3. e \in 1 .. Len(p) /\ p[e] = EOL /\ \A j \in 1 .. e - 1 : p[j] # EOL
  BY <1>1, <1>2
<1>4. HasLine(p) /\ LineEnd(p) = e
  BY <1>2, <1>3, OnlyFirstEnd
<1>5. Stream!HasLine(p) /\ Stream!LineEnd(p) = e
  BY <1>4 DEF Stream!HasLine, Stream!LineEnd, HasLine, LineEnd
<1>6. /\ ThisLine(s) \in Seq(Text) /\ Len(ThisLine(s)) = e - 1
      /\ \A k \in 1 .. e - 1 : ThisLine(s)[k] = s[k]
      /\ NextLines(s) \in Seq(Chars) /\ Len(NextLines(s)) = Len(s) - e
      /\ \A k \in 1 .. Len(s) - e : NextLines(s)[k] = s[e + k]
  BY LineTaken DEF e
<1>7. /\ ThisLine(p) \in Seq(Text) /\ Len(ThisLine(p)) = e - 1
      /\ \A k \in 1 .. e - 1 : ThisLine(p)[k] = p[k]
      /\ NextLines(p) \in Seq(Chars) /\ Len(NextLines(p)) = Len(p) - e
      /\ \A k \in 1 .. Len(p) - e : NextLines(p)[k] = p[e + k]
  BY <1>2, <1>4, LineTaken
<1>8. ThisLine(p) = ThisLine(s)
  BY <1>1, <1>2, <1>6, <1>7, SeqEqual
<1>9. NextLines(p) = NextLines(s) \o t
  <2>1. /\ NextLines(s) \o t \in Seq(Chars)
        /\ Len(NextLines(s) \o t) = Len(s) - e + Len(t)
        /\ \A k \in 1 .. Len(s) - e + Len(t) :
             (NextLines(s) \o t)[k] = IF k <= Len(s) - e THEN NextLines(s)[k]
                                                         ELSE t[k - (Len(s) - e)]
    <3> DEFINE n == NextLines(s)
    <3>1. n \in Seq(Chars) /\ Len(n) = Len(s) - e
      BY <1>6
    <3> HIDE DEF n
    <3>2. /\ n \o t \in Seq(Chars) /\ Len(n \o t) = Len(n) + Len(t)
          /\ \A k \in 1 .. Len(n) + Len(t) :
               (n \o t)[k] = IF k <= Len(n) THEN n[k] ELSE t[k - Len(n)]
      BY <3>1, ConcatProperties
    <3> QED BY <3>1, <3>2 DEF n
  <2>2. ASSUME NEW k \in 1 .. Len(s) - e + Len(t)
        PROVE  NextLines(p)[k] = (NextLines(s) \o t)[k]
    <3>1. NextLines(p)[k] = p[e + k]
      BY <1>1, <1>2, <1>7
    <3>2. CASE k <= Len(s) - e
      <4>1. e + k \in 1 .. Len(s) /\ k \in 1 .. Len(s) - e
        BY <1>1, <3>2
      <4> QED BY <1>2, <1>6, <2>1, <3>1, <3>2, <4>1
    <3>3. CASE ~(k <= Len(s) - e)
      <4>1. k - (Len(s) - e) \in 1 .. Len(t) /\ Len(s) + (k - (Len(s) - e)) = e + k
        BY <1>1, <3>3
      <4>2. p[e + k] = t[k - (Len(s) - e)]
        BY <1>2, <4>1
      <4> QED BY <2>1, <3>1, <3>3, <4>2
    <3> QED BY <3>2, <3>3
  <2>3. Len(NextLines(p)) = Len(s) - e + Len(t)
    BY <1>1, <1>2, <1>7
  <2> QED BY <1>7, <2>1, <2>2, <2>3, SeqEqual
<1> QED BY <1>4, <1>5, <1>8, <1>9
        DEF Stream!FirstLine, Stream!AfterLine, ThisLine, NextLines, p

LEMMA StepRefines == TypeOK /\ [Next]_vars => [Stream!Next]_(Stream!vars)
<1> SUFFICES ASSUME TypeOK, [Next]_vars PROVE Stream!Next \/ UNCHANGED Stream!vars
  OBVIOUS
<1> USE DEF history
<1>0. port \in Seq(Chars) /\ readBuf \in Seq(Chars)
  BY DEF TypeOK, Chars
<1>1. ASSUME NEW c \in Chars, port' = Append(port, c), UNCHANGED <<readBuf, value>>
      PROVE  Stream!Next
  <2>1. readBuf \o Append(port, c) = Append(readBuf \o port, c)
    BY <1>0, ConcatAppend
  <2>2. Stream!Receive(c)
    BY <1>1, <2>1 DEF Stream!Receive
  <2> QED BY <2>2 DEF Stream!Next, Chars
<1>2. ASSUME NEW t \in Text, Prints(t) PROVE Stream!Next
  BY <1>1, <1>2 DEF Prints, Chars
<1>3. CASE PrintsEnd
  BY <1>1, <1>3 DEF PrintsEnd, Chars
<1>4. CASE NothingRead
  BY <1>4 DEF NothingRead, vars, Stream!vars
<1>5. CASE Read
  <2>1. value' = value
    BY <1>5 DEF Read
  <2> QED BY <1>5, <2>1, ReadTakes DEF Stream!vars
<1>6. CASE ProcessString
  <2>1. CASE HasLine(readBuf)
    <3>1. /\ Stream!HasLine(readBuf \o port)
          /\ Stream!FirstLine(readBuf \o port) = ThisLine(readBuf)
          /\ Stream!AfterLine(readBuf \o port) = NextLines(readBuf) \o port
      BY <1>0, <2>1, LineInFront
    <3>2. /\ value' = Received(value, ThisLine(readBuf))
          /\ readBuf' = NextLines(readBuf) /\ port' = port
      BY <1>6, <2>1 DEF ProcessString
    <3>3. Stream!TakeLine
      BY <3>1, <3>2 DEF Stream!TakeLine, Never
    <3> QED BY <3>3 DEF Stream!Next
  <2>2. CASE ~HasLine(readBuf)
    BY <1>6, <2>2 DEF ProcessString, Stream!vars
  <2> QED BY <2>1, <2>2
<1>7. CASE UNCHANGED vars
  BY <1>7 DEF vars, Stream!vars
<1> QED BY <1>2, <1>3, <1>4, <1>5, <1>6, <1>7 DEF Next

(* Every line of the board is parsed once, whole and in order, however     *)
(* reads divide what it prints and at whatever pace it prints.             *)
THEOREM LinesKept == Spec => KeepsLines
<1>1. Init => Stream!Init
  <2> SUFFICES ASSUME Init PROVE Stream!Init
    OBVIOUS
  <2>1. readBuf \in Leftovers /\ readBuf \in Seq(Text \cup {EOL}) /\ port = << >>
    BY LeftoverAssumption DEF Init
  <2>2. readBuf \o port = readBuf
    BY <2>1
  <2> QED BY <2>1, <2>2 DEF Init, Stream!Init
<1>2. TypeOK /\ [Next]_vars => [Stream!Next]_(Stream!vars)
  BY StepRefines
<1> QED BY <1>1, <1>2, TypeCorrect, PTL DEF Spec, KeepsLines, Stream!Spec

-----------------------------------------------------------------------------
(* How long the string grows: what the invariant says of it.               *)

Coming == readBuf \o port

(* No characters without an end between them are more than n, and no more  *)
(* than m of them came last.                                               *)
RunsShort(s, n, m) ==
  \A a, b \in 0 .. Len(s) :
    a <= b /\ (\A k \in a + 1 .. b : s[k] # EOL)
      => b - a <= n /\ (b = Len(s) => b - a <= m)

Runs == RunsShort(Coming, found + MaxTexts, found + printed)

UpTo(s, e) == Cardinality({u \in Unknown(s) : u <= e})

Bound(k, n) == k * MaxChunk + n

Rounds == IF at = "select" THEN 1 ELSE 2

(* Behind the end of an unknown line is what came in the reads that are    *)
(* not used up by the unknown lines up to it: each round takes one.        *)
Behind ==
  \A e \in {0} \cup Unknown(readBuf) :
    Len(readBuf) - e <= Bound(peak + Rounds - UpTo(readBuf, e), found)

AtMostOne(S) == \A i, j \in S : i = j

(* While no round has left an unknown line over, at most one stops the     *)
(* parser, and it came with the last read.                                 *)
Calm ==
  peak = 0 =>
    /\ at = "select" => /\ Unknown(readBuf) = {}
                        /\ chunk > 0 /\ HasLine(readBuf) => Len(readBuf) < chunk
    /\ at = "parse" => /\ AtMostOne(Unknown(readBuf))
                       /\ \A i \in Unknown(readBuf) : i > Len(readBuf) - chunk

IInv == TypeOK /\ Runs /\ Behind /\ Calm

-----------------------------------------------------------------------------
(* Numbers.                                                                *)

LEMMA BoundGrows ==
  ASSUME NEW j \in Int, NEW k \in Int, j <= k, NEW n \in Nat
  PROVE  Bound(j, n) <= Bound(k, n) /\ Bound(j, n) \in Int /\ Bound(k, n) \in Int
<1>1. MaxChunk \in Nat /\ k - j \in Nat
  BY RoomAssumption
<1>2. \A x, y \in Nat : x * y \in Nat
  OBVIOUS
<1>3. (k - j) * MaxChunk \in Nat
  BY <1>1, <1>2
<1>4. k * MaxChunk = j * MaxChunk + (k - j) * MaxChunk
  BY <1>1
<1>5. j * MaxChunk \in Int /\ k * MaxChunk \in Int
  BY <1>1
<1> QED BY <1>3, <1>4, <1>5 DEF Bound

LEMMA BoundStep ==
  ASSUME NEW k \in Int, NEW n \in Nat
  PROVE  /\ Bound(k + 1, n) = Bound(k, n) + MaxChunk
         /\ Bound(0, n) = n /\ Bound(k, n) \in Int
  BY RoomAssumption DEF Bound

(* Places moved by e into a set are no more than that set has.             *)
LEMMA MovedFit ==
  ASSUME NEW S \in SUBSET Nat, NEW T, IsFiniteSet(T), NEW e \in Nat,
         \A i \in S : e + i \in T
  PROVE  IsFiniteSet(S) /\ Cardinality(S) <= Cardinality(T)
<1> DEFINE f == [i \in S |-> e + i]
<1>1. f \in [S -> T]
  OBVIOUS
<1>2. \A i, j \in S : f[i] = f[j] => i = j
  OBVIOUS
<1>3. f \in Injection(S, T)
  BY <1>1, <1>2 DEF Injection, IsInjective
<1> QED BY <1>3, FS_Injection

LEMMA UpToIs ==
  ASSUME NEW s \in Seq(Chars), NEW e \in Nat
  PROVE  /\ IsFiniteSet({u \in Unknown(s) : u <= e})
         /\ UpTo(s, e) \in Nat /\ UpTo(s, e) <= Cardinality(Unknown(s))
         /\ UpTo(s, 0) = 0
         /\ e \in Unknown(s) => UpTo(s, e) >= 1
<1> DEFINE S == {u \in Unknown(s) : u <= e}
<1>1. S \in SUBSET Unknown(s) /\ IsFiniteSet(Unknown(s)) /\ Unknown(s) \subseteq 1 .. Len(s)
  BY UnknownEnds
<1>2. IsFiniteSet(S) /\ Cardinality(S) <= Cardinality(Unknown(s))
  BY <1>1, FS_Subset
<1>3. Cardinality(S) \in Nat
  BY <1>2, FS_CardinalityType
<1>4. UpTo(s, 0) = 0
  <2>1. {u \in Unknown(s) : u <= 0} = {}
    BY <1>1
  <2> QED BY <2>1, FS_EmptySet DEF UpTo
<1>5. ASSUME e \in Unknown(s) PROVE Cardinality(S) >= 1
  <2>1. e \in S
    BY <1>5
  <2>2. S # {}
    BY <2>1
  <2>3. Cardinality(S) # 0
    BY <1>2, <2>2, FS_EmptySet
  <2> QED BY <1>3, <2>3
<1> HIDE DEF S
<1>6. UpTo(s, e) = Cardinality(S)
  BY DEF UpTo, S
<1> QED BY <1>2, <1>3, <1>4, <1>5, <1>6 DEF S

-----------------------------------------------------------------------------
(* A longer string that begins alike.                                      *)

LEMMA SameFront ==
  ASSUME NEW p \in Seq(Chars), NEW q \in Seq(Chars), Len(p) <= Len(q),
         \A k \in 1 .. Len(p) : q[k] = p[k]
  PROVE  \A i \in 1 .. Len(p) : i \in Unknown(q) <=> i \in Unknown(p)
<1>0. Len(p) \in Nat /\ Len(q) \in Nat
  OBVIOUS
<1>1. ASSUME NEW i \in 1 .. Len(p) PROVE EndsReport(q, i) <=> EndsReport(p, i)
  <2>1. ASSUME NEW b \in 1 .. i - 1
        PROVE  /\ q[b] = p[b]
               /\ b = 1 \/ q[b - 1] = p[b - 1]
               /\ \A k \in b .. i - 1 : q[k] = p[k]
    <3>1. b \in 1 .. Len(p) /\ (b # 1 => b - 1 \in 1 .. Len(p))
      BY <1>0
    <3>2. \A k \in b .. i - 1 : k \in 1 .. Len(p)
      BY <1>0
    <3> QED BY <3>1, <3>2
  <2>2. ASSUME NEW b \in 1 .. i - 1
        PROVE  (/\ q[b] \in Reports
                /\ b = 1 \/ q[b - 1] = EOL
                /\ \A k \in b .. i - 1 : q[k] # EOL)
               <=> (/\ p[b] \in Reports
                    /\ b = 1 \/ p[b - 1] = EOL
                    /\ \A k \in b .. i - 1 : p[k] # EOL)
    BY <2>1
  <2> QED BY <2>2, Zenon DEF EndsReport
<1>2. ASSUME NEW i \in 1 .. Len(p) PROVE i \in Unknown(q) <=> i \in Unknown(p)
  <2>1. i \in 1 .. Len(q) /\ q[i] = p[i]
    BY <1>0
  <2> QED BY <1>1, <2>1 DEF Unknown
<1> QED BY <1>2

LEMMA LongerRuns ==
  ASSUME NEW p \in Seq(Chars), NEW c \in Chars, NEW n \in Nat, NEW m \in Nat,
         RunsShort(p, n, m), m + 1 <= n
  PROVE  RunsShort(Append(p, c), n, m + 1)
<1> DEFINE q == Append(p, c)
<1>1. /\ Len(q) = Len(p) + 1 /\ Len(p) \in Nat
      /\ \A k \in 1 .. Len(p) : q[k] = p[k]
  OBVIOUS
<1> HIDE DEF q
<1>2. ASSUME NEW a \in 0 .. Len(q), NEW b \in 0 .. Len(q), a <= b,
             \A k \in a + 1 .. b : q[k] # EOL
      PROVE  b - a <= n /\ (b = Len(q) => b - a <= m + 1)
  <2>1. CASE b <= Len(p)
    <3>1. \A k \in a + 1 .. b : p[k] # EOL
      BY <1>1, <1>2, <2>1
    <3>2. a \in 0 .. Len(p) /\ b \in 0 .. Len(p) /\ b # Len(q)
      BY <1>1, <1>2, <2>1
    <3>3. b - a <= n
      BY <1>2, <3>1, <3>2 DEF RunsShort
    <3> QED BY <3>2, <3>3
  <2>2. CASE b = Len(p) + 1 /\ a <= Len(p)
    <3>1. \A k \in a + 1 .. Len(p) : p[k] # EOL
      BY <1>1, <1>2, <2>2
    <3>2. a \in 0 .. Len(p) /\ Len(p) \in 0 .. Len(p)
      BY <1>1, <2>2
    <3>3. Len(p) - a <= m
      BY <2>2, <3>1, <3>2 DEF RunsShort
    <3> QED BY <1>1, <2>2, <3>2, <3>3
  <2>3. CASE b = Len(p) + 1 /\ a = Len(p) + 1
    BY <1>1, <2>3
  <2> QED BY <1>1, <1>2, <2>1, <2>2, <2>3
<1>3. RunsShort(q, n, m + 1)
  BY <1>2 DEF RunsShort
<1> QED BY <1>3 DEF q

LEMMA EndedRuns ==
  ASSUME NEW p \in Seq(Chars), NEW n \in Nat, NEW m \in Nat, NEW l \in Nat,
         RunsShort(p, n, m)
  PROVE  RunsShort(Append(p, EOL), n, l)
<1> DEFINE q == Append(p, EOL)
<1>1. /\ Len(q) = Len(p) + 1 /\ Len(p) \in Nat
      /\ \A k \in 1 .. Len(p) : q[k] = p[k]
      /\ q[Len(p) + 1] = EOL
  BY DEF Chars
<1> HIDE DEF q
<1>2. ASSUME NEW a \in 0 .. Len(q), NEW b \in 0 .. Len(q), a <= b,
             \A k \in a + 1 .. b : q[k] # EOL
      PROVE  b - a <= n /\ (b = Len(q) => b - a <= l)
  <2>1. CASE b <= Len(p)
    <3>1. \A k \in a + 1 .. b : p[k] # EOL
      BY <1>1, <1>2, <2>1
    <3>2. a \in 0 .. Len(p) /\ b \in 0 .. Len(p) /\ b # Len(q)
      BY <1>1, <1>2, <2>1
    <3>3. b - a <= n
      BY <1>2, <3>1, <3>2 DEF RunsShort
    <3> QED BY <3>2, <3>3
  <2>2. CASE b = Len(p) + 1
    <3>1. a = b
      BY <1>1, <1>2, <2>2
    <3> QED BY <1>1, <2>2, <3>1
  <2> QED BY <1>1, <2>1, <2>2
<1>3. RunsShort(q, n, l)
  BY <1>2 DEF RunsShort
<1> QED BY <1>3 DEF q

-----------------------------------------------------------------------------
(* The first line taken from what came.                                    *)

(* A place behind the first e of p, seen from there.                       *)
LEMMA MovedBack ==
  ASSUME NEW e \in Nat, NEW n \in Nat, NEW a \in Nat, NEW b \in 0 .. n,
         NEW k \in e + a + 1 .. e + b
  PROVE  k - e \in a + 1 .. b /\ k - e \in 1 .. n /\ e + (k - e) = k
OBVIOUS

LEMMA ShorterRuns ==
  ASSUME NEW p \in Seq(Chars), NEW q \in Seq(Chars), NEW e \in 1 .. Len(p), p[e] = EOL,
         Len(q) = Len(p) - e, \A k \in 1 .. Len(q) : q[k] = p[e + k],
         NEW n \in Nat, NEW m \in Nat, RunsShort(p, n, m)
  PROVE  RunsShort(q, n, m)
<1>1. Len(p) \in Nat /\ Len(q) \in Nat
  OBVIOUS
<1> SUFFICES ASSUME NEW a \in 0 .. Len(q), NEW b \in 0 .. Len(q), a <= b,
                    \A k \in a + 1 .. b : q[k] # EOL
             PROVE  b - a <= n /\ (b = Len(q) => b - a <= m)
  BY DEF RunsShort
<1>2. /\ e + a \in 0 .. Len(p) /\ e + b \in 0 .. Len(p) /\ e + a <= e + b
      /\ b = Len(q) => e + b = Len(p)
  BY <1>1
<1>3. ASSUME NEW k \in e + a + 1 .. e + b PROVE p[k] # EOL
  <2>1. e \in Nat /\ Len(q) \in Nat
    BY <1>1
  <2>2. k - e \in a + 1 .. b /\ k - e \in 1 .. Len(q) /\ e + (k - e) = k
    BY <2>1, MovedBack
  <2> QED BY <2>2
<1>4. (e + b) - (e + a) <= n /\ (e + b = Len(p) => (e + b) - (e + a) <= m)
  BY <1>2, <1>3 DEF RunsShort
<1> QED BY <1>1, <1>2, <1>4

LEMMA ShorterUnknown ==
  ASSUME NEW p \in Seq(Chars), NEW q \in Seq(Chars), NEW e \in 1 .. Len(p), p[e] = EOL,
         Len(q) = Len(p) - e, \A k \in 1 .. Len(q) : q[k] = p[e + k]
  PROVE  \A i \in Unknown(q) : e + i \in Unknown(p)
<1>1. Len(p) \in Nat /\ Len(q) \in Nat
  OBVIOUS
<1>2. ASSUME NEW i \in 1 .. Len(q), EndsReport(p, e + i)
      PROVE  EndsReport(q, i)
  <2>1. PICK b \in 1 .. e + i - 1 : /\ p[b] \in Reports
                                    /\ b = 1 \/ p[b - 1] = EOL
                                    /\ \A k \in b .. e + i - 1 : p[k] # EOL
    BY <1>2 DEF EndsReport
  <2>2. ~ (b <= e)
    <3> SUFFICES ASSUME b <= e PROVE FALSE
      OBVIOUS
    <3>1. e \in b .. e + i - 1
      BY <1>1
    <3> QED BY <2>1, <3>1
  <2>3. b - e \in 1 .. i - 1 /\ b - e \in 1 .. Len(q) /\ e + (b - e) = b
    BY <1>1, <2>2
  <2>4. q[b - e] \in Reports
    BY <2>1, <2>3
  <2>5. b - e = 1 \/ q[(b - e) - 1] = EOL
    <3> SUFFICES ASSUME b - e # 1 PROVE q[(b - e) - 1] = EOL
      OBVIOUS
    <3>1. (b - e) - 1 \in 1 .. Len(q) /\ e + ((b - e) - 1) = b - 1 /\ b # 1
      BY <1>1, <2>3
    <3>2. p[b - 1] = EOL
      BY <2>1, <3>1
    <3> QED BY <3>1, <3>2
  <2>6. ASSUME NEW k \in b - e .. i - 1 PROVE q[k] # EOL
    <3>1. e + k \in b .. e + i - 1 /\ k \in 1 .. Len(q)
      BY <1>1, <2>3, <2>6
    <3>2. p[e + k] # EOL
      BY <2>1, <3>1
    <3>3. q[k] = p[e + k]
      BY <3>1
    <3> QED BY <3>2, <3>3
  <2>7. b - e \in 1 .. i - 1
    BY <2>3
  <2> QED BY <2>4, <2>5, <2>6, <2>7 DEF EndsReport
<1>3. ASSUME NEW i \in Unknown(q) PROVE e + i \in Unknown(p)
  <2>1. i \in 1 .. Len(q) /\ q[i] = EOL /\ ~EndsReport(q, i)
    BY <1>3 DEF Unknown
  <2>2. e + i \in 1 .. Len(p) /\ p[e + i] = EOL /\ ~EndsReport(p, e + i)
    BY <1>1, <1>2, <2>1
  <2> QED BY <2>2 DEF Unknown
<1> QED BY <1>3

(* The first line is no report only if its end is one of Unknown.          *)
LEMMA FirstUnknown ==
  ASSUME NEW s \in Seq(Chars), HasLine(s), ~IsReport(ThisLine(s))
  PROVE  LineEnd(s) \in Unknown(s)
<1> DEFINE e == LineEnd(s)
<1>1. /\ e \in 1 .. Len(s) /\ s[e] = EOL /\ Len(s) \in Nat
      /\ \A j \in 1 .. e - 1 : s[j] # EOL
  BY FirstEnd
<1>2. /\ ThisLine(s) \in Seq(Text) /\ Len(ThisLine(s)) = e - 1
      /\ \A k \in 1 .. e - 1 : ThisLine(s)[k] = s[k]
  BY LineTaken
<1> HIDE DEF e
<1>3. ~EndsReport(s, e)
  <2> SUFFICES ASSUME NEW b \in 1 .. e - 1, s[b] \in Reports, b = 1 \/ s[b - 1] = EOL
               PROVE  FALSE
    BY DEF EndsReport
  <2>1. b = 1
    <3> SUFFICES ASSUME b # 1 PROVE FALSE
      OBVIOUS
    <3>1. b - 1 \in 1 .. e - 1
      BY <1>1
    <3> QED BY <1>1, <3>1
  <2>2. ThisLine(s)[1] \in Reports /\ ThisLine(s) # << >>
    BY <1>1, <1>2, <2>1
  <2> QED BY <1>2, <2>2 DEF IsReport
<1> QED BY <1>1, <1>3 DEF Unknown, e

-----------------------------------------------------------------------------
(* The invariant.                                                          *)

LEMMA ComingIs ==
  ASSUME TypeOK
  PROVE  /\ Coming \in Seq(Chars) /\ Len(Coming) = Len(readBuf) + Len(port)
         /\ Len(readBuf) \in Nat /\ Len(port) \in Nat /\ Len(Coming) \in Nat
         /\ readBuf \in Seq(Chars) /\ port \in Seq(Chars)
         /\ \A k \in 1 .. Len(readBuf) : Coming[k] = readBuf[k]
<1>1. readBuf \in Seq(Chars) /\ port \in Seq(Chars)
  BY DEF TypeOK, Chars
<1> QED BY <1>1 DEF Coming

LEMMA Numbers ==
  ASSUME TypeOK
  PROVE  /\ found \in Nat /\ printed \in Nat /\ peak \in Nat /\ chunk \in Nat
         /\ MaxTexts \in Nat /\ MaxChunk \in Nat /\ MaxTexts <= MaxChunk
         /\ printed <= MaxTexts /\ chunk <= MaxChunk
         /\ found + MaxTexts \in Nat /\ found + printed \in Nat
         /\ Rounds \in Nat
  BY RoomAssumption DEF TypeOK, Rounds

LEMMA InitIInv == Init => IInv
<1> SUFFICES ASSUME Init PROVE IInv
  OBVIOUS
<1>1. TypeOK
  BY InitTypes
<1>2. /\ port = << >> /\ at = "select" /\ found = Len(readBuf) /\ chunk = 0
      /\ peak = Cardinality(Unknown(readBuf))
  BY DEF Init
<1>3. /\ Coming = readBuf /\ Len(readBuf) \in Nat /\ readBuf \in Seq(Chars)
  BY <1>1, <1>2, ComingIs DEF Coming
<1>4. Runs
  <2>1. MaxTexts \in Nat /\ printed \in Nat
    BY <1>1, Numbers
  <2>2. ASSUME NEW a \in 0 .. Len(readBuf), NEW b \in 0 .. Len(readBuf)
        PROVE  b - a <= found + MaxTexts /\ b - a <= found + printed
    BY <1>2, <1>3, <2>1
  <2> QED BY <1>3, <2>2 DEF Runs, RunsShort
<1>5. Behind
  <2> SUFFICES ASSUME NEW e \in {0} \cup Unknown(readBuf)
               PROVE  Len(readBuf) - e <= Bound(peak + Rounds - UpTo(readBuf, e), found)
    BY DEF Behind
  <2>1. e \in Nat
    BY <1>3, UnknownEnds
  <2>2. UpTo(readBuf, e) \in Nat /\ UpTo(readBuf, e) <= peak
    BY <1>2, <1>3, <2>1, UpToIs
  <2>3. Rounds \in Nat /\ peak \in Nat /\ found \in Nat
    BY <1>1, Numbers
  <2> DEFINE k == peak + Rounds - UpTo(readBuf, e)
  <2>4. 0 <= k /\ k \in Int /\ 0 \in Int
    BY <2>2, <2>3
  <2> HIDE DEF k
  <2>5. Bound(0, found) <= Bound(k, found) /\ Bound(k, found) \in Int
    BY <2>3, <2>4, BoundGrows
  <2>6. Bound(0, found) = found
    BY <2>3, <2>4, BoundStep
  <2>7. Len(readBuf) - e <= Bound(k, found)
    BY <1>2, <1>3, <2>1, <2>5, <2>6
  <2> QED BY <2>7 DEF k
<1>6. Calm
  <2>1. peak = 0 => Unknown(readBuf) = {}
    BY <1>2, <1>3, UnknownEnds, FS_EmptySet
  <2> QED BY <1>2, <2>1 DEF Calm
<1> QED BY <1>1, <1>4, <1>5, <1>6 DEF IInv

(* What the board prints disturbs nothing that is in the buffer.           *)
LEMMA PrintsIInv ==
  ASSUME IInv, TypeOK', (\E t \in Text : Prints(t)) \/ PrintsEnd
  PROVE  IInv'
<1>0. TypeOK /\ Runs /\ Behind /\ Calm
  BY DEF IInv
<1>1. /\ Coming \in Seq(Chars) /\ readBuf \in Seq(Chars) /\ port \in Seq(Chars)
      /\ found \in Nat /\ printed \in Nat /\ MaxTexts \in Nat
      /\ found + MaxTexts \in Nat /\ found + printed \in Nat
  BY <1>0, ComingIs, Numbers
<1>2. UNCHANGED <<readBuf, at, found, chunk, peak>>
  BY DEF Prints, PrintsEnd, history
<1>3. Runs'
  <2>1. ASSUME NEW t \in Text, Prints(t) PROVE Runs'
    <3>1. Coming' = Append(Coming, t) /\ t \in Chars
      BY <1>1, <1>2, <2>1, ConcatAppend DEF Coming, Prints, Chars
    <3>2. printed < MaxTexts /\ printed' = printed + 1
      BY <2>1 DEF Prints
    <3>3. found + printed + 1 <= found + MaxTexts /\ found' + printed' = found + printed + 1
          /\ found' = found
      BY <1>1, <1>2, <3>2
    <3>4. RunsShort(Append(Coming, t), found + MaxTexts, (found + printed) + 1)
      BY <1>0, <1>1, <3>1, <3>3, LongerRuns DEF Runs
    <3> QED BY <3>1, <3>3, <3>4 DEF Runs
  <2>2. CASE PrintsEnd
    <3>1. Coming' = Append(Coming, EOL) /\ EOL \in Chars
      BY <1>1, <1>2, <2>2, ConcatAppend DEF Coming, PrintsEnd, Chars
    <3>2. printed' = 0
      BY <2>2 DEF PrintsEnd
    <3>3. found' + printed' = found /\ found' = found
      BY <1>1, <1>2, <3>2
    <3>4. RunsShort(Append(Coming, EOL), found + MaxTexts, found)
      BY <1>0, <1>1, EndedRuns DEF Runs
    <3> QED BY <3>1, <3>3, <3>4 DEF Runs
  <2> QED BY <2>1, <2>2
<1>4. Behind' /\ Calm'
  BY <1>0, <1>2 DEF Behind, Calm, Rounds
<1> QED BY <1>3, <1>4 DEF IInv

(* One more read: one round more of what came, and of unknown lines all    *)
(* but one are left over.                                                  *)
LEMMA ReadIInv ==
  ASSUME IInv, TypeOK', Read
  PROVE  IInv'
<1>0. TypeOK /\ Runs /\ Behind /\ Calm
  BY DEF IInv
<1>1. /\ Coming' = Coming /\ chunk' \in 1 .. Len(port) /\ Len(port) \in Nat
      /\ Len(readBuf) \in Nat /\ Len(readBuf') = Len(readBuf) + chunk'
      /\ readBuf' \in Seq(Chars) /\ readBuf \in Seq(Chars)
  BY <1>0, ReadTakes, ComingIs DEF Coming
<1>2. /\ at = "select" /\ at' = "parse" /\ printed' = printed /\ found' = found
      /\ readBuf' = readBuf \o SubSeq(port, 1, chunk')
      /\ peak' = IF Cardinality(Unknown(readBuf')) > peak + 1
                 THEN Cardinality(Unknown(readBuf')) - 1 ELSE peak
  BY DEF Read, FromLastRound
<1>3. /\ found \in Nat /\ peak \in Nat /\ peak' \in Nat /\ MaxChunk \in Nat
      /\ chunk' \in Nat /\ chunk' <= MaxChunk
  <2>1. found \in Nat /\ peak \in Nat /\ MaxChunk \in Nat
    BY <1>0, Numbers
  <2>2. chunk' \in 0 .. MaxChunk /\ peak' \in 0 .. BufSize
    BY DEF TypeOK
  <2> QED BY <2>1, <2>2
<1>4. /\ Cardinality(Unknown(readBuf')) \in Nat
      /\ peak <= peak' /\ Cardinality(Unknown(readBuf')) <= peak' + 1
  <2>1. Cardinality(Unknown(readBuf')) \in 0 .. Len(readBuf') /\ Len(readBuf') \in Nat
    BY <1>1, UnknownEnds
  <2>2. Cardinality(Unknown(readBuf')) \in Nat
    BY <2>1
  <2> QED BY <1>2, <1>3, <2>2
<1>5. \A k \in 1 .. Len(readBuf) : readBuf'[k] = readBuf[k]
  <2>1. SubSeq(port, 1, chunk') \in Seq(Chars)
    BY <1>0, <1>1, ComingIs
  <2>2. \A t \in Seq(Chars), k \in 1 .. Len(readBuf) : (readBuf \o t)[k] = readBuf[k]
    BY <1>1
  <2> QED BY <1>2, <2>1, <2>2
<1>6. \A i \in 1 .. Len(readBuf) : i \in Unknown(readBuf') <=> i \in Unknown(readBuf)
  <2>1. Len(readBuf) <= Len(readBuf')
    BY <1>1, <1>3
  <2>2. \A p, q \in Seq(Chars) :
          Len(p) <= Len(q) /\ (\A k \in 1 .. Len(p) : q[k] = p[k])
            => \A i \in 1 .. Len(p) : i \in Unknown(q) <=> i \in Unknown(p)
    BY SameFront
  <2> QED BY Zenon, <1>1, <1>5, <2>1, <2>2
<1>7. /\ Unknown(readBuf) \subseteq 1 .. Len(readBuf)
      /\ Unknown(readBuf') \subseteq 1 .. Len(readBuf')
  BY <1>1, UnknownEnds
<1>8. Runs'
  BY <1>0, <1>1, <1>2 DEF Runs
<1>9. Behind'
  <2> SUFFICES ASSUME NEW e \in {0} \cup Unknown(readBuf')
               PROVE  Len(readBuf') - e <= Bound(peak' + 2 - UpTo(readBuf', e), found)
    BY <1>2 DEF Behind, Rounds
  <2>1. e \in Nat
    BY <1>7
  <2>2. /\ UpTo(readBuf', e) \in Nat
        /\ UpTo(readBuf', e) <= Cardinality(Unknown(readBuf'))
    BY <1>1, <2>1, UpToIs
  <2>3. CASE e <= Len(readBuf)
    <3>1. e \in {0} \cup Unknown(readBuf)
      BY <1>1, <1>6, <1>7, <2>1, <2>3
    <3>2. {u \in Unknown(readBuf') : u <= e} = {u \in Unknown(readBuf) : u <= e}
      BY <1>1, <1>6, <1>7, <2>1, <2>3
    <3>3. UpTo(readBuf', e) = UpTo(readBuf, e)
      BY <3>2 DEF UpTo
    <3> DEFINE k == peak + 1 - UpTo(readBuf', e)
               l == peak' + 2 - UpTo(readBuf', e)
    <3>4. Len(readBuf) - e <= Bound(k, found)
      BY <1>0, <1>2, <3>1, <3>3 DEF Behind, Rounds
    <3>5. k \in Int /\ k + 1 \in Int /\ k + 1 <= l /\ l \in Int
      BY <1>3, <1>4, <2>2
    <3> HIDE DEF k, l
    <3>6. Bound(k + 1, found) = Bound(k, found) + MaxChunk /\ Bound(k, found) \in Int
      BY <1>3, <3>5, BoundStep
    <3>7. Bound(k + 1, found) <= Bound(l, found) /\ Bound(l, found) \in Int
      BY <1>3, <3>5, BoundGrows
    <3>8. Len(readBuf') - e <= Bound(l, found)
      <4>1. Len(readBuf') - e = (Len(readBuf) - e) + chunk'
        BY <1>1, <1>3, <2>1
      <4>2. Len(readBuf) - e \in Int
        BY <1>1, <2>1
      <4> HIDE DEF Bound
      <4> QED BY <1>3, <3>4, <3>6, <3>7, <4>1, <4>2
    <3> QED BY <3>8 DEF l
  <2>4. CASE e > Len(readBuf)
    <3>1. Len(readBuf') - e <= MaxChunk
      BY <1>1, <1>3, <2>1, <2>4
    <3> DEFINE k == peak' + 2 - UpTo(readBuf', e)
    <3>2. 1 <= k /\ k \in Int /\ 1 \in Int
      BY <1>3, <1>4, <2>2
    <3> HIDE DEF k
    <3>3. Bound(1, found) <= Bound(k, found) /\ Bound(k, found) \in Int
      BY <1>3, <3>2, BoundGrows
    <3>4. Bound(1, found) = found + MaxChunk
      BY <1>3 DEF Bound
    <3>5. Len(readBuf') - e <= Bound(k, found)
      <4>1. Len(readBuf') - e \in Int
        BY <1>1, <1>3, <2>1
      <4> QED BY <1>3, <3>1, <3>3, <3>4, <4>1
    <3> QED BY <3>5 DEF k
  <2> QED BY <1>1, <2>1, <2>3, <2>4
<1>10. Calm'
  <2> SUFFICES ASSUME peak' = 0
               PROVE  /\ AtMostOne(Unknown(readBuf'))
                      /\ \A i \in Unknown(readBuf') : i > Len(readBuf') - chunk'
    BY <1>2 DEF Calm
  <2>1. peak = 0
    BY <1>3, <1>4
  <2>2. Unknown(readBuf) = {}
    BY <1>0, <1>2, <2>1 DEF Calm
  <2>3. \A i \in Unknown(readBuf') : i > Len(readBuf') - chunk'
    BY <1>1, <1>3, <1>6, <1>7, <2>2
  <2>4. Cardinality(Unknown(readBuf')) <= 1
    BY <1>4
  <2>5. AtMostOne(Unknown(readBuf'))
    <3>1. IsFiniteSet(Unknown(readBuf'))
      BY <1>1, UnknownEnds
    <3>2. Cardinality(Unknown(readBuf')) = 0 \/ Cardinality(Unknown(readBuf')) = 1
      BY <1>4, <2>4
    <3>3. Unknown(readBuf') = {} \/ \E x : Unknown(readBuf') = {x}
      BY <3>1, <3>2, FS_EmptySet, FS_Singleton
    <3> QED BY <3>3 DEF AtMostOne
  <2> QED BY <2>3, <2>5
<1> QED BY <1>8, <1>9, <1>10 DEF IInv

(* A line taken: the ends behind it move to the front, and if it was an    *)
(* unknown one, a round has used it up.                                    *)
LEMMA ProcessIInv ==
  ASSUME IInv, TypeOK', ProcessString, HasLine(readBuf)
  PROVE  IInv'
<1> DEFINE e == LineEnd(readBuf)
           text == ThisLine(readBuf)
<1>0. TypeOK /\ Runs /\ Behind /\ Calm
  BY DEF IInv
<1>1. /\ Coming \in Seq(Chars) /\ Len(Coming) = Len(readBuf) + Len(port)
      /\ Len(readBuf) \in Nat /\ Len(port) \in Nat /\ Len(Coming) \in Nat
      /\ readBuf \in Seq(Chars) /\ port \in Seq(Chars)
      /\ \A k \in 1 .. Len(readBuf) : Coming[k] = readBuf[k]
  BY <1>0, ComingIs
<1>2. e \in 1 .. Len(readBuf) /\ readBuf[e] = EOL /\ e \in Nat /\ e > 0
  BY <1>1, FirstEnd
<1>3. /\ at = "parse" /\ readBuf' = NextLines(readBuf)
      /\ at' = IF IsReport(text) THEN "parse" ELSE "select"
      /\ UNCHANGED <<port, printed, found, chunk, peak>>
  BY DEF ProcessString, ParsedFurther, history
<1>4. /\ readBuf' \in Seq(Chars) /\ Len(readBuf') = Len(readBuf) - e
      /\ \A k \in 1 .. Len(readBuf') : readBuf'[k] = readBuf[e + k]
      /\ Len(readBuf') \in Nat
  BY <1>1, <1>3, LineTaken
<1>5. IsReport(text) \/ e \in Unknown(readBuf)
  BY <1>1, FirstUnknown
<1> HIDE DEF e, text
<1>6. /\ found \in Nat /\ peak \in Nat /\ chunk \in Nat /\ MaxChunk \in Nat
      /\ found + MaxTexts \in Nat /\ found + printed \in Nat
  BY <1>0, Numbers
<1>7. /\ Unknown(readBuf) \subseteq 1 .. Len(readBuf) /\ IsFiniteSet(Unknown(readBuf))
      /\ Unknown(readBuf') \subseteq 1 .. Len(readBuf')
  BY <1>1, <1>4, UnknownEnds
<1>8. \A i \in Unknown(readBuf') : e + i \in Unknown(readBuf)
  BY <1>1, <1>2, <1>4, ShorterUnknown
<1>9. Runs'
  <2>1. /\ Coming' \in Seq(Chars) /\ Len(Coming') = Len(Coming) - e
        /\ \A k \in 1 .. Len(Coming') : Coming'[k] = Coming[e + k]
    <3>1. /\ Coming' = readBuf' \o port
          /\ Coming = readBuf \o port
      BY <1>3 DEF Coming
    <3>2. /\ Coming' \in Seq(Chars) /\ Len(Coming') = Len(readBuf') + Len(port)
          /\ \A k \in 1 .. Len(readBuf') + Len(port) :
               Coming'[k] = IF k <= Len(readBuf') THEN readBuf'[k] ELSE port[k - Len(readBuf')]
      BY <1>1, <1>4, <3>1, ConcatProperties
    <3>3. \A k \in 1 .. Len(readBuf) + Len(port) :
            Coming[k] = IF k <= Len(readBuf) THEN readBuf[k] ELSE port[k - Len(readBuf)]
      BY <1>1, <3>1, ConcatProperties
    <3>4. Len(Coming') = Len(Coming) - e
      BY <1>1, <1>2, <1>4, <3>2
    <3>5. ASSUME NEW k \in 1 .. Len(Coming') PROVE Coming'[k] = Coming[e + k]
      <4>1. CASE k <= Len(readBuf) - e
        <5>1. k \in 1 .. Len(readBuf') /\ e + k \in 1 .. Len(readBuf) + Len(port)
              /\ k \in 1 .. Len(readBuf') + Len(port)
              /\ e + k <= Len(readBuf) /\ k <= Len(readBuf')
          BY <1>1, <1>2, <1>4, <3>5, <4>1
        <5> QED BY <1>4, <3>2, <3>3, <5>1
      <4>2. CASE ~ (k <= Len(readBuf) - e)
        <5>1. e + k \in 1 .. Len(readBuf) + Len(port) /\ k \in 1 .. Len(readBuf') + Len(port)
              /\ ~ (e + k <= Len(readBuf)) /\ ~ (k <= Len(readBuf'))
              /\ k - Len(readBuf') = (e + k) - Len(readBuf)
          BY <1>1, <1>2, <1>4, <3>4, <3>5, <4>2
        <5>2. Coming'[k] = port[k - Len(readBuf')]
              /\ Coming[e + k] = port[(e + k) - Len(readBuf)]
          BY <3>2, <3>3, <5>1
        <5> QED BY <5>1, <5>2
      <4> QED BY <4>1, <4>2
    <3> QED BY <3>2, <3>4, <3>5
  <2>2. e \in 1 .. Len(Coming) /\ Coming[e] = EOL
    BY <1>1, <1>2
  <2>3. RunsShort(Coming', found + MaxTexts, found + printed)
    BY <1>0, <1>1, <1>6, <2>1, <2>2, ShorterRuns DEF Runs
  <2> QED BY <1>3, <2>3 DEF Runs
<1>10. Behind'
  <2> DEFINE used == IF IsReport(text) THEN 0 ELSE 1
  <2> SUFFICES ASSUME NEW i \in {0} \cup Unknown(readBuf')
               PROVE  Len(readBuf') - i <= Bound(peak + (2 - used) - UpTo(readBuf', i), found)
    BY <1>3 DEF Behind, Rounds
  <2>1. i \in Nat /\ e + i \in Nat
    BY <1>2, <1>7
  <2>2. /\ UpTo(readBuf', i) \in Nat /\ UpTo(readBuf, e + i) \in Nat
        /\ UpTo(readBuf', 0) = 0 /\ UpTo(readBuf, 0) = 0
    BY <1>1, <1>4, <2>1, UpToIs
  <2>3. UpTo(readBuf', i) <= UpTo(readBuf, e + i) - used
    <3> DEFINE S == {u \in Unknown(readBuf') : u <= i}
               T == {u \in Unknown(readBuf) : u <= e + i}
    <3>1. S \in SUBSET Nat /\ IsFiniteSet(T)
      <4>1. \A u \in S : u \in Nat
        BY <1>7
      <4>2. T \in SUBSET Unknown(readBuf)
        OBVIOUS
      <4> HIDE DEF S, T
      <4> QED BY <1>7, <4>1, <4>2, FS_Subset
    <3>2. \A u \in S : e + u \in T \ {e}
      BY <1>2, <1>7, <1>8, <2>1
    <3>3. /\ IsFiniteSet(T \ {e})
          /\ Cardinality(T \ {e}) = IF e \in T THEN Cardinality(T) - 1 ELSE Cardinality(T)
      BY <3>1, FS_RemoveElement
    <3>4. used = 1 => e \in T
      BY <1>2, <1>5, <2>1
    <3>5. Cardinality(T) = UpTo(readBuf, e + i) /\ Cardinality(S) = UpTo(readBuf', i)
      BY DEF UpTo
    <3> HIDE DEF S, T
    <3>6. Cardinality(S) <= Cardinality(T \ {e})
      BY <1>2, <3>1, <3>2, <3>3, MovedFit
    <3>7. used \in {0, 1}
      OBVIOUS
    <3> HIDE DEF used
    <3>8. Cardinality(S) <= Cardinality(T) - used
      <4>1. Cardinality(S) \in Nat /\ Cardinality(T) \in Nat
        BY <2>2, <3>5
      <4> QED BY <3>3, <3>4, <3>6, <3>7, <4>1
    <3> QED BY <3>5, <3>8
  <2> DEFINE k == peak + (2 - used) - UpTo(readBuf', i)
  <2>4. k \in Int
    BY <1>6, <2>2
  <2>5. CASE e + i \in Unknown(readBuf)
    <3> DEFINE j == peak + 2 - UpTo(readBuf, e + i)
    <3>1. Len(readBuf) - (e + i) <= Bound(j, found)
      BY <1>0, <1>3, <2>5 DEF Behind, Rounds
    <3>2. j \in Int /\ j <= k
      BY <1>6, <2>2, <2>3
    <3> HIDE DEF j, k
    <3>3. Bound(j, found) <= Bound(k, found) /\ Bound(j, found) \in Int /\ Bound(k, found) \in Int
      BY <1>6, <2>4, <3>2, BoundGrows
    <3>4. Len(readBuf') - i <= Bound(k, found)
      BY <1>1, <1>2, <1>4, <2>1, <3>1, <3>3
    <3> QED BY <3>4 DEF k
  <2>6. CASE e + i \notin Unknown(readBuf)
    <3>1. i = 0 /\ used = 0
      BY <1>2, <1>5, <1>8, <2>6
    <3>2. Len(readBuf) - 0 <= Bound(peak + 2 - UpTo(readBuf, 0), found)
      BY <1>0, <1>3 DEF Behind, Rounds
    <3>3. k = peak + 2 - UpTo(readBuf, 0)
      BY <1>6, <2>2, <3>1
    <3>4. Len(readBuf) <= Bound(k, found)
      BY <1>1, <3>2, <3>3
    <3> HIDE DEF k
    <3>5. Bound(k, found) \in Int
      BY <1>6, <2>4, BoundStep
    <3>6. Len(readBuf') - i <= Bound(k, found)
      BY <1>1, <1>2, <1>4, <3>1, <3>4, <3>5
    <3> QED BY <3>6 DEF k
  <2> QED BY <2>5, <2>6
<1>11. Calm'
  <2> SUFFICES ASSUME peak = 0
               PROVE  /\ at' = "select" => /\ Unknown(readBuf') = {}
                                           /\ Len(readBuf') < chunk
                      /\ at' = "parse" => /\ AtMostOne(Unknown(readBuf'))
                                          /\ \A i \in Unknown(readBuf') : i > Len(readBuf') - chunk
    BY <1>3 DEF Calm
  <2>1. AtMostOne(Unknown(readBuf)) /\ \A i \in Unknown(readBuf) : i > Len(readBuf) - chunk
    BY <1>0, <1>3 DEF Calm
  <2>2. ASSUME at' = "select" PROVE Unknown(readBuf') = {} /\ Len(readBuf') < chunk
    <3>1. e \in Unknown(readBuf)
      BY <1>3, <1>5, <2>2
    <3>2. Len(readBuf') < chunk
      BY <1>1, <1>2, <1>4, <1>6, <2>1, <3>1
    <3>3. \A i \in Unknown(readBuf') : e + i = e /\ i \in Nat /\ i > 0
      BY <1>7, <1>8, <2>1, <3>1 DEF AtMostOne
    <3> QED BY <1>2, <3>2, <3>3
  <2>3. ASSUME NEW i \in Unknown(readBuf'), NEW j \in Unknown(readBuf') PROVE i = j
    <3>1. e + i = e + j /\ i \in Nat /\ j \in Nat
      BY <1>7, <1>8, <2>1 DEF AtMostOne
    <3> QED BY <1>2, <3>1
  <2>4. ASSUME NEW i \in Unknown(readBuf') PROVE i > Len(readBuf') - chunk
    <3>1. e + i > Len(readBuf) - chunk /\ i \in Nat
      BY <1>7, <1>8, <2>1
    <3> QED BY <1>1, <1>2, <1>4, <1>6, <3>1
  <2> QED BY <2>2, <2>3, <2>4 DEF AtMostOne
<1> QED BY <1>9, <1>10, <1>11 DEF IInv

(* No line to take: what is left is the beginning of one.                  *)
LEMMA NoLineIInv ==
  ASSUME IInv, TypeOK', ProcessString, ~HasLine(readBuf)
  PROVE  IInv'
<1>0. TypeOK /\ Runs /\ Behind /\ Calm
  BY DEF IInv
<1>1. UNCHANGED <<port, readBuf, printed, found, chunk, peak>> /\ at' = "select"
  BY DEF ProcessString, history
<1>2. Unknown(readBuf) = {}
  BY DEF Unknown, HasLine
<1>3. Runs'
  BY <1>0, <1>1 DEF Runs, Coming
<1>4. Behind'
  <2>1. /\ readBuf \in Seq(Chars) /\ Len(readBuf) \in Nat
        /\ Len(Coming) = Len(readBuf) + Len(port) /\ Len(port) \in Nat
        /\ \A k \in 1 .. Len(readBuf) : Coming[k] = readBuf[k]
    BY <1>0, ComingIs
  <2>2. /\ found \in Nat /\ peak \in Nat /\ MaxTexts \in Nat /\ MaxChunk \in Nat
        /\ MaxTexts <= MaxChunk
    BY <1>0, Numbers
  <2>3. \A k \in 0 + 1 .. Len(readBuf) : Coming[k] # EOL
    BY <2>1 DEF HasLine
  <2>4. 0 \in 0 .. Len(Coming) /\ Len(readBuf) \in 0 .. Len(Coming)
    BY <2>1
  <2>5. Len(readBuf) - 0 <= found + MaxTexts
    BY <1>0, <2>1, <2>3, <2>4 DEF Runs, RunsShort
  <2>6. UpTo(readBuf, 0) = 0
    BY <2>1, UpToIs
  <2>7. Bound(1, found) <= Bound(peak + 1, found) /\ Bound(peak + 1, found) \in Int
    BY <2>2, BoundGrows
  <2>8. Bound(1, found) = MaxChunk + found
    BY <2>2 DEF Bound
  <2>9. Len(readBuf) - 0 <= Bound(peak + 1 - UpTo(readBuf, 0), found)
    BY <2>1, <2>2, <2>5, <2>6, <2>7, <2>8
  <2> QED BY <1>1, <1>2, <2>9 DEF Behind, Rounds
<1>5. Calm'
  BY <1>1, <1>2 DEF Calm
<1> QED BY <1>3, <1>4, <1>5 DEF IInv

LEMMA NextIInv == IInv /\ [Next]_vars => IInv'
<1> SUFFICES ASSUME IInv, TypeOK', [Next]_vars PROVE IInv'
  BY StepTypes DEF IInv
<1>1. CASE UNCHANGED vars
  BY <1>1 DEF vars, history, IInv, Runs, Coming, Behind, Rounds, Calm
<1>2. CASE NothingRead
  BY <1>1, <1>2 DEF NothingRead
<1> QED BY <1>1, <1>2, PrintsIInv, ReadIInv, ProcessIInv, NoLineIInv DEF Next

LEMMA Inductive == Spec => []IInv
  BY InitIInv, NextIInv, PTL DEF Spec

(* The string in readBuf grows with the unknown lines that rounds left     *)
(* over and with nothing else, at any pace and whatever was in the buffer; *)
(* so its end is written inside the buffer as long as this stays below the *)
(* size of it.                                                             *)
THEOREM BacklogBoundedHolds == Spec => []BacklogBounded
<1>1. IInv => BacklogBounded
  <2> SUFFICES ASSUME IInv PROVE BacklogBounded
    OBVIOUS
  <2>1. TypeOK /\ Behind /\ Len(readBuf) \in Nat /\ readBuf \in Seq(Chars)
    BY ComingIs DEF IInv
  <2>2. UpTo(readBuf, 0) = 0
    BY <2>1, UpToIs
  <2>3. Len(readBuf) - 0 <= Bound(peak + Rounds - UpTo(readBuf, 0), found)
    BY <2>1 DEF Behind
  <2>4. peak \in Nat /\ Rounds \in Nat
    BY <2>1, Numbers
  <2>5. Len(readBuf) <= Bound(peak + Rounds, found)
    BY <2>1, <2>2, <2>3, <2>4
  <2> QED BY <2>5 DEF Bound, Rounds, BacklogBounded
<1> QED BY <1>1, Inductive, PTL

(* As long as no round has left an unknown line over, whatever is complete *)
(* when the loop selects came with the last read.                          *)
THEOREM OneReadBehindHolds == Spec => []OneReadBehind
<1>1. IInv => OneReadBehind
  BY DEF IInv, Calm, OneReadBehind
<1> QED BY <1>1, Inductive, PTL
=============================================================================
