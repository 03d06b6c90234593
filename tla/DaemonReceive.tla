--------------------------- MODULE DaemonReceive ---------------------------
(***************************************************************************)
(* How the daemon receives what the board prints: select and read in the   *)
(* main loop of PWM_Controller.c, CmdParse_ProcessString of CmdParse.c,    *)
(* and the handlers of Cmd_Table in Cmds_PWM.c, which write the readings   *)
(* into the shared segment.                                                *)
(*                                                                         *)
(* readBuf is declared in the body of the loop and never initialised.  It  *)
(* is modelled as compilers place it: one place in the frame of main, with *)
(* what the last round left there, and at first what happens to be there.  *)
(* A text is one character of the stream here, its end another.  A failing *)
(* port is in SharedMemory, and so is what comes of a longer string in     *)
(* readBuf at the start: the room left for it is negative, which read      *)
(* takes for an error.                                                     *)
(***************************************************************************)
EXTENDS Integers, FiniteSets, Sequences

CONSTANTS
  Sensors,     \* the commands of Cmd_Table
  Readings,    \* what a board reports of them
  NoReading,   \* a report without an argument
  Foreign,     \* texts that begin with no command of the table
  EOL,         \* '\n'
  BufSize,     \* of readBuf
  Leftovers,   \* what may be in readBuf at the start
  MaxTexts,    \* bound: texts the board prints without an end between them
  MaxChunk     \* bound: characters in the port

Reports == [of : Sensors, reading : Readings \cup {NoReading}]
Text    == Reports \cup Foreign

ASSUME TextAssumption == EOL \notin Text /\ Foreign \cap Reports = {}
                         /\ NoReading \notin Readings
ASSUME LeftoverAssumption ==
  \A s \in Leftovers : s \in Seq(Text \cup {EOL}) /\ Len(s) <= BufSize
ASSUME RoomAssumption ==
  /\ BufSize \in Nat /\ MaxTexts \in Nat /\ MaxChunk \in Nat
  /\ MaxTexts <= MaxChunk

VARIABLES
  port,      \* arrived, not yet read
  readBuf,   \* the string in readBuf
  value,     \* voltage, current and temperature in the segment
  at,        \* where the main loop is
  printed,   \* texts of the board's present line
  found,     \* history: characters in readBuf at the start
  chunk,     \* history: characters the last read brought
  peak       \* history: lines without a report, left over by a round, at most

history == <<found, chunk, peak>>
vars    == <<port, readBuf, value, at, printed, history>>

HasLine(s) == \E i \in 1 .. Len(s) : s[i] = EOL

LineEnd(s) == CHOOSE i \in 1 .. Len(s) :
                s[i] = EOL /\ \A j \in 1 .. i - 1 : s[j] # EOL

ThisLine(s)  == SubSeq(s, 1, LineEnd(s) - 1)
WithEnd(s)   == SubSeq(s, LineEnd(s), Len(s))
NextLines(s) == SubSeq(s, LineEnd(s) + 1, Len(s))

(* strncmp with a command of the table: the line begins with it.           *)
IsReport(text) == text # << >> /\ Head(text) \in Reports

(* The ends in s of the lines that are no reports.                         *)
EndsReport(s, e) ==
  \E b \in 1 .. e - 1 : /\ s[b] \in Reports
                        /\ b = 1 \/ s[b - 1] = EOL
                        /\ \A k \in b .. e - 1 : s[k] # EOL

Unknown(s) == {e \in 1 .. Len(s) : s[e] = EOL /\ ~EndsReport(s, e)}

(* The board may be in the middle of a line when the daemon starts.        *)
Init ==
  /\ port = << >> /\ readBuf \in Leftovers
  /\ value = [s \in Sensors |-> 0]
  /\ at = "select"
  /\ printed \in 0 .. MaxTexts
  /\ found = Len(readBuf) /\ chunk = 0 /\ peak = Cardinality(Unknown(readBuf))

-----------------------------------------------------------------------------
(* The board prints: reports, the echo of every pwm command, and answers   *)
(* to update, which have no end and so begin the line of what comes next.  *)
Prints(t) ==
  /\ Len(port) < MaxChunk /\ printed < MaxTexts
  /\ port' = Append(port, t)
  /\ printed' = printed + 1
  /\ UNCHANGED <<readBuf, value, at, history>>

PrintsEnd ==
  /\ Len(port) < MaxChunk /\ printed > 0
  /\ port' = Append(port, EOL)
  /\ printed' = 0
  /\ UNCHANGED <<readBuf, value, at, history>>

-----------------------------------------------------------------------------
(* The daemon.                                                             *)

RoomInPointer == 1 - Len(readBuf)

Room == BufSize - Len(readBuf)

CleanBuffer == << >>

(* readBuf + strlen(readBuf): the last round's string stays in front.      *)
FromLastRound == readBuf

(* select times out, or finds input and read has no room for any of it:    *)
(* it returns 0, and nothing is parsed.                                    *)
NothingRead ==
  /\ at = "select"
  /\ port = << >> \/ Room = 0
  /\ UNCHANGED vars

(* select finds input, read appends what fits to the string.               *)
Read ==
  /\ at = "select"
  /\ port # << >> /\ Room > 0
  /\ chunk' = IF Len(port) < Room THEN Len(port) ELSE Room
  /\ readBuf' = FromLastRound \o SubSeq(port, 1, chunk')
  /\ port' = SubSeq(port, chunk' + 1, Len(port))
  /\ peak' = IF Cardinality(Unknown(readBuf')) > peak + 1
             THEN Cardinality(Unknown(readBuf')) - 1 ELSE peak
  /\ at' = "parse"
  /\ UNCHANGED <<value, printed, found>>

StoredUnset(v, text) ==
  IF IsReport(text) THEN [v EXCEPT ![Head(text).of] = Head(text).reading] ELSE v

(* Receive_Voltage, Receive_Current, Receive_Temp.  A report without an    *)
(* argument changes nothing.                                               *)
Received(v, text) ==
  IF IsReport(text) /\ Head(text).reading # NoReading
  THEN [v EXCEPT ![Head(text).of] = Head(text).reading]
  ELSE v

OneLineOnly(text) == FALSE

ParsedFurther(text) == IsReport(text)

(* CmdParse_ProcessString takes one line.  It returns -1, which ends the   *)
(* loop until the next read, after a line it does not know, too.           *)
ProcessString ==
  /\ at = "parse"
  /\ IF HasLine(readBuf)
     THEN /\ value' = Received(value, ThisLine(readBuf))
          /\ readBuf' = NextLines(readBuf)
          /\ at' = IF ParsedFurther(ThisLine(readBuf)) THEN "parse" ELSE "select"
     ELSE at' = "select" /\ UNCHANGED <<value, readBuf>>
  /\ UNCHANGED <<port, printed, history>>

Next ==
  \/ \E t \in Text : Prints(t)
  \/ PrintsEnd
  \/ NothingRead \/ Read \/ ProcessString

Spec == Init /\ [][Next]_vars

(* The daemon is scheduled; the board need not print anything.             *)
FairSpec == Spec /\ WF_vars(Read) /\ WF_vars(ProcessString)

-----------------------------------------------------------------------------
TypeOK ==
  /\ port \in Seq(Text \cup {EOL}) /\ Len(port) <= MaxChunk
  /\ readBuf \in Seq(Text \cup {EOL}) /\ Len(readBuf) <= BufSize
  /\ value \in [Sensors -> Readings \cup {0}]
  /\ at \in {"select", "parse"}
  /\ printed \in 0 .. MaxTexts
  /\ found \in 0 .. BufSize /\ chunk \in 0 .. MaxChunk /\ peak \in 0 .. BufSize

(* A line the parser does not know stops it, and what came behind it waits *)
(* in readBuf for the next round, which stops at the next such line.  So   *)
(* the string grows with the lines of this kind that rounds have left      *)
(* over, and with nothing else, at whatever pace the board prints and      *)
(* whatever was in the buffer at first.  Its end is written behind what    *)
(* read returned: inside the buffer as long as this length stays below its *)
(* size, one place behind it if not.                                       *)
BacklogBounded ==
  Len(readBuf) <= (peak + IF at = "select" THEN 1 ELSE 2) * MaxChunk + found

(* While no round has left such a line over, whatever is complete when the *)
(* loop selects came with the last read: no line waits for a second one.   *)
OneReadBehind ==
  peak = 0 /\ chunk > 0 /\ at = "select" /\ HasLine(readBuf) => Len(readBuf) < chunk

(* "If data ready to read? Read data", says Flow_Chart.uxf: the daemon     *)
(* never stops reading, at any pace, since every read that fills the       *)
(* buffer is followed by the end of a line, unless what was in the buffer  *)
(* at first fills it with less than a line of the board.  With a full      *)
(* buffer and no line to take from it, it selects and reads nothing for    *)
(* ever.                                                                   *)
KeepsReading == found + MaxTexts < BufSize /\ port # << >> ~> at = "parse"

-----------------------------------------------------------------------------
(* The refinement: what the board printed and is not parsed yet is in the  *)
(* string and in the port.                                                 *)
Never(v) == FALSE

Stream == INSTANCE LineStream WITH
  pending <- readBuf \o port, result <- value,
  Start <- [s \in Sensors |-> 0], Left <- Leftovers, Apply <- Received,
  Stops <- Never, Lossy <- FALSE, Burst <- 0, TooLong <- 0

(* Every line is parsed once, whole and in order, wherever reads divide    *)
(* it; so a reading is never replaced by an older one, and none is made up *)
(* of two reports.                                                         *)
KeepsLines == Stream!Spec
=============================================================================
