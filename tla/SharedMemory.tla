---------------------------- MODULE SharedMemory ----------------------------
(***************************************************************************)
(* The shared memory segment between the clients of PWM_Lib.c and the      *)
(* daemon of PWM_Controller.c and Cmds_PWM.c.                              *)
(*                                                                         *)
(* Every access of the segment by a client is a step of its own, channel   *)
(* by channel, and memset, the mutex and the pid are steps of a starting   *)
(* daemon.  The two bit fields share a machine word, so writing one is a   *)
(* load and a later store of both; the daemon does that without the lock.  *)
(* Its loop over the channels looks at all of them in one step and clears  *)
(* their bits in another.                                                  *)
(***************************************************************************)
EXTENDS Integers

CONSTANTS
  Clients,          \* processes that use the library
  Channels,         \* 0 .. PWM_NUM_CHANELS - 1, or some of them
  Updates,          \* the updates clients ask for: channel |-> percent
  NoDuty,           \* not a duty
  MaxStarts,        \* bound: how often the daemon is started
  MaxLines,         \* bound: complete lines in what one read() returns
  RestartAnytime    \* FALSE: no client is inside the lock when the daemon
                    \* is started again

Daemon == "daemon"
Free   == "free"

ASSUME ClientsAssumption == Daemon \notin Clients /\ Free \notin Clients
ASSUME UpdatesAssumption == \A u \in Updates : \A c \in DOMAIN u : u[c] \in Int
ASSUME NoDutyAssumption  == NoDuty \notin 0 .. 100
ASSUME BoundsAssumption  == MaxStarts \in Nat /\ MaxLines \in Nat /\ RestartAnytime \in BOOLEAN

VARIABLES
  \* the segment
  mutex,    \* access: Free or the process that holds it
  bits,     \* the word of data_ready and port_connected
  updated,  \* the channels with their bit set
  duty,     \* ch[].duty
  pid,      \* whose process id the segment names
  \* the operating system
  asleep,   \* processes that sleep in pthread_mutex_lock
  starts,   \* how often the daemon was started
  wire,     \* wire[c]: the last duty of c written to the serial port
  \* the daemon
  dpc,      \* its next access
  dword,    \* the word it has loaded, to store one bit
  msg,      \* msg[c]: the duty of c in the message being composed
  lines,    \* lines of readBuf still to be processed
  \* the clients
  cpc,      \* cpc[p]: the next access of client p
  job,      \* job[p]: the call it is in
  todo,     \* todo[p]: channels of the call it has not come to
  here,     \* here[p]: the channel it is at
  cword,    \* cword[p]: the word it has loaded
  cmask,    \* cmask[p]: the value of updated it has loaded
  \* history
  born      \* born[c]: in which life of the daemon a client wrote duty[c]

segment == <<mutex, bits, updated, duty, pid, born>>
daemon  == <<dpc, dword, msg, lines>>
loop    == <<todo, here>>
client  == <<cpc, job, loop, cword, cmask>>
vars    == <<segment, asleep, starts, wire, daemon, client>>

NoMsg   == [c \in Channels |-> NoDuty]
NoBits  == [ready |-> FALSE, port |-> FALSE]
IdleJob == [kind |-> "none", upd |-> <<>>]

UnclampedAbove(d) == IF d < 0 THEN 0 ELSE d

(* Verify_PWM of the library and Check_PWM of the daemon, in percent.      *)
Clamped(d) == IF d > 100 THEN 100 ELSE IF d < 0 THEN 0 ELSE d

Asked(u) == DOMAIN u \cap Channels

Init ==
  /\ mutex = Free /\ bits = NoBits /\ updated = {}
  /\ duty = [c \in Channels |-> 0] /\ pid = "none"
  /\ asleep = {} /\ starts = 0 /\ wire = NoMsg
  /\ dpc = "off" /\ dword = NoBits /\ msg = NoMsg /\ lines = 0
  /\ cpc = [p \in Clients |-> "idle"]
  /\ job = [p \in Clients |-> IdleJob]
  /\ todo = [p \in Clients |-> {}]
  /\ here = [p \in Clients |-> {}]
  /\ cword = [p \in Clients |-> NoBits]
  /\ cmask = [p \in Clients |-> {}]
  /\ born = [c \in Channels |-> 0]

-----------------------------------------------------------------------------
(* The mutex.  It is initialised with default attributes, so it is not     *)
(* shared between processes as far as the system knows: an unlock wakes a  *)
(* process that sleeps, or nobody.  Unlocking does not look at the owner.  *)

Locks(p) ==
  /\ mutex = Free
  /\ p \notin asleep
  /\ mutex' = p
  /\ UNCHANGED asleep

Sleeps(p) ==
  /\ mutex # Free
  /\ p \notin asleep
  /\ asleep' = asleep \cup {p}

Unlocks ==
  /\ mutex' = Free
  /\ \/ UNCHANGED asleep
     \/ \E q \in asleep : asleep' = asleep \ {q}

NeverUnlocks == UNCHANGED <<mutex, asleep>>

LeavesGetter == Unlocks

-----------------------------------------------------------------------------
(* Clients.  Goes(p, next) takes client p to its next access.              *)

Goes(p, next) == cpc' = [cpc EXCEPT ![p] = next]

(* PWM_Connect finds the version of the library only after the first       *)
(* daemon has written it, with its pid; a client stays attached after      *)
(* that, whatever becomes of the segment.                                  *)
Attached == starts > 0 /\ (starts = 1 => pid # "none")

Begin(p, kind, u) ==
  /\ cpc[p] = "idle"
  /\ Attached
  /\ todo' = [todo EXCEPT ![p] = Asked(u)]
  /\ job' = [job EXCEPT ![p] = [kind |-> kind, upd |-> u]]
  /\ Goes(p, "lock")
  /\ UNCHANGED <<segment, asleep, starts, wire, daemon, here, cword, cmask>>

AnyPort == TRUE

PortLooksConnected == bits.port

(* The calls look at port_connected before they take the lock.  SetPWM     *)
(* refuses a channel out of range, SetMultiplePWM skips it.                *)
PWM_SetPWM(p, u) ==
  /\ PortLooksConnected
  /\ \E c \in Channels : DOMAIN u = {c}
  /\ Begin(p, "single", u)

PWM_SetMultiplePWM(p, u) ==
  /\ PortLooksConnected
  /\ Begin(p, "multiple", u)

(* PWM_isConnected and the getters: a look under the lock.                 *)
PWM_Get(p) == Begin(p, "get", <<>>)

NextChannel(p) == IF todo[p] = {} THEN "loadbits" ELSE "duty"

ClientLock(p) ==
  /\ cpc[p] = "lock"
  /\ \/ /\ Locks(p)
        /\ Goes(p, IF job[p].kind = "get" THEN "unlock" ELSE NextChannel(p))
     \/ /\ Sleeps(p)
        /\ UNCHANGED <<mutex, cpc>>
  /\ UNCHANGED <<bits, updated, duty, pid, born, starts, wire, daemon, job, loop, cword, cmask>>

(* The duty of one channel: the only one of PWM_SetPWM, the next in the    *)
(* array of PWM_SetMultiplePWM, which the caller may have in any order.    *)
WriteDuty(p) ==
  /\ cpc[p] = "duty"
  /\ \E c \in todo[p] :
       /\ duty' = [duty EXCEPT ![c] = Clamped(job[p].upd[c])]
       /\ born' = [born EXCEPT ![c] = starts]
       /\ todo' = [todo EXCEPT ![p] = @ \ {c}]
       /\ here' = [here EXCEPT ![p] = {c}]
  /\ Goes(p, IF job[p].kind = "single" THEN "loadbits" ELSE "loadmask")
  /\ UNCHANGED <<mutex, bits, updated, pid, asleep, starts, wire, daemon, job, cword, cmask>>

LoadBits(p) ==
  /\ cpc[p] = "loadbits"
  /\ cword' = [cword EXCEPT ![p] = bits]
  /\ Goes(p, "storebits")
  /\ UNCHANGED <<segment, asleep, starts, wire, daemon, job, loop, cmask>>

(* data_ready = 1, and port_connected as it was when the word was loaded.  *)
StoreBits(p) ==
  /\ cpc[p] = "storebits"
  /\ bits' = [cword[p] EXCEPT !.ready = TRUE]
  /\ cword' = [cword EXCEPT ![p] = NoBits]
  /\ Goes(p, IF job[p].kind = "single" THEN "loadmask" ELSE "unlock")
  /\ UNCHANGED <<mutex, updated, duty, pid, born, asleep, starts, wire, daemon, job, loop, cmask>>

LoadMask(p) ==
  /\ cpc[p] = "loadmask"
  /\ cmask' = [cmask EXCEPT ![p] = updated]
  /\ Goes(p, "storemask")
  /\ UNCHANGED <<segment, asleep, starts, wire, daemon, job, loop, cword>>

OnlyThese(p) == here[p]

MergedMask(p) == cmask[p] \cup here[p]

StoreMask(p) ==
  /\ cpc[p] = "storemask"
  /\ updated' = MergedMask(p)
  /\ cmask' = [cmask EXCEPT ![p] = {}]
  /\ here' = [here EXCEPT ![p] = {}]
  /\ Goes(p, IF job[p].kind = "single" THEN "unlock" ELSE NextChannel(p))
  /\ UNCHANGED <<mutex, bits, duty, pid, born, asleep, starts, wire, daemon, job, todo, cword>>

ClientUnlock(p) ==
  /\ cpc[p] = "unlock"
  /\ IF job[p].kind = "get" THEN LeavesGetter /\ Goes(p, "idle") /\ job' = [job EXCEPT ![p] = IdleJob]
                            ELSE Unlocks /\ Goes(p, "kill") /\ UNCHANGED job
  /\ UNCHANGED <<bits, updated, duty, pid, born, starts, wire, daemon, loop, cword, cmask>>

(* kill(pid, SIGUSR1), a signal without a handler, so it ends the process  *)
(* the segment names, at once: the one that was started, as long as it has *)
(* not forked; and the client itself, with its process group, where        *)
(* memset() has put 0 in its place.  Another client takes its place then.  *)
ClientKill(p) ==
  /\ cpc[p] = "kill"
  /\ Goes(p, "idle")
  /\ job' = [job EXCEPT ![p] = IdleJob]
  /\ dpc' = IF pid = "launcher" /\ dpc = "fork" THEN "off" ELSE dpc
  /\ UNCHANGED <<segment, asleep, starts, wire, dword, msg, lines, loop, cword, cmask>>

ClientStep(p) ==
  \/ ClientLock(p) \/ WriteDuty(p) \/ LoadBits(p) \/ StoreBits(p)
  \/ LoadMask(p) \/ StoreMask(p) \/ ClientUnlock(p) \/ ClientKill(p)

ClientCall(p) ==
  \/ \E u \in Updates : PWM_SetPWM(p, u) \/ PWM_SetMultiplePWM(p, u)
  \/ PWM_Get(p)

-----------------------------------------------------------------------------
(* The daemon.                                                             *)

Proceeds(next) == dpc' = next

InClientSection(p) ==
  cpc[p] \in {"duty", "loadbits", "storebits", "loadmask", "storemask", "unlock"}

NobodyInside == RestartAnytime \/ \A p \in Clients : ~InClientSection(p)

OnlyMutexReset ==
  /\ mutex' = Free
  /\ pid' = "none"
  /\ UNCHANGED <<bits, updated, duty, born>>

(* memset(0) of the segment, which frees the mutex, too.                   *)
SegmentZeroed ==
  /\ mutex' = Free
  /\ bits' = NoBits
  /\ updated' = {}
  /\ duty' = [c \in Channels |-> 0]
  /\ pid' = "none"
  /\ UNCHANGED born

(* PWM_CreateSharedMemory is the next three steps.                         *)
ZeroSegment ==
  /\ dpc = "off"
  /\ starts < MaxStarts
  /\ NobodyInside
  /\ SegmentZeroed
  /\ starts' = starts + 1
  /\ Proceeds("init")
  /\ UNCHANGED <<asleep, wire, dword, msg, lines, client>>

(* pthread_mutex_init: free again, whoever took it since.                  *)
InitMutex ==
  /\ dpc = "init"
  /\ NobodyInside
  /\ mutex' = Free
  /\ Proceeds("pid")
  /\ UNCHANGED <<bits, updated, duty, pid, born, asleep, starts, wire, dword, msg, lines, client>>

(* getpid(): of the process that was started, not of the daemon it forks;  *)
(* and the version.                                                        *)
SetPid ==
  /\ dpc = "pid"
  /\ pid' = "launcher"
  /\ Proceeds("fork")
  /\ UNCHANGED <<mutex, bits, updated, duty, born, asleep, starts, wire, dword, msg, lines, client>>

(* daemon() forks, or fails.                                               *)
Daemonise ==
  /\ dpc = "fork"
  /\ Proceeds("open") \/ Proceeds("exit")
  /\ UNCHANGED <<segment, asleep, starts, wire, dword, msg, lines, client>>

(* Connect_To_Port: the port may be absent, and is tried again after a     *)
(* minute; otherwise port_connected is set, without the lock.              *)
OpenFails ==
  /\ dpc = "open"
  /\ Proceeds("sleep")
  /\ UNCHANGED <<segment, asleep, starts, wire, dword, msg, lines, client>>

SleepMinute ==
  /\ dpc = "sleep"
  /\ Proceeds("open")
  /\ UNCHANGED <<segment, asleep, starts, wire, dword, msg, lines, client>>

OpenSucceeds ==
  /\ dpc = "open"
  /\ dword' = bits
  /\ Proceeds("connect")
  /\ UNCHANGED <<segment, asleep, starts, wire, msg, lines, client>>

(* The start-up and restart commands follow; what their write() returns is *)
(* not looked at.                                                          *)
PWM_SetConnected ==
  /\ dpc = "connect"
  /\ bits' = [dword EXCEPT !.port = TRUE]
  /\ dword' = NoBits
  /\ Proceeds("lock")
  /\ UNCHANGED <<mutex, updated, duty, pid, born, asleep, starts, wire, msg, lines, client>>

(* Where the daemon takes the lock: for PWM_Send_ChanelData ("lock") and   *)
(* for the Receive_ functions ("receive").                                 *)
DaemonLock ==
  /\ dpc \in {"lock", "receive"}
  /\ \/ Locks(Daemon) /\ Proceeds(IF dpc = "lock" THEN "collect" ELSE "received")
     \/ Sleeps(Daemon) /\ UNCHANGED <<mutex, dpc>>
  /\ UNCHANGED <<bits, updated, duty, pid, born, starts, wire, dword, msg, lines, client>>

(* PWM_Send_ChanelData: the message is composed from the duties ...        *)
Collect ==
  /\ dpc = "collect"
  /\ msg' = [c \in Channels |-> IF c \in updated THEN Clamped(duty[c]) ELSE NoDuty]
  /\ Proceeds("clearmask")
  /\ UNCHANGED <<segment, asleep, starts, wire, dword, lines, client>>

Sent == { c \in Channels : msg[c] # NoDuty }

(* ... whose bits are cleared ...                                          *)
ClearMask ==
  /\ dpc = "clearmask"
  /\ updated' = updated \ Sent
  /\ Proceeds("unlock")
  /\ UNCHANGED <<mutex, bits, duty, pid, born, asleep, starts, wire, dword, msg, lines, client>>

DaemonUnlock ==
  /\ dpc \in {"unlock", "received"}
  /\ Unlocks
  /\ Proceeds(IF dpc = "unlock" THEN "write" ELSE "parse")
  /\ UNCHANGED <<bits, updated, duty, pid, born, starts, wire, dword, msg, lines, client>>

(* ... and it is written after the unlock.                                 *)
WriteSucceeds ==
  /\ dpc = "write"
  /\ wire' = [c \in Channels |-> IF c \in Sent THEN msg[c] ELSE wire[c]]
  /\ msg' = NoMsg
  /\ Proceeds("select")
  /\ UNCHANGED <<segment, asleep, starts, dword, lines, client>>

(* Check_Serial begins PWM_ClearSharedMemory.                              *)
SerialFails ==
  /\ dpc \in {"write", "read"}
  /\ msg' = NoMsg
  /\ Proceeds("lost")
  /\ UNCHANGED <<segment, asleep, starts, wire, dword, lines, client>>

WaitsForever == FALSE

TimesOut == TRUE

(* select() with a timeout of SYSTEM_DELAY, then the next round of the     *)
(* loop; or there is something to read.                                    *)
SelectTimesOut ==
  /\ dpc = "select"
  /\ TimesOut
  /\ Proceeds("lock")
  /\ UNCHANGED <<segment, asleep, starts, wire, dword, msg, lines, client>>

SelectReadable ==
  /\ dpc = "select"
  /\ Proceeds("read")
  /\ UNCHANGED <<segment, asleep, starts, wire, dword, msg, lines, client>>

ReadSucceeds ==
  /\ dpc = "read"
  /\ lines' \in 0 .. MaxLines
  /\ Proceeds("parse")
  /\ UNCHANGED <<segment, asleep, starts, wire, dword, msg, client>>

(* One call of CmdParse_ProcessString: a known line is received and the    *)
(* loop goes on; at an unknown one, or at the end, it stops.               *)
ProcessLine ==
  /\ dpc = "parse"
  /\ lines > 0
  /\ lines' = lines - 1
  /\ Proceeds("receive")
  /\ UNCHANGED <<segment, asleep, starts, wire, dword, msg, client>>

StopProcessing ==
  /\ dpc = "parse"
  /\ lines' = 0
  /\ Proceeds("lock")
  /\ UNCHANGED <<segment, asleep, starts, wire, dword, msg, client>>

(* PWM_ClearSharedMemory, without the lock; called when the port fails     *)
(* ("lost") and by exit(0) ("exit").  It ends in shmdt().                  *)
LoadForClear ==
  /\ dpc \in {"lost", "exit"}
  /\ dword' = bits
  /\ Proceeds(IF dpc = "lost" THEN "lostclear" ELSE "exitclear")
  /\ UNCHANGED <<segment, asleep, starts, wire, msg, lines, client>>

PWM_ClearSharedMemory ==
  /\ dpc \in {"lostclear", "exitclear"}
  /\ bits' = NoBits
  /\ dword' = NoBits
  /\ Proceeds(IF dpc = "lostclear" THEN "detached" ELSE "off")
  /\ UNCHANGED <<mutex, updated, duty, pid, born, asleep, starts, wire, msg, lines, client>>

(* After shmdt() the next use of the segment is a segmentation fault: in   *)
(* PWM_Send_ChanelData when Serial_fd is what close() returned, 0; in      *)
(* PWM_SetConnected, a minute later, when close() failed.                  *)
SegmentationFault ==
  /\ dpc = "detached"
  /\ Proceeds("off")
  /\ UNCHANGED <<segment, asleep, starts, wire, dword, msg, lines, client>>

(* SIGTERM: Run_CtrlC calls exit(0) wherever the daemon is, which runs     *)
(* System_Shutdown; on a detached segment that is a fault, and before the  *)
(* handler is installed the signal just ends the process.                  *)
Run_CtrlC ==
  /\ dpc \notin {"off", "exit", "exitclear"}
  /\ Proceeds(IF dpc \in {"init", "pid", "detached"} THEN "off" ELSE "exit")
  /\ dword' = NoBits /\ msg' = NoMsg /\ lines' = 0
  /\ asleep' = asleep \ {Daemon}
  /\ UNCHANGED <<segment, starts, wire, client>>

(* What the daemon does by itself; that the board sends something is up to *)
(* the board.                                                              *)
DaemonRuns ==
  \/ InitMutex \/ SetPid \/ Daemonise
  \/ OpenFails \/ SleepMinute \/ OpenSucceeds \/ PWM_SetConnected
  \/ DaemonLock \/ Collect \/ ClearMask \/ DaemonUnlock
  \/ WriteSucceeds \/ SerialFails
  \/ SelectTimesOut \/ ReadSucceeds \/ ProcessLine \/ StopProcessing
  \/ LoadForClear \/ PWM_ClearSharedMemory \/ SegmentationFault

DaemonStep == DaemonRuns \/ SelectReadable

Next ==
  \/ \E p \in Clients : ClientCall(p) \/ ClientStep(p)
  \/ ZeroSegment
  \/ DaemonStep
  \/ Run_CtrlC

Spec == Init /\ [][Next]_vars

(* Processes are scheduled, and a call that has begun goes on; nobody has  *)
(* to call, start, stop or send anything.                                  *)
FairSpec ==
  /\ Spec
  /\ \A p \in Clients : WF_vars(ClientStep(p))
  /\ WF_vars(DaemonRuns)
-----------------------------------------------------------------------------
(* Where the daemon may be.                                                *)
Serving ==
  dpc \in {"lock", "receive", "collect", "clearmask", "unlock", "received",
           "write", "select", "read", "parse"}

Holding(p) == IF p = Daemon THEN dpc \in {"collect", "clearmask", "unlock", "received"}
                            ELSE InClientSection(p)
-----------------------------------------------------------------------------
TypeOK ==
  /\ mutex \in Clients \cup {Daemon, Free}
  /\ bits \in [ready : BOOLEAN, port : BOOLEAN]
  /\ updated \subseteq Channels
  /\ duty \in [Channels -> 0 .. 100]
  /\ pid \in {"none", "launcher"}
  /\ asleep \subseteq Clients \cup {Daemon}
  /\ starts \in 0 .. MaxStarts
  /\ wire \in [Channels -> (0 .. 100) \cup {NoDuty}]
  /\ dpc \in {"off", "init", "pid", "fork", "open", "sleep", "connect", "lost",
              "lostclear", "exit", "exitclear", "detached"} \/ Serving
  /\ dword \in [ready : BOOLEAN, port : BOOLEAN]
  /\ msg \in [Channels -> (0 .. 100) \cup {NoDuty}]
  /\ lines \in 0 .. MaxLines
  /\ cpc \in [Clients -> {"idle", "lock", "duty", "loadbits", "storebits", "loadmask",
                          "storemask", "unlock", "kill"}]
  /\ DOMAIN job = Clients
  /\ \A p \in Clients :
       /\ job[p].kind \in {"none", "single", "multiple", "get"}
       /\ job[p].upd \in Updates \cup {<<>>}
  /\ todo \in [Clients -> SUBSET Channels] /\ here \in [Clients -> SUBSET Channels]
  /\ cword \in [Clients -> [ready : BOOLEAN, port : BOOLEAN]]
  /\ cmask \in [Clients -> SUBSET Channels]
  /\ born \in [Channels -> 0 .. MaxStarts]

(* Lock discipline: whoever the mutex names is inside a critical section   *)
(* and will leave it, except the daemon that a signal ended inside one.    *)
HolderIsInside ==
  mutex # Free => Holding(mutex) \/ (mutex = Daemon /\ ~Serving)

(* While the first daemon on a segment serves the port, port_connected     *)
(* says so to the clients, although it and data_ready are stored together  *)
(* and the daemon stores without the lock.                                 *)
ServingIsConnected == starts = 1 /\ Serving => bits.port

(* No output is switched on by what an earlier daemon left: a duty in a    *)
(* message was stored in this life.  A client that memset() catches inside *)
(* the lock may bring bits of the earlier life back into the mask, but the *)
(* duties they stand for are then the zeros of memset().                   *)
NothingStale ==
  \A c \in Channels : msg[c] \notin {NoDuty, 0} => born[c] = starts

(* What PWM_Test.c reports as "Hardware Disconnected": after the daemon    *)
(* has ended, port_connected is 0.                                         *)
DisconnectedAfterExit == dpc = "off" => ~bits.port
-----------------------------------------------------------------------------
(* The refinement.  An update is posted as a whole when its client gets    *)
(* the lock, under which its duties and bits follow channel by channel; it *)
(* is taken when the daemon clears the bits of the message it has          *)
(* composed.                                                               *)

Writing(p) == cpc[p] \in {"duty", "loadbits", "storebits", "loadmask", "storemask"}

Posted == IF mutex \in Clients /\ Writing(mutex) THEN job[mutex].upd ELSE <<>>

Pending == [c \in Channels |-> IF c \in Asked(Posted) THEN Clamped(Posted[c])
                               ELSE IF c \in updated THEN duty[c] ELSE NoDuty]

Taken == IF dpc = "clearmask" THEN NoMsg ELSE msg

ClampedDuties == UNION { { Clamped(u[c]) : c \in Asked(u) } : u \in Updates }

Mailbox == INSTANCE DutyMailbox
  WITH Duties <- ClampedDuties, pending <- Pending, taken <- Taken, board <- wire

(* Every step is a post, a take, a delivery, a loss or a restart of the    *)
(* mailbox, or none of its business.                                       *)
KeepsMailbox == Mailbox!Spec

(* A posted update is taken to the port, unless the daemon stops serving   *)
(* or sleeps in a lock nobody wakes it from.                               *)
TakenUnlessAsleep ==
  \A c \in Channels :
    (Serving /\ c \in updated) ~> (c \notin updated \/ ~Serving \/ Daemon \in asleep)

(* The flow chart of the daemon: "Is data ready bit set?" - "Send updated  *)
(* data to PWM Controller", in every round of the loop.                    *)
TakenWhileServing ==
  \A c \in Channels : (Serving /\ c \in updated) ~> (c \notin updated \/ ~Serving)
=============================================================================
