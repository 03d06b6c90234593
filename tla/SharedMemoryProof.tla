------------------------- MODULE SharedMemoryProof -------------------------
(***************************************************************************)
(* Proofs about SharedMemory, for any set of clients, channels and updates *)
(* and any number of lines in a read.                                      *)
(***************************************************************************)
EXTENDS SharedMemory, TLAPS

(* The part of the type invariant the lock depends on.                     *)
LockType ==
  /\ mutex \in Clients \cup {Daemon, Free}
  /\ cpc \in [Clients -> {"idle", "lock", "duty", "loadbits", "storebits", "loadmask",
                          "storemask", "unlock", "kill"}]
  /\ DOMAIN job = Clients

(* Who holds the mutex is inside, or is the daemon and on its way out: a   *)
(* daemon that left with the lock never serves again before memset() of    *)
(* the next one has freed it.                                              *)
LockInv ==
  /\ LockType
  /\ \A p \in Clients : mutex = p => InClientSection(p)
  /\ mutex = Daemon => Holding(Daemon) \/ dpc \in {"exit", "exitclear", "off"}

LEMMA LockInit == Init => LockInv
  BY ClientsAssumption DEF Init, LockInv, LockType, InClientSection, Daemon, Free

(* What a call of a client does to the lock.                               *)
LEMMA LockClientCall ==
  ASSUME LockInv, NEW p \in Clients, ClientCall(p)
  PROVE  LockInv'
<1>1. PICK kind, u : Begin(p, kind, u)
  BY DEF ClientCall, PWM_SetPWM, PWM_SetMultiplePWM, PWM_Get
<1>2. /\ cpc[p] = "idle" /\ cpc' = [cpc EXCEPT ![p] = "lock"]
      /\ DOMAIN job' = DOMAIN job
      /\ UNCHANGED <<mutex, dpc>>
  BY <1>1 DEF Begin, Goes, segment, daemon
<1> QED BY <1>2, ClientsAssumption DEF LockInv, LockType, InClientSection, Holding

(* What an access of a client does to it.                                  *)
LEMMA LockClientStep ==
  ASSUME LockInv, NEW p \in Clients, ClientStep(p)
  PROVE  LockInv'
<1> USE ClientsAssumption
    DEF LockInv, LockType, InClientSection, Holding, Goes, NextChannel, segment, daemon
<1>1. CASE ClientLock(p)
  BY <1>1 DEF ClientLock, Locks, Sleeps
<1>2. CASE WriteDuty(p) \/ LoadBits(p) \/ StoreBits(p) \/ LoadMask(p) \/ StoreMask(p)
  BY <1>2 DEF WriteDuty, LoadBits, StoreBits, LoadMask, StoreMask
<1>3. CASE ClientUnlock(p)
  BY <1>3 DEF ClientUnlock, LeavesGetter, Unlocks, Daemon, Free
<1>4. CASE ClientKill(p)
  BY <1>4 DEF ClientKill
<1> QED BY <1>1, <1>2, <1>3, <1>4 DEF ClientStep

(* What the daemon does to it.                                             *)
LEMMA LockDaemon ==
  ASSUME LockInv, ZeroSegment \/ DaemonStep \/ Run_CtrlC
  PROVE  LockInv'
<1> USE ClientsAssumption
    DEF LockInv, LockType, InClientSection, Holding, Proceeds, segment, client
<1>1. CASE ZeroSegment \/ InitMutex
  BY <1>1 DEF ZeroSegment, InitMutex, SegmentZeroed, Daemon, Free
<1>0. CASE SetPid \/ Daemonise
  BY <1>0 DEF SetPid, Daemonise
<1>2. CASE OpenFails \/ SleepMinute \/ OpenSucceeds \/ PWM_SetConnected
  BY <1>2 DEF OpenFails, SleepMinute, OpenSucceeds, PWM_SetConnected
<1>3. CASE DaemonLock
  BY <1>3 DEF DaemonLock, Locks, Sleeps, Daemon, Free
<1>4. CASE Collect \/ ClearMask
  BY <1>4 DEF Collect, ClearMask
<1>5. CASE DaemonUnlock
  BY <1>5 DEF DaemonUnlock, Unlocks, Daemon, Free
<1>6. CASE WriteSucceeds \/ SerialFails
  BY <1>6 DEF WriteSucceeds, SerialFails
<1>7. CASE SelectTimesOut \/ SelectReadable \/ ReadSucceeds \/ ProcessLine \/ StopProcessing
  BY <1>7 DEF SelectTimesOut, SelectReadable, ReadSucceeds, ProcessLine, StopProcessing
<1>8. CASE LoadForClear \/ PWM_ClearSharedMemory \/ SegmentationFault
  BY <1>8 DEF LoadForClear, PWM_ClearSharedMemory, SegmentationFault
<1>9. CASE Run_CtrlC
  BY <1>9 DEF Run_CtrlC
<1> QED BY <1>0, <1>1, <1>2, <1>3, <1>4, <1>5, <1>6, <1>7, <1>8, <1>9 DEF DaemonStep, DaemonRuns

LEMMA LockInvariant == Spec => []LockInv
<1>1. LockInv /\ [Next]_vars => LockInv'
  <2>1. LockInv /\ UNCHANGED vars => LockInv'
    BY DEF vars, segment, daemon, client, LockInv, LockType, InClientSection, Holding
  <2> QED BY <2>1, LockClientCall, LockClientStep, LockDaemon DEF Next
<1> QED BY <1>1, LockInit, PTL DEF Spec

(* The lock is never left behind by a call that returns: it is held by     *)
(* someone inside, or by a daemon a signal has ended inside, whatever the  *)
(* number of clients and restarts.                                         *)
THEOREM HolderIsInsideHolds == Spec => []HolderIsInside
<1>1. LockInv => HolderIsInside
  BY DEF LockInv, LockType, HolderIsInside, Holding, Serving
<1> QED BY <1>1, LockInvariant, PTL

-----------------------------------------------------------------------------
(* The flag port_connected, in the life of the first daemon.               *)

Words == [ready : BOOLEAN, port : BOOLEAN]

FlagType ==
  /\ bits \in Words /\ dword \in Words
  /\ cword \in [Clients -> Words]
  /\ cpc \in [Clients -> {"idle", "lock", "duty", "loadbits", "storebits", "loadmask",
                          "storemask", "unlock", "kill"}]
  /\ DOMAIN job = Clients
  /\ starts \in Nat

(* A client that has not seen the flag can only be looking.                *)
OnlyLooks(p) == cpc[p] = "idle" \/ (cpc[p] \in {"lock", "unlock"} /\ job[p].kind = "get")

BeforeConnected == {"init", "pid", "fork", "open", "sleep", "connect"}

(* Before the flag is set nobody got past it, so nobody carries a word     *)
(* with the flag down; from then on every word loaded has it up.           *)
FlagInv ==
  /\ FlagType
  /\ starts = 0 => dpc = "off"
  /\ starts = 0 \/ (starts = 1 /\ dpc \in BeforeConnected) =>
       ~bits.port /\ \A p \in Clients : OnlyLooks(p)
  /\ starts = 1 /\ Serving =>
       bits.port /\ \A p \in Clients : cpc[p] = "storebits" => cword[p].port

LEMMA FlagInit == Init => FlagInv
  BY DEF Init, FlagInv, FlagType, OnlyLooks, BeforeConnected, Serving, NoBits, Words

LEMMA FlagClientCall ==
  ASSUME FlagInv, NEW p \in Clients, ClientCall(p)
  PROVE  FlagInv'
<1>1. PICK kind, u : Begin(p, kind, u) /\ (kind = "get" \/ bits.port)
  BY DEF ClientCall, PWM_SetPWM, PWM_SetMultiplePWM, PWM_Get, PortLooksConnected
<1>2. /\ starts > 0 /\ cpc[p] = "idle" /\ cpc' = [cpc EXCEPT ![p] = "lock"]
      /\ job' = [job EXCEPT ![p] = [kind |-> kind, upd |-> u]]
      /\ UNCHANGED <<bits, starts, dpc, dword, cword>>
  BY <1>1 DEF Begin, Attached, Goes, segment, daemon
<1> QED BY <1>1, <1>2 DEF FlagInv, FlagType, OnlyLooks, Serving, BeforeConnected

LEMMA FlagClientStep ==
  ASSUME FlagInv, NEW p \in Clients, ClientStep(p)
  PROVE  FlagInv'
<1> USE DEF FlagInv, FlagType, OnlyLooks, Serving, Goes, NextChannel, BeforeConnected,
            segment, daemon
<1>1. CASE ClientLock(p)
  BY <1>1 DEF ClientLock
<1>2. CASE WriteDuty(p)
  BY <1>2 DEF WriteDuty
<1>3. CASE LoadBits(p)
  BY <1>3 DEF LoadBits
<1>4. CASE StoreBits(p)
  BY <1>4 DEF StoreBits, NoBits, Words
<1>5. CASE LoadMask(p) \/ StoreMask(p)
  BY <1>5 DEF LoadMask, StoreMask
<1>6. CASE ClientUnlock(p)
  BY <1>6 DEF ClientUnlock
<1>7. CASE ClientKill(p)
  <2>1. /\ cpc[p] = "kill" /\ cpc' = [cpc EXCEPT ![p] = "idle"]
        /\ DOMAIN job' = Clients /\ \A q \in Clients \ {p} : job'[q] = job[q]
        /\ dpc' \in {dpc, "off"}
        /\ UNCHANGED <<bits, dword, starts, cword>>
    BY <1>7 DEF ClientKill
  <2>2. FlagType' /\ (starts' = 0 => dpc' = "off")
    BY <2>1
  <2>3. ~(starts = 0 \/ (starts = 1 /\ dpc \in BeforeConnected))
    BY <2>1
  <2>4. ~(starts' = 0 \/ (starts' = 1 /\ dpc' \in BeforeConnected))
    BY <2>1, <2>3
  <2>5. starts' = 1 /\ Serving' => bits'.port /\ \A q \in Clients : cpc'[q] = "storebits" => cword'[q].port
    BY <2>1
  <2> QED BY <2>2, <2>4, <2>5
<1> QED BY <1>1, <1>2, <1>3, <1>4, <1>5, <1>6, <1>7 DEF ClientStep

LEMMA FlagDaemon ==
  ASSUME FlagInv, ZeroSegment \/ DaemonStep \/ Run_CtrlC
  PROVE  FlagInv'
<1> USE DEF FlagInv, FlagType, OnlyLooks, Serving, Proceeds, segment, client, NoBits, Words,
            BeforeConnected
<1>1. CASE ZeroSegment
  BY <1>1 DEF ZeroSegment, SegmentZeroed
<1>0. CASE InitMutex \/ SetPid \/ Daemonise
  BY <1>0 DEF InitMutex, SetPid, Daemonise
<1>2. CASE OpenFails \/ SleepMinute \/ OpenSucceeds
  BY <1>2 DEF OpenFails, SleepMinute, OpenSucceeds
<1>3. CASE PWM_SetConnected
  BY <1>3 DEF PWM_SetConnected
<1>4. CASE DaemonLock \/ Collect \/ ClearMask \/ DaemonUnlock
  BY <1>4 DEF DaemonLock, Collect, ClearMask, DaemonUnlock
<1>5. CASE WriteSucceeds \/ SerialFails
  BY <1>5 DEF WriteSucceeds, SerialFails
<1>6. CASE SelectTimesOut \/ SelectReadable \/ ReadSucceeds \/ ProcessLine \/ StopProcessing
  BY <1>6 DEF SelectTimesOut, SelectReadable, ReadSucceeds, ProcessLine, StopProcessing
<1>7. CASE LoadForClear \/ SegmentationFault
  BY <1>7 DEF LoadForClear, SegmentationFault
<1>8. CASE PWM_ClearSharedMemory
  <2>1. /\ dpc \in {"lostclear", "exitclear"} /\ dpc' \in {"detached", "off"}
        /\ bits' \in Words /\ dword' \in Words
        /\ UNCHANGED <<starts, cpc, job, cword>>
    BY <1>8 DEF PWM_ClearSharedMemory
  <2> QED BY <2>1
<1>9. CASE Run_CtrlC
  BY <1>9 DEF Run_CtrlC
<1> QED BY <1>0, <1>1, <1>2, <1>3, <1>4, <1>5, <1>6, <1>7, <1>8, <1>9 DEF DaemonStep, DaemonRuns

(* While the first daemon on a fresh segment serves the port, its flag     *)
(* stays up, although every client that posts stores the flag's word too.  *)
THEOREM ServingIsConnectedHolds == Spec => []ServingIsConnected
<1>1. FlagInv /\ [Next]_vars => FlagInv'
  <2>1. FlagInv /\ UNCHANGED vars => FlagInv'
    BY DEF vars, segment, daemon, client, FlagInv, FlagType, OnlyLooks, Serving
  <2> QED BY <2>1, FlagClientCall, FlagClientStep, FlagDaemon DEF Next
<1>2. FlagInv => ServingIsConnected
  BY DEF FlagInv, ServingIsConnected
<1> QED BY <1>1, <1>2, FlagInit, PTL DEF Spec
-----------------------------------------------------------------------------
(* Types.                                                                  *)

Places == {"idle", "lock", "duty", "loadbits", "storebits", "loadmask",
           "storemask", "unlock", "kill"}

DaemonPlaces == {"off", "init", "pid", "fork", "open", "sleep", "connect",
                 "lost", "lostclear", "exit", "exitclear", "detached",
                 "lock", "receive", "collect", "clearmask", "unlock", "received",
                 "write", "select", "read", "parse"}

(* A client that writes is in a call that has something to write.          *)
JobInv ==
  \A p \in Clients :
    /\ cpc[p] # "idle" => job[p].kind \in {"single", "multiple", "get"}
    /\ cpc[p] \in {"duty", "loadbits", "storebits", "loadmask", "storemask"} =>
         job[p].kind # "get"
    /\ cpc[p] # "idle" => todo[p] \subseteq Asked(job[p].upd)
    /\ job[p].kind \in {"single", "multiple"} => job[p].upd \in Updates

(* Every duty in the segment that is not zero was written in this life of  *)
(* the daemon; so was every duty in a message, since there is a message    *)
(* only on its way to the port and so none when a daemon starts.           *)
FreshInv ==
  /\ \A c \in Channels : duty[c] # 0 => born[c] = starts
  /\ \A c \in Channels : msg[c] \notin {NoDuty, 0} => born[c] = starts
  /\ dpc \notin {"clearmask", "unlock", "write"} => msg = NoMsg

TypeInv == TypeOK /\ JobInv /\ FreshInv

(* The type invariant, part by part.                                       *)
SegmentType ==
  /\ mutex \in Clients \cup {Daemon, Free}
  /\ bits \in Words
  /\ updated \subseteq Channels
  /\ duty \in [Channels -> 0 .. 100]
  /\ pid \in {"none", "launcher"}
  /\ born \in [Channels -> 0 .. MaxStarts]

SystemType ==
  /\ asleep \subseteq Clients \cup {Daemon}
  /\ starts \in 0 .. MaxStarts
  /\ wire \in [Channels -> (0 .. 100) \cup {NoDuty}]

DaemonType ==
  /\ dpc \in DaemonPlaces
  /\ dword \in Words
  /\ msg \in [Channels -> (0 .. 100) \cup {NoDuty}]
  /\ lines \in 0 .. MaxLines

ClientType ==
  /\ cpc \in [Clients -> Places]
  /\ DOMAIN job = Clients
  /\ \A p \in Clients :
       /\ job[p].kind \in {"none", "single", "multiple", "get"}
       /\ job[p].upd \in Updates \cup {<<>>}
  /\ todo \in [Clients -> SUBSET Channels] /\ here \in [Clients -> SUBSET Channels]
  /\ cword \in [Clients -> Words]
  /\ cmask \in [Clients -> SUBSET Channels]

LEMMA TypeParts ==
  /\ TypeOK <=> SegmentType /\ SystemType /\ DaemonType /\ ClientType
  /\ TypeOK' <=> SegmentType' /\ SystemType' /\ DaemonType' /\ ClientType'
<1>1. TypeOK <=> SegmentType /\ SystemType /\ DaemonType /\ ClientType
  BY DEF TypeOK, SegmentType, SystemType, DaemonType, ClientType, Places, DaemonPlaces,
         Words, Serving
<1>2. TypeOK' <=> SegmentType' /\ SystemType' /\ DaemonType' /\ ClientType'
  BY DEF TypeOK, SegmentType, SystemType, DaemonType, ClientType, Places, DaemonPlaces,
         Words, Serving
<1> QED BY <1>1, <1>2

LEMMA WordsAndMessages ==
  /\ NoBits \in Words
  /\ NoMsg \in [Channels -> (0 .. 100) \cup {NoDuty}]
  /\ 0 \in 0 .. MaxLines /\ 0 \in 0 .. MaxStarts
  BY BoundsAssumption DEF NoBits, Words, NoMsg

LEMMA ClampedInRange ==
  /\ \A d \in Int : Clamped(d) \in 0 .. 100
  /\ \A d \in 0 .. 100 : Clamped(d) = d
  BY DEF Clamped

LEMMA TypeInit == Init => TypeInv
<1> SUFFICES ASSUME Init PROVE TypeInv
  OBVIOUS
<1>1. SegmentType /\ SystemType
  BY WordsAndMessages DEF Init, SegmentType, SystemType
<1>2. DaemonType /\ ClientType
  BY WordsAndMessages DEF Init, DaemonType, ClientType, DaemonPlaces, Places, IdleJob
<1>3. JobInv
  BY DEF Init, JobInv, IdleJob
<1>4. FreshInv
  BY DEF Init, FreshInv
<1> QED BY <1>1, <1>2, <1>3, <1>4, TypeParts DEF TypeInv

LEMMA TypeClientCall ==
  ASSUME TypeInv, NEW p \in Clients, ClientCall(p)
  PROVE  TypeInv'
<1>1. PICK kind \in {"single", "multiple", "get"}, u \in Updates \cup {<<>>} :
        Begin(p, kind, u) /\ (kind # "get" => u \in Updates)
  BY DEF ClientCall, PWM_SetPWM, PWM_SetMultiplePWM, PWM_Get
<1>2. /\ cpc' = [cpc EXCEPT ![p] = "lock"]
      /\ job' = [job EXCEPT ![p] = [kind |-> kind, upd |-> u]]
      /\ todo' = [todo EXCEPT ![p] = Asked(u)]
      /\ UNCHANGED <<segment, asleep, starts, wire, daemon, here, cword, cmask>>
  BY <1>1 DEF Begin, Goes
<1>3. /\ SegmentType /\ SystemType /\ DaemonType /\ ClientType /\ JobInv /\ FreshInv
  BY TypeParts DEF TypeInv
<1>4. SegmentType' /\ SystemType' /\ DaemonType' /\ FreshInv'
  BY <1>2, <1>3 DEF SegmentType, SystemType, DaemonType, FreshInv, segment, daemon
<1>5. ClientType'
  BY <1>1, <1>2, <1>3 DEF ClientType, Places, Asked
<1>6. JobInv'
  BY <1>1, <1>2, <1>3 DEF ClientType, JobInv
<1> QED BY <1>4, <1>5, <1>6, TypeParts DEF TypeInv

LEMMA TypeClientStep ==
  ASSUME TypeInv, NEW p \in Clients, ClientStep(p)
  PROVE  TypeInv'
<1> USE DEF Goes, segment, daemon
<1>n. /\ SegmentType /\ SystemType /\ DaemonType /\ ClientType /\ JobInv /\ FreshInv
  BY TypeParts DEF TypeInv
<1> SUFFICES /\ SegmentType' /\ SystemType' /\ DaemonType' /\ ClientType'
             /\ JobInv' /\ FreshInv'
  BY TypeParts DEF TypeInv
<1>1. CASE ClientLock(p)
  <2>1. /\ cpc[p] = "lock" /\ mutex' \in {mutex, p} /\ asleep' \in {asleep, asleep \cup {p}}
        /\ cpc' \in {cpc, [cpc EXCEPT ![p] = IF job[p].kind = "get" THEN "unlock" ELSE NextChannel(p)]}
        /\ UNCHANGED <<bits, updated, duty, pid, born, starts, wire, daemon, job, loop, cword, cmask>>
    BY <1>1 DEF ClientLock, Locks, Sleeps
  <2>2. SegmentType' /\ SystemType' /\ DaemonType' /\ FreshInv'
    BY <1>n, <2>1 DEF SegmentType, SystemType, DaemonType, FreshInv
  <2>3. ClientType'
    BY <1>n, <2>1 DEF ClientType, Places, NextChannel, loop
  <2>4. JobInv'
    BY <1>n, <2>1 DEF ClientType, JobInv, NextChannel, loop
  <2> QED BY <2>2, <2>3, <2>4
<1>2. CASE WriteDuty(p)
  <2>1. PICK c \in todo[p] :
          /\ cpc[p] = "duty"
          /\ duty' = [duty EXCEPT ![c] = Clamped(job[p].upd[c])]
          /\ born' = [born EXCEPT ![c] = starts]
          /\ todo' = [todo EXCEPT ![p] = @ \ {c}]
          /\ here' = [here EXCEPT ![p] = {c}]
          /\ cpc' = [cpc EXCEPT ![p] = IF job[p].kind = "single" THEN "loadbits" ELSE "loadmask"]
          /\ UNCHANGED <<mutex, bits, updated, pid, asleep, starts, wire, daemon, job, cword, cmask>>
    BY <1>2 DEF WriteDuty
  <2>2. job[p].upd \in Updates /\ c \in DOMAIN job[p].upd /\ c \in Channels
    BY <1>n, <2>1 DEF JobInv, ClientType, Asked
  <2>3. Clamped(job[p].upd[c]) \in 0 .. 100
    BY <2>2, UpdatesAssumption, ClampedInRange
  <2>4. duty' \in [Channels -> 0 .. 100]
    BY <1>n, <2>1, <2>3 DEF SegmentType
  <2>5. FreshInv'
    <3>1. duty \in [Channels -> 0 .. 100] /\ born \in [Channels -> 0 .. MaxStarts]
      BY <1>n DEF SegmentType
    <3>2. \A e \in Channels : /\ born'[e] = IF e = c THEN starts ELSE born[e]
                              /\ e # c => duty'[e] = duty[e]
      BY <2>1, <3>1
    <3> QED BY <1>n, <2>1, <3>2 DEF FreshInv, NoMsg
  <2>6. born' \in [Channels -> 0 .. MaxStarts]
    BY <1>n, <2>1 DEF SegmentType, SystemType
  <2>7. SegmentType' /\ SystemType' /\ DaemonType'
    BY <1>n, <2>1, <2>4, <2>6 DEF SegmentType, SystemType, DaemonType
  <2>8. ClientType'
    BY <1>n, <2>1, <2>2 DEF ClientType, Places
  <2>9. JobInv'
    BY <1>n, <2>1 DEF ClientType, JobInv
  <2> QED BY <2>5, <2>7, <2>8, <2>9
<1>3. CASE LoadBits(p) \/ StoreBits(p)
  <2>1. /\ cpc[p] \in {"loadbits", "storebits"}
        /\ cpc' \in { [cpc EXCEPT ![p] = next] : next \in {"storebits", "loadmask", "unlock"} }
        /\ bits' \in {bits, [cword[p] EXCEPT !.ready = TRUE]}
        /\ cword' \in { [cword EXCEPT ![p] = w] : w \in {bits, NoBits} }
        /\ UNCHANGED <<mutex, updated, duty, pid, born, asleep, starts, wire, daemon, job, todo, here, cmask>>
    BY <1>3 DEF LoadBits, StoreBits, loop
  <2>2. bits' \in Words
    BY <1>n, <2>1 DEF ClientType, SegmentType, Words
  <2>3. SegmentType' /\ SystemType' /\ DaemonType' /\ FreshInv'
    BY <1>n, <2>1, <2>2 DEF SegmentType, SystemType, DaemonType, FreshInv
  <2>4. ClientType'
    <3>1. PICK next \in Places, w \in Words :
            cpc' = [cpc EXCEPT ![p] = next] /\ cword' = [cword EXCEPT ![p] = w]
      BY <1>n, <2>1, WordsAndMessages DEF SegmentType, Places
    <3> QED BY <1>n, <2>1, <3>1 DEF ClientType
  <2>5. JobInv'
    BY <1>n, <2>1 DEF ClientType, JobInv
  <2> QED BY <2>3, <2>4, <2>5
<1>4. CASE LoadMask(p) \/ StoreMask(p)
  <2>1. /\ cpc[p] \in {"loadmask", "storemask"}
        /\ cpc' \in { [cpc EXCEPT ![p] = next] : next \in {"storemask", "duty", "loadbits", "unlock"} }
        /\ updated' \in {updated, cmask[p] \cup here[p]}
        /\ cmask' \in { [cmask EXCEPT ![p] = m] : m \in {updated, {}} }
        /\ here' \in {here, [here EXCEPT ![p] = {}]}
        /\ UNCHANGED <<mutex, bits, duty, pid, born, asleep, starts, wire, daemon, job, todo, cword>>
    BY <1>4 DEF LoadMask, StoreMask, MergedMask, NextChannel, loop
  <2>2. updated' \subseteq Channels
    BY <1>n, <2>1 DEF ClientType, SegmentType
  <2>3. SegmentType' /\ SystemType' /\ DaemonType' /\ FreshInv'
    BY <1>n, <2>1, <2>2 DEF SegmentType, SystemType, DaemonType, FreshInv
  <2>4. ClientType'
    <3>1. PICK next \in Places, m \in SUBSET Channels :
            cpc' = [cpc EXCEPT ![p] = next] /\ cmask' = [cmask EXCEPT ![p] = m]
      BY <1>n, <2>1 DEF SegmentType, Places
    <3> QED BY <1>n, <2>1, <3>1 DEF ClientType
  <2>5. JobInv'
    BY <1>n, <2>1 DEF ClientType, JobInv
  <2> QED BY <2>3, <2>4, <2>5
<1>5. CASE ClientUnlock(p)
  <2>1. /\ cpc[p] = "unlock" /\ mutex' = Free /\ asleep' \subseteq asleep
        /\ \/ cpc' = [cpc EXCEPT ![p] = "idle"] /\ job' = [job EXCEPT ![p] = IdleJob]
           \/ cpc' = [cpc EXCEPT ![p] = "kill"] /\ job' = job
        /\ UNCHANGED <<bits, updated, duty, pid, born, starts, wire, daemon, todo, here, cword, cmask>>
    BY <1>5 DEF ClientUnlock, LeavesGetter, Unlocks, loop
  <2>2. SegmentType' /\ SystemType' /\ DaemonType' /\ FreshInv'
    BY <1>n, <2>1 DEF SegmentType, SystemType, DaemonType, FreshInv
  <2>3. ClientType'
    BY <1>n, <2>1 DEF ClientType, Places, IdleJob
  <2>4. JobInv'
    BY <1>n, <2>1 DEF ClientType, JobInv, IdleJob
  <2> QED BY <2>2, <2>3, <2>4
<1>6. CASE ClientKill(p)
  <2>1. /\ cpc' = [cpc EXCEPT ![p] = "idle"] /\ job' = [job EXCEPT ![p] = IdleJob]
        /\ UNCHANGED dpc \/ (dpc = "fork" /\ dpc' = "off")
        /\ UNCHANGED <<segment, asleep, starts, wire, dword, msg, lines, todo, here, cword, cmask>>
    BY <1>6 DEF ClientKill, loop
  <2>2. SegmentType' /\ SystemType' /\ FreshInv'
    BY <1>n, <2>1 DEF SegmentType, SystemType, FreshInv, NoMsg
  <2>3. DaemonType'
    BY <1>n, <2>1 DEF DaemonType, DaemonPlaces
  <2>4. ClientType'
    BY <1>n, <2>1 DEF ClientType, Places, IdleJob
  <2>5. JobInv'
    BY <1>n, <2>1 DEF ClientType, JobInv, IdleJob
  <2> QED BY <2>2, <2>3, <2>4, <2>5
<1> QED BY <1>1, <1>2, <1>3, <1>4, <1>5, <1>6 DEF ClientStep

LEMMA TypeDaemon ==
  ASSUME TypeInv, ZeroSegment \/ DaemonStep \/ Run_CtrlC
  PROVE  TypeInv'
<1> USE DEF Proceeds, segment, client
<1>n. /\ SegmentType /\ SystemType /\ DaemonType /\ ClientType /\ JobInv /\ FreshInv
  BY TypeParts DEF TypeInv
<1> SUFFICES SegmentType' /\ SystemType' /\ DaemonType' /\ FreshInv'
  <2>1. UNCHANGED client
    BY DEF ZeroSegment, DaemonStep, DaemonRuns, InitMutex, SetPid, Daemonise,
       OpenFails, SleepMinute, OpenSucceeds, PWM_SetConnected, DaemonLock, Collect, ClearMask, DaemonUnlock, WriteSucceeds, SerialFails,
       SelectTimesOut, SelectReadable, ReadSucceeds, ProcessLine, StopProcessing, LoadForClear,
       PWM_ClearSharedMemory, SegmentationFault, Run_CtrlC
  <2>2. ClientType' /\ JobInv'
    BY <1>n, <2>1 DEF ClientType, JobInv, loop
  <2> QED BY <2>2, TypeParts DEF TypeInv
<1>0. CASE InitMutex \/ SetPid \/ Daemonise
  BY <1>0, <1>n DEF InitMutex, SetPid, Daemonise, SegmentType, SystemType, DaemonType,
     DaemonPlaces, FreshInv, NoMsg
<1>1. CASE ZeroSegment
  <2>1. starts + 1 \in 0 .. MaxStarts
    BY <1>1, <1>n, BoundsAssumption DEF ZeroSegment, SystemType
  <2>2. SegmentType'
    BY <1>1, <1>n, <2>1, WordsAndMessages
       DEF ZeroSegment, SegmentZeroed, SegmentType
  <2>4. FreshInv'
    BY <1>1, <1>n DEF ZeroSegment, SegmentZeroed, FreshInv, NoMsg
  <2>3. SystemType' /\ DaemonType'
    BY <1>1, <1>n, <2>1 DEF ZeroSegment, SystemType, DaemonType, DaemonPlaces
  <2> QED BY <2>2, <2>3, <2>4
<1>2. CASE OpenFails \/ SleepMinute \/ OpenSucceeds
  BY <1>2, <1>n DEF OpenFails, SleepMinute, OpenSucceeds, SegmentType, SystemType, DaemonType,
     DaemonPlaces, FreshInv
<1>3. CASE PWM_SetConnected
  <2>1. [dword EXCEPT !.port = TRUE] \in Words
    BY <1>n DEF DaemonType, Words
  <2> QED BY <1>3, <1>n, <2>1, WordsAndMessages
          DEF PWM_SetConnected, SegmentType, SystemType, DaemonType, DaemonPlaces, FreshInv
<1>4. CASE DaemonLock \/ DaemonUnlock
  <2>1. /\ mutex' \in {mutex, Daemon, Free} /\ asleep' \subseteq asleep \cup {Daemon}
        /\ dpc' \in {dpc, "collect", "received", "write", "parse"}
        /\ dpc \in {"clearmask", "unlock", "write"} \/ dpc' # "write"
        /\ dpc' = "write" \/ dpc # "unlock"
        /\ dpc \notin {"clearmask", "write"}
        /\ UNCHANGED <<bits, updated, duty, pid, born, starts, wire, dword, msg, lines>>
    BY <1>4 DEF DaemonLock, Locks, Sleeps, DaemonUnlock, Unlocks
  <2>2. SegmentType' /\ FreshInv'
    BY <1>n, <2>1 DEF SegmentType, FreshInv
  <2>3. SystemType' /\ DaemonType'
    BY <1>n, <2>1 DEF SystemType, DaemonType, DaemonPlaces
  <2> QED BY <2>2, <2>3
<1>5. CASE Collect
  <2>1. \A c \in Channels : Clamped(duty[c]) \in 0 .. 100
    <3>1. \A c \in Channels : duty[c] \in 0 .. 100
      BY <1>n DEF SegmentType
    <3> QED BY <3>1, ClampedInRange
  <2>2. DaemonType'
    BY <1>5, <1>n, <2>1 DEF Collect, DaemonType, DaemonPlaces
  <2>3. \A c \in Channels : duty[c] = 0 => Clamped(duty[c]) = 0
    BY DEF Clamped
  <2>4. FreshInv'
    BY <1>5, <1>n, <2>3 DEF Collect, FreshInv
  <2> QED BY <1>5, <1>n, <2>2, <2>4 DEF Collect, SegmentType, SystemType
<1>6. CASE ClearMask
  BY <1>6, <1>n DEF ClearMask, SegmentType, SystemType, DaemonType, DaemonPlaces, FreshInv
<1>7. CASE WriteSucceeds \/ SerialFails
  <2>1. wire' \in [Channels -> (0 .. 100) \cup {NoDuty}]
    BY <1>7, <1>n DEF WriteSucceeds, SerialFails, SystemType, DaemonType
  <2>2. /\ msg' = NoMsg /\ dpc' \in DaemonPlaces
        /\ UNCHANGED <<mutex, bits, updated, duty, pid, born, asleep, starts, dword, lines>>
    BY <1>7 DEF WriteSucceeds, SerialFails, DaemonPlaces
  <2> QED BY <1>n, <2>1, <2>2, WordsAndMessages DEF SegmentType, SystemType, DaemonType, FreshInv, NoMsg
<1>8. CASE SelectTimesOut \/ SelectReadable \/ ReadSucceeds \/ ProcessLine \/ StopProcessing
  <2>1. lines' \in 0 .. MaxLines
    BY <1>8, <1>n, BoundsAssumption
       DEF SelectTimesOut, SelectReadable, ReadSucceeds, ProcessLine, StopProcessing, DaemonType
  <2>2. /\ dpc' \in DaemonPlaces /\ dpc \notin {"clearmask", "unlock", "write"}
        /\ UNCHANGED <<mutex, bits, updated, duty, pid, born, asleep, starts, wire, dword, msg>>
    BY <1>8 DEF SelectTimesOut, SelectReadable, ReadSucceeds, ProcessLine, StopProcessing,
       DaemonPlaces
  <2> QED BY <1>n, <2>1, <2>2 DEF SegmentType, SystemType, DaemonType, FreshInv
<1>9. CASE LoadForClear \/ PWM_ClearSharedMemory \/ SegmentationFault
  <2>1. /\ bits' \in {bits, NoBits} /\ dword' \in {dword, bits, NoBits} /\ dpc' \in DaemonPlaces
        /\ dpc \notin {"clearmask", "unlock", "write"}
        /\ UNCHANGED <<mutex, updated, duty, pid, born, asleep, starts, wire, msg, lines>>
    BY <1>9 DEF LoadForClear, PWM_ClearSharedMemory, SegmentationFault, DaemonPlaces
  <2> QED BY <1>n, <2>1, WordsAndMessages DEF SegmentType, SystemType, DaemonType, FreshInv
<1>10. CASE Run_CtrlC
  <2>1. /\ dpc' \in DaemonPlaces /\ dword' = NoBits /\ msg' = NoMsg /\ lines' = 0
        /\ asleep' \subseteq asleep
        /\ UNCHANGED <<mutex, bits, updated, duty, pid, born, starts, wire>>
    BY <1>10 DEF Run_CtrlC, DaemonPlaces
  <2> QED BY <1>n, <2>1, WordsAndMessages DEF SegmentType, SystemType, DaemonType, FreshInv, NoMsg
<1> QED BY <1>0, <1>1, <1>2, <1>3, <1>4, <1>5, <1>6, <1>7, <1>8, <1>9, <1>10 DEF DaemonStep, DaemonRuns

LEMMA TypeInvariant == Spec => []TypeInv
<1>1. TypeInv /\ [Next]_vars => TypeInv'
  <2>1. TypeInv /\ UNCHANGED vars => TypeInv'
    <3> SUFFICES ASSUME TypeInv, UNCHANGED vars PROVE TypeInv'
      OBVIOUS
    <3>1. SegmentType' /\ SystemType' /\ DaemonType' /\ ClientType'
      BY TypeParts DEF vars, segment, daemon, client, loop, TypeInv,
         SegmentType, SystemType, DaemonType, ClientType
    <3>2. JobInv' /\ FreshInv'
      BY DEF vars, segment, client, loop, TypeInv, JobInv, FreshInv, NoMsg, daemon
    <3> QED BY <3>1, <3>2, TypeParts DEF TypeInv
  <2> QED BY <2>1, TypeClientCall, TypeClientStep, TypeDaemon DEF Next
<1> QED BY <1>1, TypeInit, PTL DEF Spec

(* Types: a duty in the segment, in a message and on the wire is a         *)
(* percentage, whatever the clients ask for.                               *)
THEOREM TypeCorrect == Spec => []TypeOK
<1>1. TypeInv => TypeOK
  BY DEF TypeInv
<1> QED BY <1>1, TypeInvariant, PTL

(* A daemon sends nothing that an earlier one left in the segment.         *)
THEOREM NothingStaleHolds == Spec => []NothingStale
<1>1. TypeInv => NothingStale
  BY DEF TypeInv, FreshInv, NothingStale
<1> QED BY <1>1, TypeInvariant, PTL
-----------------------------------------------------------------------------
(* The mailbox, for daemons that are not started while a client is inside  *)
(* the lock.                                                               *)

(* Mutual exclusion.                                                       *)
AloneInv ==
  /\ \A p \in Clients : InClientSection(p) => mutex = p
  /\ Holding(Daemon) => mutex = Daemon

(* What was loaded under the lock is still what the segment holds, and     *)
(* there is a message only on its way from the segment to the port.        *)
DataInv ==
  /\ \A p \in Clients : cpc[p] = "storemask" => cmask[p] = updated
  /\ dpc = "clearmask" => msg = [c \in Channels |-> IF c \in updated THEN duty[c] ELSE NoDuty]
  /\ dpc \notin {"clearmask", "unlock", "write"} => msg = NoMsg

(* How far a client has got in its call: what it asked for is still to be  *)
(* written, or stands in the segment, at the channel the client is at with *)
(* its bit still to be set.                                                *)
Done(p) ==
  /\ here[p] \subseteq Asked(job[p].upd)
  /\ \A c \in Asked(job[p].upd) :
       c \in todo[p] \/ (c \in here[p] \cup updated /\ duty[c] = Clamped(job[p].upd[c]))

WorkInv ==
  \A p \in Clients :
    /\ cpc[p] = "lock" => todo[p] = Asked(job[p].upd)
    /\ cpc[p] \notin {"loadbits", "storebits", "loadmask", "storemask"} => here[p] = {}
    /\ cpc[p] \in {"loadbits", "storebits"} =>
         todo[p] = {} /\ (job[p].kind = "multiple" => here[p] = {})
    /\ cpc[p] \in {"loadmask", "storemask"} /\ job[p].kind = "single" => todo[p] = {}
    /\ job[p].kind = "single" => \E c \in Channels : Asked(job[p].upd) = {c}
    /\ Writing(p) => Done(p)

MailInv == TypeInv /\ AloneInv /\ DataInv /\ WorkInv

LEMMA MailInit == Init => MailInv
<1> SUFFICES ASSUME Init PROVE MailInv
  OBVIOUS
<1>1. AloneInv /\ DataInv /\ WorkInv
  BY DEF Init, AloneInv, DataInv, InClientSection, Holding, WorkInv, Writing, IdleJob
<1> QED BY <1>1, TypeInit DEF MailInv

LEMMA MailClientCall ==
  ASSUME MailInv, NEW p \in Clients, ClientCall(p)
  PROVE  AloneInv' /\ DataInv'
<1>1. PICK kind, u : Begin(p, kind, u)
  BY DEF ClientCall, PWM_SetPWM, PWM_SetMultiplePWM, PWM_Get
<1>2. /\ cpc[p] = "idle" /\ cpc' = [cpc EXCEPT ![p] = "lock"]
      /\ UNCHANGED <<mutex, updated, duty, dpc, msg, cmask>>
  BY <1>1 DEF Begin, Goes, segment, daemon
<1>3. AloneInv /\ DataInv /\ cpc \in [Clients -> Places]
  BY TypeParts DEF MailInv, TypeInv, ClientType
<1> QED BY <1>2, <1>3, ClientsAssumption DEF AloneInv, DataInv, InClientSection, Holding

LEMMA MailClientStep ==
  ASSUME MailInv, NEW p \in Clients, ClientStep(p)
  PROVE  AloneInv' /\ DataInv'
<1> USE ClientsAssumption DEF Goes, segment, daemon
<1>n. /\ AloneInv /\ DataInv /\ cpc \in [Clients -> Places]
      /\ cmask \in [Clients -> SUBSET Channels]
  BY TypeParts DEF MailInv, TypeInv, ClientType
<1>1. CASE ClientLock(p)
  <2>1. /\ UNCHANGED <<updated, duty, dpc, msg, cmask>>
        /\ cpc[p] = "lock"
        /\ \/ UNCHANGED <<mutex, cpc>>
           \/ /\ mutex = Free /\ mutex' = p
              /\ \E next \in {"unlock", "duty", "loadbits"} : cpc' = [cpc EXCEPT ![p] = next]
    BY <1>1 DEF ClientLock, Locks, Sleeps, NextChannel
  <2>2. AloneInv'
    <3>1. CASE UNCHANGED <<mutex, cpc>>
      BY <1>n, <2>1, <3>1 DEF AloneInv, InClientSection, Holding
    <3>2. CASE mutex = Free
      <4>1. \A q \in Clients : ~InClientSection(q)
        BY <1>n, <3>2 DEF AloneInv
      <4>2. ~Holding(Daemon)
        BY <1>n, <3>2 DEF AloneInv, Daemon, Free
      <4>3. ~Holding(Daemon)'
        BY <2>1, <4>2 DEF Holding
      <4>4. \A q \in Clients : InClientSection(q)' => mutex' = q
        BY <1>n, <2>1, <3>2, <4>1 DEF InClientSection
      <4> QED BY <4>3, <4>4 DEF AloneInv
    <3> QED BY <2>1, <3>1, <3>2
  <2>3. DataInv'
    BY <1>n, <2>1 DEF DataInv
  <2> QED BY <2>2, <2>3
<1>2. CASE WriteDuty(p) \/ LoadBits(p) \/ StoreBits(p)
  <2>1. /\ InClientSection(p)
        /\ \E next \in {"loadbits", "loadmask", "storebits", "unlock"} : cpc' = [cpc EXCEPT ![p] = next]
        /\ UNCHANGED <<mutex, updated, dpc, msg, cmask>>
    BY <1>2 DEF WriteDuty, LoadBits, StoreBits, InClientSection
  <2>2. mutex = p /\ dpc # "clearmask"
    BY <1>n, <2>1 DEF AloneInv, Holding
  <2>3. AloneInv'
    BY <1>n, <2>1, <2>2 DEF AloneInv, InClientSection, Holding
  <2>4. DataInv'
    BY <1>n, <2>1, <2>2 DEF DataInv
  <2> QED BY <2>3, <2>4
<1>3. CASE LoadMask(p)
  <2>1. /\ cpc[p] = "loadmask" /\ cpc' = [cpc EXCEPT ![p] = "storemask"]
        /\ cmask' = [cmask EXCEPT ![p] = updated]
        /\ UNCHANGED <<mutex, updated, duty, dpc, msg>>
    BY <1>3 DEF LoadMask
  <2>2. AloneInv'
    BY <1>n, <2>1 DEF AloneInv, InClientSection, Holding
  <2>3. DataInv'
    BY <1>n, <2>1 DEF DataInv
  <2> QED BY <2>2, <2>3
<1>4. CASE StoreMask(p)
  <2>1. /\ cpc[p] = "storemask"
        /\ \E next \in {"duty", "loadbits", "unlock"} : cpc' = [cpc EXCEPT ![p] = next]
        /\ cmask' = [cmask EXCEPT ![p] = {}]
        /\ UNCHANGED <<mutex, duty, dpc, msg>>
    BY <1>4 DEF StoreMask, NextChannel
  <2>2. mutex = p /\ dpc # "clearmask"
    BY <1>n, <2>1 DEF AloneInv, InClientSection, Holding
  <2>3. AloneInv'
    BY <1>n, <2>1, <2>2 DEF AloneInv, InClientSection, Holding
  <2>4. \A q \in Clients : cpc'[q] # "storemask"
    BY <1>n, <2>1, <2>2 DEF AloneInv, InClientSection
  <2>5. DataInv'
    BY <1>n, <2>1, <2>2, <2>4 DEF DataInv
  <2> QED BY <2>3, <2>5
<1>5. CASE ClientUnlock(p)
  <2>1. /\ cpc[p] = "unlock" /\ mutex' = Free
        /\ \E next \in {"idle", "kill"} : cpc' = [cpc EXCEPT ![p] = next]
        /\ UNCHANGED <<updated, duty, dpc, msg, cmask>>
    BY <1>5 DEF ClientUnlock, LeavesGetter, Unlocks
  <2>2. mutex = p
    BY <1>n, <2>1 DEF AloneInv, InClientSection
  <2>3. AloneInv'
    BY <1>n, <2>1, <2>2 DEF AloneInv, InClientSection, Holding
  <2>4. DataInv'
    BY <1>n, <2>1 DEF DataInv
  <2> QED BY <2>3, <2>4
<1>6. CASE ClientKill(p)
  <2>1. /\ cpc' = [cpc EXCEPT ![p] = "idle"]
        /\ UNCHANGED dpc \/ (dpc = "fork" /\ dpc' = "off")
        /\ UNCHANGED <<mutex, updated, duty, msg, cmask>>
    BY <1>6 DEF ClientKill
  <2>2. AloneInv'
    BY <1>n, <2>1 DEF AloneInv, InClientSection, Holding
  <2>3. DataInv'
    BY <1>n, <2>1 DEF DataInv
  <2> QED BY <2>2, <2>3
<1> QED BY <1>1, <1>2, <1>3, <1>4, <1>5, <1>6 DEF ClientStep

LEMMA MailDaemon ==
  ASSUME MailInv, RestartAnytime = FALSE, ZeroSegment \/ DaemonStep \/ Run_CtrlC
  PROVE  AloneInv' /\ DataInv'
<1> USE ClientsAssumption DEF Proceeds, segment, client
<1>n. AloneInv /\ DataInv /\ duty \in [Channels -> 0 .. 100]
  BY TypeParts DEF MailInv, TypeInv, SegmentType
<1>0. CASE SetPid \/ Daemonise
  BY <1>0, <1>n DEF SetPid, Daemonise, AloneInv, DataInv, InClientSection, Holding
<1>1. CASE ZeroSegment \/ InitMutex
  <2>1. /\ dpc \in {"off", "init"} /\ dpc' \in {"init", "pid"}
        /\ \A p \in Clients : ~InClientSection(p)
        /\ UNCHANGED <<msg, cpc, cmask>>
    BY <1>1 DEF ZeroSegment, InitMutex, NobodyInside
  <2> QED BY <1>n, <2>1 DEF AloneInv, DataInv, InClientSection, Holding
<1>2. CASE OpenFails \/ SleepMinute \/ OpenSucceeds \/ PWM_SetConnected
  BY <1>2, <1>n DEF OpenFails, SleepMinute, OpenSucceeds, PWM_SetConnected, AloneInv, DataInv,
     InClientSection, Holding
<1>3. CASE DaemonLock
  <2>1. /\ dpc \in {"lock", "receive"} /\ UNCHANGED <<updated, duty, msg, cpc, cmask>>
        /\ \/ UNCHANGED <<mutex, dpc>>
           \/ mutex = Free /\ mutex' = Daemon /\ dpc' \in {"collect", "received"}
    BY <1>3 DEF DaemonLock, Locks, Sleeps
  <2> QED BY <1>n, <2>1 DEF AloneInv, DataInv, InClientSection, Holding
<1>4. CASE Collect
  <2>1. /\ dpc = "collect" /\ dpc' = "clearmask" /\ UNCHANGED <<mutex, updated, duty, cpc, cmask>>
        /\ msg' = [c \in Channels |-> IF c \in updated THEN Clamped(duty[c]) ELSE NoDuty]
    BY <1>4 DEF Collect
  <2>2. \A c \in Channels : Clamped(duty[c]) = duty[c]
    BY <1>n, ClampedInRange
  <2>3. msg' = [c \in Channels |-> IF c \in updated THEN duty[c] ELSE NoDuty]
    BY <2>1, <2>2
  <2>4. AloneInv'
    BY <1>n, <2>1 DEF AloneInv, InClientSection, Holding
  <2>5. DataInv'
    BY <1>n, <2>1, <2>3 DEF DataInv
  <2> QED BY <2>4, <2>5
<1>5. CASE ClearMask
  <2>1. /\ dpc = "clearmask" /\ dpc' = "unlock" /\ UNCHANGED <<mutex, duty, msg, cpc, cmask>>
    BY <1>5 DEF ClearMask
  <2>2. \A p \in Clients : cpc[p] # "storemask"
    BY <1>n, <2>1 DEF AloneInv, InClientSection, Holding
  <2> QED BY <1>n, <2>1, <2>2 DEF AloneInv, DataInv, InClientSection, Holding
<1>6. CASE DaemonUnlock
  <2>1. /\ dpc \in {"unlock", "received"} /\ mutex' = Free
        /\ dpc' = IF dpc = "unlock" THEN "write" ELSE "parse"
        /\ UNCHANGED <<updated, duty, msg, cpc, cmask>>
    BY <1>6 DEF DaemonUnlock, Unlocks
  <2>2. \A p \in Clients : ~InClientSection(p)
    BY <1>n, <2>1 DEF AloneInv, Holding
  <2>3. AloneInv'
    BY <1>n, <2>1, <2>2 DEF AloneInv, InClientSection, Holding
  <2>4. DataInv'
    BY <1>n, <2>1 DEF DataInv
  <2> QED BY <2>3, <2>4
<1>7. CASE WriteSucceeds \/ SerialFails
  BY <1>7, <1>n DEF WriteSucceeds, SerialFails, AloneInv, DataInv, InClientSection, Holding
<1>8. CASE SelectTimesOut \/ SelectReadable \/ ReadSucceeds \/ ProcessLine \/ StopProcessing
  BY <1>8, <1>n DEF SelectTimesOut, SelectReadable, ReadSucceeds, ProcessLine, StopProcessing,
     AloneInv, DataInv, InClientSection, Holding
<1>9. CASE LoadForClear \/ PWM_ClearSharedMemory \/ SegmentationFault
  BY <1>9, <1>n DEF LoadForClear, PWM_ClearSharedMemory, SegmentationFault, AloneInv, DataInv,
     InClientSection, Holding
<1>10. CASE Run_CtrlC
  BY <1>10, <1>n DEF Run_CtrlC, AloneInv, DataInv, InClientSection, Holding
<1> QED BY <1>0, <1>1, <1>2, <1>3, <1>4, <1>5, <1>6, <1>7, <1>8, <1>9, <1>10 DEF DaemonStep, DaemonRuns

(* A client gets on with its call.                                         *)
LEMMA WorkClientCall ==
  ASSUME MailInv, NEW p \in Clients, ClientCall(p)
  PROVE  WorkInv'
<1>1. PICK kind, u : /\ Begin(p, kind, u)
                     /\ kind = "single" => \E c \in Channels : DOMAIN u = {c}
  <2>1. ASSUME NEW v \in Updates, PWM_SetPWM(p, v)
        PROVE  Begin(p, "single", v) /\ \E c \in Channels : DOMAIN v = {c}
    BY <2>1 DEF PWM_SetPWM
  <2>2. ASSUME NEW v \in Updates, PWM_SetMultiplePWM(p, v)
        PROVE  Begin(p, "multiple", v)
    BY <2>2 DEF PWM_SetMultiplePWM
  <2>3. CASE PWM_Get(p)
    BY <2>3 DEF PWM_Get
  <2> QED BY <2>1, <2>2, <2>3 DEF ClientCall
<1>2. /\ cpc[p] = "idle" /\ cpc' = [cpc EXCEPT ![p] = "lock"]
      /\ job' = [job EXCEPT ![p] = [kind |-> kind, upd |-> u]]
      /\ todo' = [todo EXCEPT ![p] = Asked(u)]
      /\ UNCHANGED <<updated, duty, here>>
  BY <1>1 DEF Begin, Goes, segment
<1>3. kind = "single" => \E c \in Channels : Asked(u) = {c}
  BY <1>1 DEF Asked
<1>4. WorkInv /\ ClientType
  BY TypeParts DEF MailInv, TypeInv
<1>5. \A q \in Clients \ {p} :
        /\ cpc'[q] = cpc[q] /\ job'[q] = job[q] /\ todo'[q] = todo[q] /\ here'[q] = here[q]
        /\ Done(q)' <=> Done(q)
  BY <1>2, <1>4 DEF ClientType, Done
<1>6. cpc'[p] = "lock" /\ job'[p] = [kind |-> kind, upd |-> u] /\ todo'[p] = Asked(u) /\ here'[p] = {}
  BY <1>2, <1>4 DEF ClientType, WorkInv
<1> QED BY <1>3, <1>4, <1>5, <1>6 DEF WorkInv, Writing

LEMMA WorkClientStep ==
  ASSUME MailInv, NEW p \in Clients, ClientStep(p)
  PROVE  WorkInv'
<1> USE DEF Goes, segment, loop
<1>n. AloneInv /\ DataInv /\ WorkInv /\ ClientType /\ SegmentType /\ JobInv
  BY TypeParts DEF MailInv, TypeInv
<1> DEFINE Same(q) == /\ cpc'[q] = cpc[q] /\ job'[q] = job[q]
                      /\ todo'[q] = todo[q] /\ here'[q] = here[q]
(* The other clients: they have not moved, and if one of them is inside,   *)
(* the segment has not changed.                                            *)
<1>o. ASSUME NEW q \in Clients \ {p} PROVE Same(q) /\ (Writing(q) => Done(q)')
  <2>1. Same(q)
    BY <1>n DEF ClientStep, ClientLock, WriteDuty, LoadBits, StoreBits, LoadMask, StoreMask,
       ClientUnlock, ClientKill, ClientType
  <2>2. ASSUME Writing(q) PROVE UNCHANGED <<updated, duty>>
    <3>1. mutex = q /\ ~InClientSection(p)
      BY <1>n, <2>2 DEF Writing, AloneInv, InClientSection
    <3>2. ClientLock(p) \/ ClientKill(p)
      BY <3>1 DEF ClientStep, WriteDuty, LoadBits, StoreBits, LoadMask, StoreMask, ClientUnlock,
         InClientSection
    <3> QED BY <3>2 DEF ClientLock, ClientKill
  <2> QED BY <1>n, <2>1, <2>2 DEF Done, WorkInv
<1> SUFFICES ASSUME TRUE
             PROVE  /\ cpc'[p] = "lock" => todo'[p] = Asked(job'[p].upd)
                    /\ cpc'[p] \notin {"loadbits", "storebits", "loadmask", "storemask"} => here'[p] = {}
                    /\ cpc'[p] \in {"loadbits", "storebits"} =>
                         todo'[p] = {} /\ (job'[p].kind = "multiple" => here'[p] = {})
                    /\ cpc'[p] \in {"loadmask", "storemask"} /\ job'[p].kind = "single" => todo'[p] = {}
                    /\ job'[p].kind = "single" => \E c \in Channels : Asked(job'[p].upd) = {c}
                    /\ Writing(p)' => Done(p)'
  BY <1>n, <1>o DEF WorkInv, Writing
<1>1. CASE ClientLock(p)
  <2>1. /\ cpc[p] = "lock" /\ UNCHANGED <<updated, duty, job, todo, here>>
        /\ cpc'[p] \in {"lock", "unlock", NextChannel(p)}
    BY <1>1, <1>n DEF ClientLock, ClientType
  <2>2. todo[p] = Asked(job[p].upd) /\ here[p] = {}
    BY <1>n, <2>1 DEF WorkInv
  <2>3. Done(p)'
    BY <2>1, <2>2 DEF Done
  <2> QED BY <1>n, <2>1, <2>2, <2>3 DEF WorkInv, NextChannel
<1>2. CASE WriteDuty(p)
  <2>1. PICK c \in todo[p] :
          /\ cpc[p] = "duty"
          /\ duty' = [duty EXCEPT ![c] = Clamped(job[p].upd[c])]
          /\ todo'[p] = todo[p] \ {c} /\ here'[p] = {c}
          /\ cpc'[p] = IF job[p].kind = "single" THEN "loadbits" ELSE "loadmask"
          /\ UNCHANGED <<updated, job>>
    BY <1>2, <1>n DEF WriteDuty, ClientType
  <2>2. todo[p] \subseteq Asked(job[p].upd) /\ here[p] = {} /\ Done(p)
    BY <1>n, <2>1 DEF JobInv, WorkInv, Writing
  <2>3. duty \in [Channels -> 0 .. 100] /\ Asked(job[p].upd) \subseteq Channels
    BY <1>n DEF SegmentType, Asked
  <2>4. duty'[c] = Clamped(job[p].upd[c]) /\ \A e \in Channels \ {c} : duty'[e] = duty[e]
    BY <2>1, <2>2, <2>3
  <2>5. Done(p)'
    BY <2>1, <2>2, <2>3, <2>4 DEF Done
  <2>6. job[p].kind = "single" => todo'[p] = {}
    BY <1>n, <2>1, <2>2 DEF WorkInv
  <2>7. job[p].kind # "single" => cpc'[p] = "loadmask"
    BY <2>1
  <2> QED BY <1>n, <2>1, <2>5, <2>6, <2>7 DEF WorkInv
<1>3. CASE LoadBits(p) \/ LoadMask(p)
  <2>1. /\ UNCHANGED <<updated, duty, job, todo, here>>
        /\ \/ cpc[p] = "loadbits" /\ cpc'[p] = "storebits"
           \/ cpc[p] = "loadmask" /\ cpc'[p] = "storemask"
    BY <1>3, <1>n DEF LoadBits, LoadMask, ClientType
  <2>2. Done(p)'
    BY <1>n, <2>1 DEF WorkInv, Writing, Done
  <2> QED BY <1>n, <2>1, <2>2 DEF WorkInv
<1>4. CASE StoreBits(p)
  <2>1. /\ UNCHANGED <<updated, duty, job, todo, here>>
        /\ cpc[p] = "storebits"
        /\ cpc'[p] = IF job[p].kind = "single" THEN "loadmask" ELSE "unlock"
    BY <1>4, <1>n DEF StoreBits, ClientType
  <2>2. Done(p)'
    BY <1>n, <2>1 DEF WorkInv, Writing, Done
  <2>3. job[p].kind \in {"single", "multiple"}
    BY <1>n, <2>1 DEF JobInv
  <2> QED BY <1>n, <2>1, <2>2, <2>3 DEF WorkInv
<1>5. CASE StoreMask(p)
  <2>1. /\ UNCHANGED <<duty, job, todo>>
        /\ cpc[p] = "storemask" /\ here'[p] = {} /\ updated' = cmask[p] \cup here[p]
        /\ cpc'[p] = IF job[p].kind = "single" THEN "unlock" ELSE NextChannel(p)
    BY <1>5, <1>n DEF StoreMask, MergedMask, ClientType
  <2>2. cmask[p] = updated
    BY <1>n, <2>1 DEF DataInv
  <2>3. Done(p)'
    BY <1>n, <2>1, <2>2 DEF WorkInv, Writing, Done
  <2>4. job[p].kind = "single" => cpc'[p] = "unlock"
    BY <2>1
  <2>5. cpc'[p] \in {"unlock", "duty", "loadbits"} /\ (cpc'[p] = "loadbits" => todo[p] = {})
    BY <2>1 DEF NextChannel
  <2> QED BY <1>n, <2>1, <2>3, <2>4, <2>5 DEF WorkInv
<1>6. CASE ClientUnlock(p)
  <2>1. /\ cpc[p] = "unlock" /\ cpc'[p] \in {"idle", "kill"} /\ UNCHANGED here
        /\ job'[p] \in {job[p], IdleJob}
    BY <1>6, <1>n DEF ClientUnlock, ClientType
  <2> QED BY <1>n, <2>1 DEF WorkInv, Writing, IdleJob
<1>7. CASE ClientKill(p)
  <2>1. cpc[p] = "kill" /\ cpc'[p] = "idle" /\ UNCHANGED here /\ job'[p] = IdleJob
    BY <1>7, <1>n DEF ClientKill, ClientType
  <2> QED BY <1>n, <2>1 DEF WorkInv, Writing, IdleJob
<1> QED BY <1>1, <1>2, <1>3, <1>4, <1>5, <1>6, <1>7 DEF ClientStep

(* The daemon changes what a client has written only when none is at it.   *)
LEMMA WorkDaemon ==
  ASSUME MailInv, RestartAnytime = FALSE, ZeroSegment \/ DaemonStep \/ Run_CtrlC
  PROVE  WorkInv'
<1> USE DEF segment, client, loop
<1>1. UNCHANGED <<cpc, job, todo, here>>
  BY DEF ZeroSegment, DaemonStep, DaemonRuns, InitMutex, SetPid, Daemonise,
     OpenFails, SleepMinute, OpenSucceeds, PWM_SetConnected, DaemonLock, Collect, ClearMask,
     DaemonUnlock, WriteSucceeds, SerialFails, SelectTimesOut, SelectReadable, ReadSucceeds,
     ProcessLine, StopProcessing, LoadForClear, PWM_ClearSharedMemory, SegmentationFault, Run_CtrlC
<1>2. ASSUME NEW p \in Clients, Writing(p) PROVE UNCHANGED <<updated, duty>>
  <2>1. ~ZeroSegment
    BY <1>2 DEF ZeroSegment, NobodyInside, Writing, InClientSection
  <2>2. ~ClearMask
    BY <1>2, ClientsAssumption
       DEF MailInv, AloneInv, ClearMask, Holding, Writing, InClientSection
  <2> QED BY <2>1, <2>2 DEF DaemonStep, DaemonRuns, InitMutex, SetPid, Daemonise,
     OpenFails, SleepMinute, OpenSucceeds, PWM_SetConnected, DaemonLock, Collect,
     DaemonUnlock, WriteSucceeds, SerialFails, SelectTimesOut, SelectReadable, ReadSucceeds,
     ProcessLine, StopProcessing, LoadForClear, PWM_ClearSharedMemory, SegmentationFault, Run_CtrlC
<1>3. WorkInv
  BY DEF MailInv
<1>4. \A p \in Clients : Writing(p)' <=> Writing(p)
  BY <1>1 DEF Writing
<1>5. \A p \in Clients : Writing(p) => Done(p)'
  BY <1>1, <1>2, <1>3 DEF Done, WorkInv
<1> QED BY <1>1, <1>3, <1>4, <1>5 DEF WorkInv

LEMMA MailInvariant == RestartAnytime = FALSE /\ Spec => []MailInv
<1> SUFFICES ASSUME RestartAnytime = FALSE PROVE Spec => []MailInv
  OBVIOUS
<1>1. MailInv /\ [Next]_vars => AloneInv' /\ DataInv' /\ WorkInv'
  <2>1. MailInv /\ UNCHANGED vars => AloneInv' /\ DataInv' /\ WorkInv'
    BY DEF vars, segment, daemon, client, loop, MailInv, AloneInv, DataInv, WorkInv, Done,
       Writing, InClientSection, Holding
  <2> QED BY <2>1, MailClientCall, MailClientStep, MailDaemon,
             WorkClientCall, WorkClientStep, WorkDaemon DEF Next
<1>2. TypeInv /\ TypeInv' /\ MailInv /\ [Next]_vars => MailInv'
  BY <1>1 DEF MailInv
<1> QED BY <1>2, MailInit, TypeInvariant, PTL DEF Spec
-----------------------------------------------------------------------------
(* The refinement.                                                         *)

LEMMA NothingAsked == Asked(<<>>) = {}
  BY DEF Asked

(* Whose update is posted: that of the client inside, if any.              *)
LEMMA WhoPosts ==
  /\ (\A q \in Clients : ~Writing(q)) => Posted = <<>>
  /\ AloneInv => \A q \in Clients : Writing(q) => Posted = job[q].upd
  BY DEF Posted, AloneInv, Writing, InClientSection

LEMMA WhoPostsNext ==
  /\ (\A q \in Clients : ~Writing(q)') => Posted' = <<>>
  /\ AloneInv' => \A q \in Clients : Writing(q)' => Posted' = job'[q].upd
  BY DEF Posted, AloneInv, Writing, InClientSection

(* An access that leaves the duties, the bits and the client inside alone  *)
(* is none of the mailbox's business.                                      *)
LEMMA SamePending ==
  ASSUME MailInv, AloneInv', UNCHANGED <<updated, duty>>,
         \A q \in Clients : (Writing(q)' <=> Writing(q)) /\ (Writing(q) => job'[q] = job[q])
  PROVE  Pending' = Pending
<1>1. Posted' = Posted
  <2>1. CASE \E q \in Clients : Writing(q)
    BY <2>1, WhoPosts, WhoPostsNext DEF MailInv
  <2>2. CASE \A q \in Clients : ~Writing(q)
    BY <2>2, WhoPosts, WhoPostsNext
  <2> QED BY <2>1, <2>2
<1> QED BY <1>1 DEF Pending

LEMMA RefinesClientStep ==
  ASSUME MailInv, MailInv', NEW p \in Clients, ClientStep(p)
  PROVE  Mailbox!Next \/ UNCHANGED Mailbox!vars
<1> USE DEF Goes, segment, daemon, loop
<1>n. /\ AloneInv /\ AloneInv' /\ DataInv /\ WorkInv /\ WorkInv'
      /\ ClientType /\ SegmentType /\ JobInv
  BY TypeParts DEF MailInv, TypeInv
<1>o. \A q \in Clients \ {p} : cpc'[q] = cpc[q] /\ job'[q] = job[q]
  BY <1>n DEF ClientStep, ClientLock, WriteDuty, LoadBits, StoreBits, LoadMask, StoreMask,
     ClientUnlock, ClientKill, ClientType
(* The client gets the lock: its update is posted.                         *)
<1>1. CASE ClientLock(p) /\ Writing(p)'
  <2> DEFINE v == job[p].upd
             u == [c \in Channels |-> IF c \in Asked(v) THEN Clamped(v[c]) ELSE NoDuty]
  <2>1. /\ cpc[p] = "lock" /\ mutex = Free /\ job[p].kind # "get"
        /\ UNCHANGED <<updated, duty, wire, dpc, msg, job>>
    BY <1>1, <1>n DEF ClientLock, Locks, Sleeps, Writing, ClientType
  <2>2. \A q \in Clients : ~Writing(q)
    BY <1>n, <2>1, ClientsAssumption DEF AloneInv, Writing, InClientSection
  <2>3. Posted = <<>> /\ Posted' = v
    BY <1>1, <1>n, <2>1, <2>2, WhoPosts, WhoPostsNext
  <2>4. v \in Updates
    BY <1>n, <2>1 DEF JobInv, ClientType
  <2>5. \A c \in Asked(v) : Clamped(v[c]) \in 0 .. 100 /\ Clamped(v[c]) \in ClampedDuties
    <3>1. \A c \in Asked(v) : Clamped(v[c]) \in 0 .. 100
      BY <2>4, UpdatesAssumption, ClampedInRange DEF Asked
    <3>2. \A c \in Asked(v) : Clamped(v[c]) \in { Clamped(v[e]) : e \in Asked(v) }
      OBVIOUS
    <3> QED BY <2>4, <3>1, <3>2 DEF ClampedDuties
  <2>6. u \in [Channels -> ClampedDuties \cup {NoDuty}]
    BY <2>5
  <2>7. \A c \in Channels : u[c] = NoDuty <=> c \notin Asked(v)
    BY <2>5, NoDutyAssumption
  <2>8. Pending' = Mailbox!Over(u, Pending)
    <3>1. \A c \in Channels : Pending[c] = IF c \in updated THEN duty[c] ELSE NoDuty
      BY <2>3, NothingAsked DEF Pending
    <3>2. Pending' = [c \in Channels |-> IF c \in Asked(v) THEN Clamped(v[c])
                                         ELSE IF c \in updated THEN duty[c] ELSE NoDuty]
      BY <2>1, <2>3 DEF Pending
    <3>3. \A c \in Channels : Pending'[c] = IF u[c] = NoDuty THEN Pending[c] ELSE u[c]
      BY <2>7, <3>1, <3>2
    <3> HIDE DEF u
    <3> QED BY <3>2, <3>3 DEF Mailbox!Over
  <2>9. Taken' = Taken
    BY <2>1 DEF Taken
  <2>10. Mailbox!Post(u)
    BY <2>1, <2>8, <2>9 DEF Mailbox!Post
  <2> HIDE DEF u
  <2> QED BY <2>6, <2>10 DEF Mailbox!Next
(* It writes what it has posted, and nothing else.                         *)
<1>2. CASE Writing(p)
  <2> DEFINE v == job[p].upd
  <2>1. UNCHANGED <<wire, dpc, msg, job>>
    BY <1>2 DEF ClientStep, ClientLock, WriteDuty, LoadBits, StoreBits, LoadMask, StoreMask,
       ClientUnlock, ClientKill, Writing
  <2>2. Posted = v
    BY <1>2, <1>n, WhoPosts
  <2>3. \A q \in Clients \ {p} : ~Writing(q) /\ ~Writing(q)'
    BY <1>2, <1>n, <1>o DEF AloneInv, Writing, InClientSection
  <2>4. todo[p] \subseteq Asked(v) /\ here[p] \subseteq Asked(v) /\ Asked(v) \subseteq Channels
    BY <1>2, <1>n DEF JobInv, WorkInv, Done, Writing, Asked
  <2>5. \A c \in Channels \ Asked(v) : duty'[c] = duty[c] /\ (c \in updated' <=> c \in updated)
    <3>1. CASE WriteDuty(p)
      BY <1>n, <2>4, <3>1 DEF WriteDuty, SegmentType
    <3>2. CASE StoreMask(p)
      <4>1. updated' = updated \cup here[p] /\ duty' = duty
        BY <1>n, <3>2 DEF StoreMask, MergedMask, DataInv
      <4> QED BY <2>4, <4>1
    <3>3. CASE ~WriteDuty(p) /\ ~StoreMask(p)
      BY <1>2, <3>3 DEF ClientStep, ClientLock, LoadBits, StoreBits, LoadMask, ClientUnlock,
         ClientKill
    <3> QED BY <3>1, <3>2, <3>3
  <2>6. CASE Writing(p)'
    <3>1. Posted' = v
      BY <1>n, <2>1, <2>6, WhoPostsNext
    <3>2. Pending' = Pending
      BY <2>2, <2>5, <3>1 DEF Pending
    <3> QED BY <2>1, <3>2 DEF Mailbox!vars, Taken
  <2>7. CASE ~Writing(p)'
    <3>1. Posted' = <<>>
      BY <2>3, <2>7, WhoPostsNext
    <3>2. \A c \in Asked(v) : c \in updated' /\ duty'[c] = Clamped(v[c])
      <4>1. CASE StoreBits(p)
        <5>1. cpc[p] = "storebits" /\ job[p].kind # "single" /\ UNCHANGED <<updated, duty>>
          BY <1>n, <2>7, <4>1 DEF StoreBits, Writing, ClientType
        <5>2. job[p].kind = "multiple"
          BY <1>n, <5>1 DEF JobInv
        <5>3. todo[p] = {} /\ here[p] = {} /\ Done(p)
          BY <1>2, <1>n, <5>1, <5>2 DEF WorkInv
        <5> QED BY <5>1, <5>3 DEF Done
      <4>2. CASE StoreMask(p)
        <5>1. /\ cpc[p] = "storemask" /\ updated' = updated \cup here[p] /\ duty' = duty
              /\ cpc'[p] = IF job[p].kind = "single" THEN "unlock" ELSE NextChannel(p)
          BY <1>n, <4>2 DEF StoreMask, MergedMask, DataInv, ClientType
        <5>2. job[p].kind = "single"
          BY <2>7, <5>1 DEF Writing, NextChannel
        <5>3. todo[p] = {} /\ Done(p)
          BY <1>2, <1>n, <5>1, <5>2 DEF WorkInv
        <5> QED BY <5>1, <5>3 DEF Done
      <4>3. CASE ~StoreBits(p) /\ ~StoreMask(p)
        <5>1. cpc'[p] \in {"loadbits", "loadmask", "storebits", "storemask"}
          BY <1>2, <1>n, <4>3 DEF ClientStep, ClientLock, WriteDuty, LoadBits, LoadMask,
             ClientUnlock, ClientKill, Writing, ClientType
        <5> QED BY <2>7, <5>1 DEF Writing
      <4> QED BY <4>1, <4>2, <4>3
    <3>3. Pending' = Pending
      BY <2>2, <2>4, <2>5, <3>1, <3>2, NothingAsked DEF Pending
    <3> QED BY <2>1, <3>3 DEF Mailbox!vars, Taken
  <2> QED BY <2>6, <2>7
(* What it does outside its update does not touch the mailbox; its kill()  *)
(* may catch a process that has not yet become the daemon.                 *)
<1>3. CASE ~Writing(p) /\ ~Writing(p)'
  <2>1. /\ UNCHANGED <<updated, duty, wire, msg>>
        /\ UNCHANGED dpc \/ (dpc = "fork" /\ dpc' = "off")
    <3>1. CASE ClientKill(p)
      BY <3>1 DEF ClientKill
    <3>2. CASE ClientLock(p) \/ ClientUnlock(p)
      BY <3>2 DEF ClientLock, ClientUnlock
    <3>3. ~(WriteDuty(p) \/ LoadBits(p) \/ StoreBits(p) \/ LoadMask(p) \/ StoreMask(p))
      BY <1>3 DEF WriteDuty, LoadBits, StoreBits, LoadMask, StoreMask, Writing
    <3> QED BY <3>1, <3>2, <3>3 DEF ClientStep
  <2>2. Pending' = Pending
    <3>1. \A q \in Clients : (Writing(q)' <=> Writing(q)) /\ (Writing(q) => job'[q] = job[q])
      BY <1>3, <1>o DEF Writing
    <3> QED BY <1>n, <2>1, <3>1, SamePending
  <2>3. Taken' = Taken
    BY <2>1 DEF Taken
  <2> QED BY <2>1, <2>2, <2>3 DEF Mailbox!vars
<1>4. Writing(p)' /\ ~Writing(p) => ClientLock(p)
  BY <1>n DEF ClientStep, WriteDuty, LoadBits, StoreBits, LoadMask, StoreMask,
     ClientUnlock, ClientKill, Writing, ClientType
<1> QED BY <1>1, <1>2, <1>3, <1>4

LEMMA RefinesClientCall ==
  ASSUME MailInv, MailInv', NEW p \in Clients, ClientCall(p)
  PROVE  UNCHANGED Mailbox!vars
<1>1. PICK kind, u : Begin(p, kind, u)
  BY DEF ClientCall, PWM_SetPWM, PWM_SetMultiplePWM, PWM_Get
<1>2. /\ cpc[p] = "idle" /\ cpc' = [cpc EXCEPT ![p] = "lock"]
      /\ job' = [job EXCEPT ![p] = [kind |-> kind, upd |-> u]]
      /\ UNCHANGED <<updated, duty, wire, dpc, msg>>
  BY <1>1 DEF Begin, Goes, segment, daemon
<1>3. cpc \in [Clients -> Places] /\ DOMAIN job = Clients
  BY TypeParts DEF MailInv, TypeInv, ClientType
<1>4. \A q \in Clients : (Writing(q)' <=> Writing(q)) /\ (Writing(q) => job'[q] = job[q])
  BY <1>2, <1>3 DEF Writing
<1>5. Pending' = Pending /\ Taken' = Taken
  BY <1>2, <1>4, SamePending DEF MailInv, Taken
<1> QED BY <1>2, <1>5 DEF Mailbox!vars

LEMMA RefinesDaemon ==
  ASSUME MailInv, MailInv', RestartAnytime = FALSE, ZeroSegment \/ DaemonStep \/ Run_CtrlC
  PROVE  Mailbox!Next \/ UNCHANGED Mailbox!vars
<1> USE DEF Proceeds, segment, client
<1>n. /\ AloneInv /\ AloneInv' /\ DataInv /\ msg \in [Channels -> (0 .. 100) \cup {NoDuty}]
      /\ duty \in [Channels -> 0 .. 100] /\ updated \subseteq Channels
  BY TypeParts DEF MailInv, TypeInv, DaemonType, SegmentType
<1>0. UNCHANGED <<cpc, job>>
  BY DEF ZeroSegment, DaemonStep, DaemonRuns, InitMutex, SetPid, Daemonise,
     OpenFails, SleepMinute, OpenSucceeds, PWM_SetConnected, DaemonLock, Collect, ClearMask, DaemonUnlock, WriteSucceeds, SerialFails,
     SelectTimesOut, SelectReadable, ReadSucceeds, ProcessLine, StopProcessing, LoadForClear,
     PWM_ClearSharedMemory, SegmentationFault, Run_CtrlC
<1>h. UNCHANGED <<updated, duty>> => Pending' = Pending
  <2>1. \A q \in Clients : (Writing(q)' <=> Writing(q)) /\ (Writing(q) => job'[q] = job[q])
    BY <1>0 DEF Writing
  <2> QED BY <1>n, <2>1, SamePending
<1>i. (\A q \in Clients : ~InClientSection(q)) =>
        Pending = [c \in Channels |-> IF c \in updated THEN duty[c] ELSE NoDuty] /\ Posted' = <<>>
  <2> SUFFICES ASSUME \A q \in Clients : ~InClientSection(q)
               PROVE  /\ Pending = [c \in Channels |-> IF c \in updated THEN duty[c] ELSE NoDuty]
                      /\ Posted' = <<>>
    OBVIOUS
  <2>1. \A q \in Clients : ~Writing(q) /\ ~Writing(q)'
    BY <1>0 DEF Writing, InClientSection
  <2>2. Posted = <<>> /\ Posted' = <<>>
    BY <2>1, WhoPosts, WhoPostsNext
  <2> QED BY <2>2, NothingAsked DEF Pending
<1>1. CASE ZeroSegment
  <2>1. /\ \A q \in Clients : ~InClientSection(q)
        /\ updated' = {} /\ dpc = "off" /\ dpc' = "init" /\ UNCHANGED <<wire, msg>>
    BY <1>1 DEF ZeroSegment, SegmentZeroed, NobodyInside
  <2>3. Pending' = NoMsg
    BY <1>i, <2>1, NothingAsked DEF Pending, NoMsg
  <2>4. Taken' = NoMsg
    BY <1>n, <2>1 DEF Taken, DataInv
  <2> QED BY <2>1, <2>3, <2>4 DEF Mailbox!Next, Mailbox!Forget, Mailbox!Nothing, NoMsg
<1>2. CASE \/ InitMutex \/ SetPid \/ Daemonise \/ OpenFails \/ SleepMinute \/ OpenSucceeds
           \/ PWM_SetConnected \/ DaemonLock \/ DaemonUnlock \/ SelectTimesOut \/ SelectReadable \/ ReadSucceeds \/ ProcessLine
           \/ StopProcessing \/ LoadForClear \/ PWM_ClearSharedMemory \/ SegmentationFault
  <2>1. UNCHANGED <<updated, duty, wire, msg>> /\ dpc # "clearmask" /\ dpc' # "clearmask"
    BY <1>2 DEF InitMutex, SetPid, Daemonise, OpenFails, SleepMinute, OpenSucceeds, PWM_SetConnected, DaemonLock,
       DaemonUnlock, SelectTimesOut, SelectReadable, ReadSucceeds, ProcessLine,
       StopProcessing, LoadForClear, PWM_ClearSharedMemory, SegmentationFault
  <2>2. Pending' = Pending /\ Taken' = Taken
    BY <1>h, <2>1 DEF Taken
  <2> QED BY <2>1, <2>2 DEF Mailbox!vars
<1>3. CASE Collect
  <2>1. UNCHANGED <<updated, duty, wire>> /\ dpc = "collect" /\ dpc' = "clearmask"
    BY <1>3 DEF Collect
  <2>2. Pending' = Pending /\ Taken = NoMsg /\ Taken' = NoMsg
    BY <1>h, <1>n, <2>1 DEF Taken, DataInv
  <2>3. NoMsg' = NoMsg
    BY DEF NoMsg
  <2> QED BY <2>1, <2>2, <2>3 DEF Mailbox!vars
<1>4. CASE ClearMask
  <2>1. /\ dpc = "clearmask" /\ dpc' = "unlock" /\ UNCHANGED <<duty, wire, msg>>
        /\ updated' = updated \ Sent
    BY <1>4 DEF ClearMask
  <2>2. msg = [c \in Channels |-> IF c \in updated THEN duty[c] ELSE NoDuty]
    BY <1>n, <2>1 DEF DataInv
  <2>3. \A q \in Clients : ~InClientSection(q)
    BY <1>n, <2>1, ClientsAssumption DEF AloneInv, Holding
  <2>4. Sent = updated
    <3>1. \A c \in Channels : msg[c] # NoDuty <=> c \in updated
      BY <1>n, <2>2, NoDutyAssumption
    <3> QED BY <1>n, <3>1 DEF Sent
  <2>5. updated' = {}
    BY <2>1, <2>4
  <2>6. Pending = msg /\ Pending' = NoMsg
    BY <1>i, <2>2, <2>3, <2>5, NothingAsked DEF Pending, NoMsg
  <2>7. Taken = NoMsg /\ Taken' = msg
    BY <2>1 DEF Taken
  <2> QED BY <2>1, <2>6, <2>7 DEF Mailbox!Next, Mailbox!Take, Mailbox!Nothing, NoMsg
<1>5. CASE WriteSucceeds
  <2>1. /\ dpc = "write" /\ dpc' = "select" /\ msg' = NoMsg /\ UNCHANGED <<updated, duty>>
        /\ wire' = [c \in Channels |-> IF c \in Sent THEN msg[c] ELSE wire[c]]
    BY <1>5 DEF WriteSucceeds
  <2>2. Taken = msg /\ Taken' = NoMsg
    BY <2>1 DEF Taken
  <2>3. Pending' = Pending
    BY <1>h, <2>1
  <2>4. \A c \in Channels : c \in Sent <=> ~(msg[c] = NoDuty)
    BY DEF Sent
  <2>5. wire' = Mailbox!Over(Taken, wire)
    BY <2>1, <2>2, <2>4 DEF Mailbox!Over
  <2> QED BY <2>2, <2>3, <2>5 DEF Mailbox!Next, Mailbox!Deliver, Mailbox!Nothing, NoMsg
<1>6. CASE SerialFails \/ Run_CtrlC
  <2>1. /\ dpc' # "clearmask" /\ msg' = NoMsg /\ UNCHANGED <<updated, duty, wire>>
    BY <1>6 DEF SerialFails, Run_CtrlC
  <2>2. Pending' = Pending /\ Taken' = NoMsg
    BY <1>h, <2>1 DEF Taken
  <2> QED BY <2>1, <2>2 DEF Mailbox!Next, Mailbox!Drop, Mailbox!Nothing, NoMsg
<1> QED BY <1>1, <1>2, <1>3, <1>4, <1>5, <1>6 DEF DaemonStep, DaemonRuns

(* The segment is a mailbox: an update of several channels is taken whole, *)
(* and what goes to the port is the last duty posted when it was taken,    *)
(* if no daemon is started while a client is inside the lock.              *)
THEOREM MailboxKept == RestartAnytime = FALSE /\ Spec => KeepsMailbox
<1> SUFFICES ASSUME RestartAnytime = FALSE PROVE Spec => KeepsMailbox
  OBVIOUS
<1>1. Init => Mailbox!Init
  <2> SUFFICES ASSUME Init PROVE Mailbox!Init
    OBVIOUS
  <2>1. Posted = <<>>
    BY DEF Init, Posted, Writing
  <2> QED BY <2>1, NothingAsked DEF Init, Mailbox!Init, Mailbox!Nothing, Pending, Taken, NoMsg
<1>2. MailInv /\ MailInv' /\ [Next]_vars => [Mailbox!Next]_(Mailbox!vars)
  <2> SUFFICES ASSUME MailInv, MailInv', [Next]_vars PROVE Mailbox!Next \/ UNCHANGED Mailbox!vars
    OBVIOUS
  <2>1. CASE UNCHANGED vars
    <3>1. UNCHANGED <<mutex, updated, duty, wire, dpc, msg, cpc, job>>
      BY <2>1 DEF vars, segment, daemon, client
    <3>2. Posted' = Posted
      BY <3>1 DEF Posted, Writing
    <3> QED BY <3>1, <3>2 DEF Mailbox!vars, Pending, Taken
  <2> QED BY <2>1, RefinesClientCall, RefinesClientStep, RefinesDaemon DEF Next
<1> QED BY <1>1, <1>2, MailInvariant, PTL DEF Spec, KeepsMailbox, Mailbox!Spec
=============================================================================
