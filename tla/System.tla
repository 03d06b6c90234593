------------------------------- MODULE System -------------------------------
(***************************************************************************)
(* Both programs and the line between them: what becomes of a duty a       *)
(* client asks for, up to the output of its channel, while daemon and      *)
(* board end and start again.                                              *)
(*                                                                         *)
(* Each part is taken by what it promises: the segment by DutyMailbox,     *)
(* which SharedMemory implements, the outputs by ChannelPromise, which     *)
(* PwmOutputs implements.  What lies between them is kept line by line.    *)
(***************************************************************************)
EXTENDS Integers, Sequences

CONSTANTS
  Channels, PWM_TIMEOUT, Duties,   \* of ChannelPromise
  NoDuty,                          \* of DutyMailbox
  Updates,                         \* the updates clients ask for
  Garbled,                         \* duties that joined pieces of lines name
  MaxLives,                        \* bound: how often the daemon is started
  MaxUpdates                       \* bound: updates clients ask for

(* An update of one channel: when it was asked for, and in which life of   *)
(* the daemon.                                                             *)
Posts == [duty : Duties, stamp : 1 .. MaxUpdates, life : 1 .. MaxLives]

ASSUME ChannelsAssumption == Channels \subseteq Nat
ASSUME DutiesAssumption   == Duties \subseteq Int /\ Garbled \subseteq Duties
ASSUME UpdatesAssumption  == Updates \subseteq [Channels -> Duties \cup {NoDuty}]
ASSUME NoDutyAssumption   == NoDuty \notin Duties /\ \A p \in Posts : p # NoDuty
ASSUME BoundsAssumption   == MaxLives \in Nat /\ MaxUpdates \in Nat

VARIABLES
  pending, taken, board,   \* the mailbox
  daemon,    \* "off", "starting" or "serving"
  out,       \* out[c]: what the write() in progress has still to send for c
  cable,     \* the lines that are written and not yet obeyed
  pin, left, due,          \* the outputs
  at,        \* the main loop of the board: "run" or "hang"
  \* history
  life,      \* how often the daemon was started
  posts,     \* how many updates were asked for
  newest,    \* newest[c]: the last one that names c
  shown,     \* shown[c]: what was obeyed last for c; its stamp is that of
             \* the last whole line
  obeyed,    \* in which life the restart was sent that was obeyed last
  overran    \* in which life the receive ring of the board last overran

mailbox == <<pending, taken, board>>
outputs == <<pin, left, due>>
vars == <<mailbox, daemon, out, cable, outputs, at, life, posts, newest, shown, obeyed, overran>>

Mailbox == INSTANCE DutyMailbox WITH Duties <- Posts

PWM == INSTANCE ChannelPromise

Nothing == Mailbox!Nothing

(* Lines name the life of the daemon that sent them.                       *)
Lines ==
  [kind : {"restart"}, life : 1 .. MaxLives]
    \cup [kind : {"pwm", "spliced"}, ch : Channels, duty : Duties,
          stamp : 0 .. MaxUpdates, life : 1 .. MaxLives]

PwmLine(c, p) ==
  [kind |-> "pwm", ch |-> c, duty |-> p.duty, stamp |-> p.stamp, life |-> p.life]

RestartLine == [kind |-> "restart", life |-> life]

(* What the board may make of the beginning of a line that lost its end    *)
(* and is continued by another.                                            *)
Splices(l) ==
  [kind : {"spliced"}, ch : Channels, duty : Garbled, stamp : {0}, life : {l}]

From(s, n)  == SubSeq(s, n, Len(s))
UpTo(s, n)  == SubSeq(s, 1, n)

Init ==
  /\ Mailbox!Init /\ PWM!Init
  /\ daemon = "off" /\ out = Nothing /\ cable = << >> /\ at = "run"
  /\ life = 0 /\ posts = 0 /\ newest = Nothing
  /\ shown = [c \in Channels |-> [duty |-> 0, stamp |-> 0, life |-> 0]]
  /\ obeyed = 0 /\ overran = 0
-----------------------------------------------------------------------------
(* Clients.                                                                *)

Stamped(u) ==
  [c \in Channels |-> IF u[c] = NoDuty THEN NoDuty
                      ELSE [duty |-> u[c], stamp |-> posts + 1, life |-> life]]

(* An update that gets past the library's look at port_connected.          *)
PWM_SetMultiplePWM(u) ==
  /\ life > 0 /\ posts < MaxUpdates
  /\ Mailbox!Post(Stamped(u))
  /\ posts' = posts + 1
  /\ newest' = [c \in Channels |-> IF u[c] = NoDuty THEN newest[c] ELSE Stamped(u)[c]]
  /\ UNCHANGED <<daemon, out, cable, outputs, at, life, shown, obeyed, overran>>
-----------------------------------------------------------------------------
(* The daemon.                                                             *)

PWM_CreateSharedMemory ==
  /\ daemon = "off" /\ life < MaxLives
  /\ Mailbox!Forget
  /\ daemon' = "starting"
  /\ life' = life + 1
  /\ UNCHANGED <<out, cable, outputs, at, posts, newest, shown, obeyed, overran>>

(* The restart is written; whether that succeeds is not looked at.         *)
Connect_To_Port ==
  /\ daemon = "starting"
  /\ daemon' = "serving"
  /\ cable' \in {cable, Append(cable, RestartLine)}
  /\ UNCHANGED <<mailbox, out, outputs, at, life, posts, newest, shown, obeyed, overran>>

(* PWM_Send_ChanelData: the message is composed under the lock ...         *)
Compose ==
  /\ daemon = "serving" /\ out = Nothing
  /\ Mailbox!Take
  /\ UNCHANGED <<daemon, out, cable, outputs, at, life, posts, newest, shown, obeyed, overran>>

(* ... and written behind it, line by line in the order of the channels;   *)
(* write() returns when all is sent.                                       *)
Write ==
  /\ daemon = "serving" /\ taken # Nothing
  /\ Mailbox!Deliver
  /\ out' = taken
  /\ UNCHANGED <<daemon, cable, outputs, at, life, posts, newest, shown, obeyed, overran>>

SendLine(c) ==
  /\ out[c] # NoDuty
  /\ \A d \in Channels : d < c => out[d] = NoDuty
  /\ cable' = Append(cable, PwmLine(c, out[c]))
  /\ out' = [out EXCEPT ![c] = NoDuty]
  /\ UNCHANGED <<mailbox, daemon, outputs, at, life, posts, newest, shown, obeyed, overran>>

(* The daemon ends: by a signal, or by a failing port.  What the system    *)
(* has not sent yet may be lost with it, and the line that is cut is       *)
(* continued by the first one of the next daemon.                          *)
Ends ==
  /\ daemon # "off"
  /\ daemon' = "off"
  /\ Mailbox!Drop
  /\ out' = Nothing
  /\ \E n \in 0 .. Len(cable) :
       \/ cable' = UpTo(cable, n)
       \/ /\ n < Len(cable) \/ out # Nothing
          /\ \E s \in Splices(IF n < Len(cable) THEN cable[n + 1].life ELSE life) :
               cable' = Append(UpTo(cable, n), s)
  /\ UNCHANGED <<outputs, at, life, posts, newest, shown, obeyed, overran>>
-----------------------------------------------------------------------------
(* The board.                                                              *)

(* The receive ring overruns: the oldest lines are lost, and the beginning *)
(* of the first of them, which was fetched already, is continued by the    *)
(* end of another.                                                         *)
Overrun ==
  /\ \E n \in 1 .. Len(cable) :
       cable' \in {From(cable, n + 1)}
         \cup { <<s>> \o From(cable, n + 1) :
                  s \in IF cable[1].kind = "restart" THEN {cable[1]} ELSE Splices(cable[1].life) }
  /\ overran' = life
  /\ UNCHANGED <<mailbox, daemon, out, outputs, at, life, posts, newest, shown, obeyed>>

Obeys(kinds) ==
  /\ at = "run" /\ due = {}
  /\ cable # << >> /\ cable[1].kind \in kinds
  /\ cable' = Tail(cable)

Update_Pwm ==
  LET l == cable[1] IN
  /\ Obeys({"pwm", "spliced"})
  /\ PWM!Set(l.ch, l.duty)
  /\ shown' = [shown EXCEPT ![l.ch] =
                 [duty  |-> l.duty,
                  stamp |-> IF l.kind = "pwm" THEN l.stamp ELSE @.stamp,
                  life  |-> l.life]]
  /\ UNCHANGED <<mailbox, daemon, out, at, life, posts, newest, obeyed, overran>>

(* The restart command never returns.                                      *)
Restart ==
  /\ Obeys({"restart"})
  /\ at' = "hang"
  /\ obeyed' = cable[1].life
  /\ UNCHANGED <<mailbox, daemon, out, outputs, life, posts, newest, shown, overran>>

(* The watchdog or the supply: what the board has received is forgotten,   *)
(* and the rest of a line that began before is none the board knows.       *)
Reset ==
  /\ PWM!Reset
  /\ at' = "run"
  /\ \E n \in 0 .. Len(cable) : cable' = From(cable, n + 1)
  /\ UNCHANGED <<mailbox, daemon, out, life, posts, newest, shown, obeyed, overran>>

(* PWM_RunTimer.                                                           *)
RunTimer ==
  /\ at = "run"
  /\ PWM!Second \/ \E c \in Channels : PWM!Age(c)
  /\ UNCHANGED <<mailbox, daemon, out, cable, at, life, posts, newest, shown, obeyed, overran>>

Next ==
  \/ \E u \in Updates : PWM_SetMultiplePWM(u)
  \/ PWM_CreateSharedMemory \/ Connect_To_Port \/ Compose \/ Write \/ Ends
  \/ \E c \in Channels : SendLine(c)
  \/ Overrun \/ Update_Pwm \/ Restart \/ Reset \/ RunTimer

Spec == Init /\ [][Next]_vars
-----------------------------------------------------------------------------
TypeOK ==
  /\ pending \in [Channels -> Posts \cup {NoDuty}]
  /\ taken \in [Channels -> Posts \cup {NoDuty}]
  /\ out \in [Channels -> Posts \cup {NoDuty}]
  /\ newest \in [Channels -> Posts \cup {NoDuty}]
  /\ daemon \in {"off", "starting", "serving"} /\ at \in {"run", "hang"}
  /\ cable \in Seq(Lines)
  /\ pin \in [Channels -> 0 .. 255]
  /\ due \subseteq Channels
  /\ life \in 0 .. MaxLives /\ obeyed \in 0 .. MaxLives /\ overran \in 0 .. MaxLives
  /\ posts \in 0 .. MaxUpdates
  /\ shown \in [Channels -> [duty : Int, stamp : 0 .. MaxUpdates, life : 0 .. MaxLives]]

(* The updates of a channel are obeyed in the order in which clients asked *)
(* for them and none is obeyed twice, whatever ends, starts again or       *)
(* overruns on the way.                                                    *)
InOrder ==
  [][\A c \in Channels :
       Update_Pwm /\ cable[1].kind = "pwm" /\ cable[1].ch = c
         => shown'[c].stamp > shown[c].stamp]_vars

(* Once the board has obeyed the restart of a new daemon, no output shows  *)
(* what was sent by an earlier one.                                        *)
NothingFromBefore ==
  \A c \in Channels : at = "run" /\ pin[c] > 0 => shown[c].life >= obeyed

(* Nothing is on its way from a client to an output, the board has obeyed  *)
(* the restart of the present daemon, and nothing overran in its life.     *)
Quiet ==
  /\ daemon = "serving" /\ obeyed = life /\ overran < life /\ at = "run"
  /\ pending = Nothing /\ taken = Nothing /\ out = Nothing /\ cable = << >>

(* Then every output that is on shows the newest duty that was asked for,  *)
(* resets of the board and all earlier failures notwithstanding.           *)
QuietIsNewest ==
  Quiet => \A c \in Channels :
             pin[c] > 0 => newest[c] # NoDuty /\ pin[c] \in PWM!LevelOf(newest[c].duty)
=============================================================================
