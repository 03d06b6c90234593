---------------------------- MODULE SystemProof ----------------------------
(***************************************************************************)
(* Proofs about System, for any channels, duties and timeout and any       *)
(* number of updates and lives of the daemon.                              *)
(***************************************************************************)
EXTENDS System, SequenceTheorems, TLAPS

(* Line i of the cable is a whole command for channel c.                   *)
IsFor(i, c) == cable[i].kind = "pwm" /\ cable[i].ch = c

(* For each channel the stamps grow from what was obeyed over the cable,   *)
(* the write() in progress and the message to what is posted.              *)
OrderInv ==
  /\ \A c \in Channels : shown[c].stamp <= posts
  /\ \A c \in Channels : \A i \in 1 .. Len(cable) : IsFor(i, c) =>
       /\ shown[c].stamp < cable[i].stamp /\ cable[i].stamp <= posts
       /\ \A j \in 1 .. Len(cable) : i < j /\ IsFor(j, c) => cable[i].stamp < cable[j].stamp
  /\ \A c \in Channels : \A f \in {out, taken, pending} : f[c] # NoDuty =>
       /\ shown[c].stamp < f[c].stamp /\ f[c].stamp <= posts
       /\ \A i \in 1 .. Len(cable) : IsFor(i, c) => cable[i].stamp < f[c].stamp
  /\ out = Nothing \/ taken = Nothing
  /\ \A c \in Channels : pending[c] # NoDuty =>
       /\ out[c] # NoDuty => out[c].stamp < pending[c].stamp
       /\ taken[c] # NoDuty => taken[c].stamp < pending[c].stamp

(* Along the line the lives of the daemon do not go back, and what has not *)
(* been written yet belongs to the present one.                            *)
LifeInv ==
  /\ obeyed <= life
  /\ \A i \in 1 .. Len(cable) :
       /\ obeyed <= cable[i].life /\ cable[i].life <= life
       /\ \A j \in 1 .. Len(cable) : i < j => cable[i].life <= cable[j].life
  /\ \A c \in Channels : \A f \in {out, taken, pending} : f[c] # NoDuty => f[c].life = life
  /\ \A c \in Channels : shown[c].life <= life
  /\ NothingFromBefore

(* What an output that is on shows.                                        *)
LevelInv ==
  \A c \in Channels : pin[c] > 0 => pin[c] \in PWM!LevelOf(shown[c].duty)

NoneWaits(c) == pending[c] = NoDuty /\ taken[c] = NoDuty

(* The last update of a channel that is on its way is the newest one; when *)
(* none is, what was obeyed last is.                                       *)
NewestOf(c) ==
  /\ pending[c] # NoDuty => pending[c] = newest[c]
  /\ pending[c] = NoDuty /\ taken[c] # NoDuty => taken[c] = newest[c]
  /\ NoneWaits(c) /\ out[c] # NoDuty => out[c] = newest[c]
  /\ \A i \in 1 .. Len(cable) :
       /\ NoneWaits(c) /\ out[c] = NoDuty
       /\ IsFor(i, c) /\ cable[i].life = life
       /\ \A j \in 1 .. Len(cable) : i < j => ~IsFor(j, c)
       => newest[c] # NoDuty /\ cable[i] = PwmLine(c, newest[c])
  /\ /\ NoneWaits(c) /\ out[c] = NoDuty
     /\ \A i \in 1 .. Len(cable) : ~IsFor(i, c)
     /\ pin[c] > 0 /\ shown[c].life = life
     => newest[c] # NoDuty /\ shown[c].duty = newest[c].duty

(* That holds while the daemon runs and nothing overran in its life; then  *)
(* joined lines were left by earlier daemons.                              *)
NewestInv ==
  daemon # "off" /\ overran < life =>
    /\ \A i \in 1 .. Len(cable) : cable[i].kind = "spliced" => cable[i].life < life
    /\ \A c \in Channels : NewestOf(c)

(* A message is sent by a daemon that serves, and that has been started.   *)
TypeInv ==
  /\ TypeOK
  /\ daemon # "serving" => out = Nothing
  /\ daemon # "off" => life > 0

IInv == TypeInv /\ OrderInv /\ LifeInv /\ LevelInv /\ NewestInv
-----------------------------------------------------------------------------
(* Pieces of sequences.                                                    *)

LEMMA Suffix ==
  ASSUME NEW S, NEW s \in Seq(S), NEW n \in 0 .. Len(s)
  PROVE  /\ From(s, n + 1) \in Seq(S) /\ Len(From(s, n + 1)) = Len(s) - n
         /\ \A i \in 1 .. Len(s) - n : From(s, n + 1)[i] = s[i + n] /\ i + n \in 1 .. Len(s)
  BY DEF From

LEMMA Prefix ==
  ASSUME NEW S, NEW s \in Seq(S), NEW n \in 0 .. Len(s)
  PROVE  /\ UpTo(s, n) \in Seq(S) /\ Len(UpTo(s, n)) = n
         /\ \A i \in 1 .. n : UpTo(s, n)[i] = s[i] /\ i \in 1 .. Len(s)
  BY DEF UpTo

LEMMA OneMore ==
  ASSUME NEW S, NEW s \in Seq(S), NEW e \in S
  PROVE  /\ Append(s, e) \in Seq(S) /\ Len(Append(s, e)) = Len(s) + 1
         /\ \A i \in 1 .. Len(s) : Append(s, e)[i] = s[i]
         /\ Append(s, e)[Len(s) + 1] = e
  OBVIOUS

LEMMA InFront ==
  ASSUME NEW S, NEW s \in Seq(S), NEW e \in S
  PROVE  /\ <<e>> \o s \in Seq(S) /\ Len(<<e>> \o s) = Len(s) + 1
         /\ (<<e>> \o s)[1] = e
         /\ \A i \in 2 .. Len(s) + 1 : (<<e>> \o s)[i] = s[i - 1] /\ i - 1 \in 1 .. Len(s)
  OBVIOUS

LEMMA CableIsASequence == TypeOK => cable \in Seq(Lines) /\ Len(cable) \in Nat
<1>1. TypeOK => cable \in Seq(Lines)
  BY DEF TypeOK
<1> QED BY <1>1

(* The lines on the cable, without any particular place.                   *)
LEMMA CableLines ==
  ASSUME TypeOK, NEW i \in 1 .. Len(cable)
  PROVE  /\ cable[i] \in Lines
         /\ cable[i].life \in 1 .. MaxLives /\ cable[i].life \in 0 .. MaxLives
         /\ cable[i].kind \in {"restart", "pwm", "spliced"}
         /\ cable[i].kind # "restart" =>
              /\ cable[i].ch \in Channels /\ cable[i].duty \in Int
              /\ cable[i].stamp \in 0 .. MaxUpdates
<1>1. cable[i] \in Lines
  BY DEF TypeOK
<1>2. \A d \in Duties : d \in Int
  BY DutiesAssumption
<1>3. \A k \in 1 .. MaxLives : k \in 0 .. MaxLives
  BY BoundsAssumption
<1> QED BY <1>1, <1>2, <1>3 DEF Lines

LEMMA RestartLineType == ASSUME life \in 1 .. MaxLives PROVE RestartLine \in Lines
  BY DEF RestartLine, Lines

LEMMA PwmLineType ==
  ASSUME NEW c \in Channels, NEW p \in Posts
  PROVE  /\ PwmLine(c, p) \in Lines
         /\ PwmLine(c, p).kind = "pwm" /\ PwmLine(c, p).ch = c
         /\ PwmLine(c, p).duty = p.duty /\ PwmLine(c, p).stamp = p.stamp
         /\ PwmLine(c, p).life = p.life
  BY BoundsAssumption DEF PwmLine, Lines, Posts

LEMMA SpliceType ==
  ASSUME NEW l \in 1 .. MaxLives, NEW s \in Splices(l)
  PROVE  s \in Lines /\ s.kind = "spliced" /\ s.life = l
<1>1. /\ s = [kind |-> s.kind, ch |-> s.ch, duty |-> s.duty, stamp |-> s.stamp, life |-> s.life]
      /\ s.kind = "spliced" /\ s.ch \in Channels /\ s.duty \in Garbled /\ s.stamp = 0 /\ s.life = l
  BY DEF Splices
<1>2. s.duty \in Duties /\ s.stamp \in 0 .. MaxUpdates
  BY <1>1, DutiesAssumption, BoundsAssumption
<1> QED BY <1>1, <1>2 DEF Lines

LEMMA TypeInit == Init => TypeInv
  BY BoundsAssumption
     DEF Init, Mailbox!Init, Mailbox!Nothing, Nothing, PWM!Init, TypeInv, TypeOK

-----------------------------------------------------------------------------
(* Types.                                                                  *)

LEMMA TypeMailbox ==
  ASSUME TypeInv,
         \/ \E u \in Updates : PWM_SetMultiplePWM(u)
         \/ PWM_CreateSharedMemory \/ Connect_To_Port \/ Compose \/ Write
  PROVE  TypeInv'
<1> USE DEF mailbox, outputs, Nothing, Mailbox!Nothing
<1>0. TypeOK /\ (daemon # "serving" => out = Nothing) /\ (daemon # "off" => life > 0)
  BY DEF TypeInv
<1>1. ASSUME NEW u \in Updates, PWM_SetMultiplePWM(u) PROVE TypeInv'
  <2>1. /\ posts + 1 \in 1 .. MaxUpdates /\ life \in 1 .. MaxLives
        /\ \A c \in Channels : u[c] \in Duties \cup {NoDuty}
    BY <1>0, <1>1, UpdatesAssumption, BoundsAssumption DEF PWM_SetMultiplePWM, TypeOK
  <2>2. Stamped(u) \in [Channels -> Posts \cup {NoDuty}]
    BY <2>1 DEF Stamped, Posts
  <2>a. pending \in [Channels -> Posts \cup {NoDuty}] /\ newest \in [Channels -> Posts \cup {NoDuty}]
    BY <1>0 DEF TypeOK
  <2>b. /\ pending' = Mailbox!Over(Stamped(u), pending)
        /\ newest' = [c \in Channels |-> IF u[c] = NoDuty THEN newest[c] ELSE Stamped(u)[c]]
    BY <1>1 DEF PWM_SetMultiplePWM, Mailbox!Post
  <2>3. pending' \in [Channels -> Posts \cup {NoDuty}] /\ newest' \in [Channels -> Posts \cup {NoDuty}]
    BY <2>2, <2>a, <2>b DEF Mailbox!Over
  <2>4. UNCHANGED <<taken, daemon, out, cable, pin, due, at, life, shown, obeyed, overran>>
    BY <1>1 DEF PWM_SetMultiplePWM, Mailbox!Post
  <2>5. posts' \in 0 .. MaxUpdates
    BY <1>1, <2>1 DEF PWM_SetMultiplePWM
  <2>6. TypeOK'
    BY <1>0, <2>3, <2>4, <2>5 DEF TypeOK
  <2> QED BY <1>0, <2>4, <2>6 DEF TypeInv
<1>2. CASE PWM_CreateSharedMemory
  <2>1. life' \in 1 .. MaxLives /\ life' = life + 1
    BY <1>0, <1>2, BoundsAssumption DEF PWM_CreateSharedMemory, TypeOK
  <2>2. life' \in 0 .. MaxLives /\ life' > 0
    BY <2>1, BoundsAssumption
  <2>3. pending' = Nothing /\ taken' = Nothing /\ daemon' = "starting" /\ out' = Nothing
    BY <1>0, <1>2 DEF PWM_CreateSharedMemory, Mailbox!Forget
  <2>4. UNCHANGED <<cable, pin, due, at, posts, newest, shown, obeyed, overran>>
    BY <1>2 DEF PWM_CreateSharedMemory
  <2> QED BY <1>0, <2>2, <2>3, <2>4 DEF TypeInv, TypeOK
<1>3. CASE Connect_To_Port
  <2>0. life \in 1 .. MaxLives
    BY <1>0, <1>3, BoundsAssumption DEF Connect_To_Port, TypeOK
  <2>1. RestartLine \in Lines
    BY <2>0, RestartLineType
  <2>2. cable' \in Seq(Lines)
    <3>1. cable \in Seq(Lines) /\ cable' \in {cable, Append(cable, RestartLine)}
      BY <1>0, <1>3 DEF Connect_To_Port, TypeOK
    <3> QED BY <2>1, <3>1, OneMore
  <2>3. /\ UNCHANGED <<pending, taken, out, pin, due, at, life, posts, newest, shown, obeyed, overran>>
        /\ daemon' = "serving" /\ life > 0
    BY <1>0, <1>3 DEF Connect_To_Port
  <2> QED BY <1>0, <2>2, <2>3 DEF TypeInv, TypeOK
<1>4. CASE Compose
  BY <1>0, <1>4 DEF Compose, Mailbox!Take, TypeInv, TypeOK
<1>5. CASE Write
  <2>1. out' = taken /\ taken' = Nothing /\ pending' = pending /\ daemon = "serving"
    BY <1>5 DEF Write, Mailbox!Deliver
  <2>2. UNCHANGED <<daemon, cable, pin, due, at, life, posts, newest, shown, obeyed, overran>>
    BY <1>5 DEF Write
  <2> QED BY <1>0, <2>1, <2>2 DEF TypeInv, TypeOK
<1> QED BY <1>1, <1>2, <1>3, <1>4, <1>5

LEMMA TypeLine ==
  ASSUME TypeInv, (\E c \in Channels : SendLine(c)) \/ Ends \/ Overrun
  PROVE  TypeInv'
<1> USE DEF mailbox, outputs, Nothing, Mailbox!Nothing
<1>0. TypeOK /\ (daemon # "serving" => out = Nothing) /\ (daemon # "off" => life > 0)
  BY DEF TypeInv
<1>1. ASSUME NEW c \in Channels, SendLine(c) PROVE TypeInv'
  <2>1. out[c] \in Posts
    BY <1>0, <1>1 DEF SendLine, TypeOK
  <2>2. cable' \in Seq(Lines)
    BY <1>0, <1>1, <2>1, PwmLineType DEF SendLine, TypeOK
  <2>3. out' \in [Channels -> Posts \cup {NoDuty}] /\ (daemon' # "serving" => out' = Nothing')
    BY <1>0, <1>1 DEF SendLine, TypeOK
  <2> QED BY <1>0, <1>1, <2>2, <2>3 DEF SendLine, TypeInv, TypeOK
<1>2. CASE Ends
  <2>1. life \in 1 .. MaxLives /\ cable \in Seq(Lines)
    BY <1>0, <1>2, BoundsAssumption DEF Ends, TypeOK
  <2>2. PICK n \in 0 .. Len(cable) :
          \/ cable' = UpTo(cable, n)
          \/ \E s \in Splices(IF n < Len(cable) THEN cable[n + 1].life ELSE life) :
               cable' = Append(UpTo(cable, n), s)
    BY <1>2 DEF Ends
  <2>3. (IF n < Len(cable) THEN cable[n + 1].life ELSE life) \in 1 .. MaxLives
    <3>1. n < Len(cable) => n + 1 \in 1 .. Len(cable)
      BY <2>1
    <3> QED BY <1>0, <2>1, <3>1, CableLines
  <2>4. UpTo(cable, n) \in Seq(Lines)
    BY <2>1, Prefix
  <2>5. cable' \in Seq(Lines)
    BY <2>2, <2>3, <2>4, SpliceType, OneMore
  <2> QED BY <1>0, <1>2, <2>5 DEF Ends, Mailbox!Drop, TypeInv, TypeOK
<1>3. CASE Overrun
  <2>1. PICK n \in 1 .. Len(cable) :
          \/ cable' = From(cable, n + 1)
          \/ \E s \in {cable[1]} \cup Splices(cable[1].life) : cable' = <<s>> \o From(cable, n + 1)
    BY <1>3 DEF Overrun
  <2>2. cable \in Seq(Lines) /\ n \in 0 .. Len(cable) /\ 1 \in 1 .. Len(cable)
    BY <1>0, <2>1 DEF TypeOK
  <2>3. cable[1] \in Lines /\ cable[1].life \in 1 .. MaxLives
    BY <1>0, <2>2, CableLines
  <2>4. From(cable, n + 1) \in Seq(Lines)
    BY <2>2, Suffix
  <2>5. cable' \in Seq(Lines)
    <3>1. CASE cable' = From(cable, n + 1)
      BY <2>4, <3>1
    <3>2. ASSUME NEW s \in {cable[1]} \cup Splices(cable[1].life),
                 cable' = <<s>> \o From(cable, n + 1)
          PROVE  cable' \in Seq(Lines)
      <4>1. s \in Lines
        BY <2>3, <3>2, SpliceType
      <4> QED BY <2>4, <3>2, <4>1, InFront
    <3> QED BY <2>1, <3>1, <3>2
  <2> QED BY <1>0, <1>3, <2>5 DEF Overrun, TypeInv, TypeOK
<1> QED BY <1>1, <1>2, <1>3

LEMMA TypeBoard ==
  ASSUME TypeInv, Update_Pwm \/ Restart \/ Reset \/ RunTimer
  PROVE  TypeInv'
<1> USE DEF mailbox, outputs, Nothing, Mailbox!Nothing
<1>0. TypeOK /\ (daemon # "serving" => out = Nothing) /\ (daemon # "off" => life > 0)
  BY DEF TypeInv
<1>1. ASSUME NEW kinds, Obeys(kinds)
      PROVE  /\ 1 \in 1 .. Len(cable) /\ cable' \in Seq(Lines)
             /\ cable[1].life \in 1 .. MaxLives /\ cable[1].kind \in kinds
  BY <1>0, <1>1, CableLines DEF Obeys, TypeOK
<1>2. CASE Update_Pwm
  <2> DEFINE l == cable[1]
  <2>1. /\ cable' \in Seq(Lines) /\ l.life \in 0 .. MaxLives /\ l.ch \in Channels
        /\ l.duty \in Int /\ l.stamp \in 0 .. MaxUpdates
    <3>1. Obeys({"pwm", "spliced"})
      BY <1>2 DEF Update_Pwm
    <3>2. 1 \in 1 .. Len(cable) /\ cable' \in Seq(Lines) /\ l.kind # "restart"
      BY <1>1, <3>1
    <3> QED BY <1>0, <3>2, CableLines
  <2>2. shown' \in [Channels -> [duty : Int, stamp : 0 .. MaxUpdates, life : 0 .. MaxLives]]
    BY <1>0, <1>2, <2>1 DEF Update_Pwm, TypeOK
  <2>3. pin' \in [Channels -> 0 .. 255] /\ due' = due
    <3>1. PICK v \in PWM!LevelOf(l.duty) : pin' = [pin EXCEPT ![l.ch] = v]
      BY <1>2 DEF Update_Pwm, PWM!Set
    <3>2. v \in 0 .. 255
      BY DEF PWM!LevelOf
    <3> QED BY <1>0, <1>2, <2>1, <3>1, <3>2 DEF Update_Pwm, PWM!Set, TypeOK
  <2> QED BY <1>0, <1>2, <2>1, <2>2, <2>3 DEF Update_Pwm, TypeInv, TypeOK
<1>3. CASE Restart
  <2>1. cable' \in Seq(Lines) /\ obeyed' \in 1 .. MaxLives
    BY <1>1, <1>3 DEF Restart
  <2>2. obeyed' \in 0 .. MaxLives
    BY <2>1, BoundsAssumption
  <2> QED BY <1>0, <1>3, <2>1, <2>2 DEF Restart, TypeInv, TypeOK
<1>4. CASE Reset
  <2>1. cable' \in Seq(Lines)
    BY <1>0, <1>4, Suffix DEF Reset, TypeOK
  <2> QED BY <1>0, <1>4, <2>1 DEF Reset, PWM!Reset, TypeInv, TypeOK
<1>5. CASE RunTimer
  <2>1. pin' \in [Channels -> 0 .. 255] /\ due' \subseteq Channels
    <3>1. CASE PWM!Second
      BY <1>0, <3>1 DEF PWM!Second, TypeOK
    <3>2. ASSUME NEW c \in Channels, PWM!Age(c)
          PROVE  pin' \in [Channels -> 0 .. 255] /\ due' \subseteq Channels
      <4>1. pin' \in {pin, [pin EXCEPT ![c] = 0]} /\ due' = due \ {c}
        BY <3>2 DEF PWM!Age
      <4>2. pin \in [Channels -> 0 .. 255] /\ due \subseteq Channels
        BY <1>0 DEF TypeOK
      <4>3. pin' \in [Channels -> 0 .. 255]
        <5>1. 0 \in 0 .. 255
          OBVIOUS
        <5> QED BY <4>1, <4>2, <5>1
      <4> QED BY <4>1, <4>2, <4>3
    <3> QED BY <1>5, <3>1, <3>2 DEF RunTimer
  <2>2. UNCHANGED <<pending, taken, out, daemon, cable, at, life, posts, newest, shown, obeyed, overran>>
    BY <1>5 DEF RunTimer
  <2>3. TypeOK'
    BY <1>0, <2>1, <2>2 DEF TypeOK
  <2> QED BY <1>0, <2>2, <2>3 DEF TypeInv
<1> QED BY <1>2, <1>3, <1>4, <1>5

LEMMA TypeNext == TypeInv /\ [Next]_vars => TypeInv'
<1>1. ASSUME TypeInv, UNCHANGED vars PROVE TypeInv'
  <2>1. UNCHANGED <<pending, taken, daemon, out, cable, pin, due, at, life, posts, newest, shown,
                    obeyed, overran>>
    BY <1>1 DEF vars, mailbox, outputs
  <2>2. TypeOK'
    BY <1>1, <2>1 DEF TypeInv, TypeOK
  <2> QED BY <1>1, <2>1, <2>2 DEF TypeInv, Nothing, Mailbox!Nothing
<1> QED BY <1>1, TypeMailbox, TypeLine, TypeBoard DEF Next

-----------------------------------------------------------------------------
(* What the actions do to the cable.                                       *)

(* The board obeys its first line, or forgets some of the first.           *)
LEMMA CableShifts ==
  ASSUME TypeOK, Update_Pwm \/ Restart \/ Reset
  PROVE  \E n \in 0 .. Len(cable) :
           /\ Update_Pwm \/ Restart => n = 1
           /\ Len(cable') = Len(cable) - n
           /\ \A i \in 1 .. Len(cable') : i + n \in 1 .. Len(cable) /\ cable'[i] = cable[i + n]
<1>0. cable \in Seq(Lines)
  BY DEF TypeOK
<1>1. CASE Update_Pwm \/ Restart
  <2>1. cable # << >> /\ cable' = Tail(cable)
    BY <1>1 DEF Update_Pwm, Restart, Obeys
  <2>2. /\ 1 \in 0 .. Len(cable) /\ Len(cable') = Len(cable) - 1
        /\ \A i \in 1 .. Len(cable') : i + 1 \in 1 .. Len(cable) /\ cable'[i] = cable[i + 1]
    BY <1>0, <2>1
  <2> QED BY <2>2
<1>2. CASE Reset /\ ~(Update_Pwm \/ Restart)
  <2>1. PICK n \in 0 .. Len(cable) : cable' = From(cable, n + 1)
    BY <1>2 DEF Reset
  <2>2. /\ Len(cable') = Len(cable) - n
        /\ \A i \in 1 .. Len(cable') : i + n \in 1 .. Len(cable) /\ cable'[i] = cable[i + n]
    BY <1>0, <2>1, Suffix
  <2> QED BY <1>2, <2>2
<1> QED BY <1>1, <1>2

(* An overrun takes some of the first lines; a line that is joined of      *)
(* pieces, or a restart, may stay in front.                                *)
LEMMA CableOverruns ==
  ASSUME TypeOK, Overrun
  PROVE  \E n \in 1 .. Len(cable), m \in {0, 1} :
           /\ Len(cable') = Len(cable) - n + m
           /\ m = 1 => cable'[1].kind # "pwm" /\ cable'[1].life = cable[1].life
           /\ \A i \in 1 + m .. Len(cable') :
                i - m + n \in 1 .. Len(cable) /\ cable'[i] = cable[i - m + n]
<1>0. cable \in Seq(Lines)
  BY DEF TypeOK
<1>1. PICK n \in 1 .. Len(cable) :
        cable' \in {From(cable, n + 1)}
          \cup { <<s>> \o From(cable, n + 1) :
                   s \in IF cable[1].kind = "restart" THEN {cable[1]} ELSE Splices(cable[1].life) }
  BY DEF Overrun
<1>2. n \in 0 .. Len(cable) /\ 1 \in 1 .. Len(cable)
  BY <1>0, <1>1
<1> DEFINE rest == From(cable, n + 1)
<1>3. /\ rest \in Seq(Lines) /\ Len(rest) = Len(cable) - n
      /\ \A i \in 1 .. Len(cable) - n : rest[i] = cable[i + n] /\ i + n \in 1 .. Len(cable)
  BY <1>0, <1>2, Suffix
<1>a. cable' = rest \/ \E s \in IF cable[1].kind = "restart" THEN {cable[1]}
                                ELSE Splices(cable[1].life) : cable' = <<s>> \o rest
  BY <1>1
<1> HIDE DEF rest
<1>4. CASE cable' = rest
  <2>1. /\ Len(cable') = Len(cable) - n + 0
        /\ \A i \in 1 + 0 .. Len(cable') :
             i - 0 + n \in 1 .. Len(cable) /\ cable'[i] = cable[i - 0 + n]
    BY <1>0, <1>3, <1>4
  <2> QED BY <2>1
<1>5. CASE cable' # rest
  <2>1. PICK s \in IF cable[1].kind = "restart" THEN {cable[1]} ELSE Splices(cable[1].life) :
          cable' = <<s>> \o rest
    BY <1>a, <1>5
  <2>2. s \in Lines /\ s.kind # "pwm" /\ s.life = cable[1].life
    BY <1>2, <2>1, CableLines, SpliceType
  <2>3. /\ Len(cable') = Len(cable) - n + 1 /\ cable'[1] = s
        /\ \A i \in 2 .. Len(cable) - n + 1 :
             cable'[i] = rest[i - 1] /\ i - 1 \in 1 .. Len(cable) - n
    <3>1. /\ Len(<<s>> \o rest) = Len(rest) + 1 /\ (<<s>> \o rest)[1] = s
          /\ \A i \in 2 .. Len(rest) + 1 :
               (<<s>> \o rest)[i] = rest[i - 1] /\ i - 1 \in 1 .. Len(rest)
      BY <2>2, InFront
    <3> QED BY <1>3, <2>1, <3>1
  <2>4. \A i \in 1 + 1 .. Len(cable') :
          i - 1 + n \in 1 .. Len(cable) /\ cable'[i] = cable[i - 1 + n]
    <3>1. Len(cable) \in Nat /\ n \in Nat
      BY <1>0
    <3>2. SUFFICES ASSUME NEW i \in 1 + 1 .. Len(cable')
                   PROVE  i - 1 + n \in 1 .. Len(cable) /\ cable'[i] = cable[i - 1 + n]
      OBVIOUS
    <3>3. i \in 2 .. Len(cable) - n + 1
      BY <2>3, <3>1
    <3>4. cable'[i] = rest[i - 1] /\ i - 1 \in 1 .. Len(cable) - n
      BY <2>3, <3>3
    <3> QED BY <1>3, <3>1, <3>4
  <2> QED BY <2>2, <2>3, <2>4
<1> QED BY <1>4, <1>5

(* The end of a daemon takes some of the last lines, and may leave a piece *)
(* of one.                                                                 *)
LEMMA CableEnds ==
  ASSUME TypeInv, Ends
  PROVE  \E n \in 0 .. Len(cable), m \in {0, 1} :
           /\ Len(cable') = n + m
           /\ \A i \in 1 .. n : i \in 1 .. Len(cable) /\ cable'[i] = cable[i]
           /\ m = 1 => /\ cable'[n + 1].kind # "pwm"
                       /\ cable'[n + 1].life = IF n < Len(cable) THEN cable[n + 1].life ELSE life
<1>0. cable \in Seq(Lines) /\ life \in 1 .. MaxLives
  BY BoundsAssumption DEF Ends, TypeInv, TypeOK
<1>1. PICK n \in 0 .. Len(cable) :
        \/ cable' = UpTo(cable, n)
        \/ \E s \in Splices(IF n < Len(cable) THEN cable[n + 1].life ELSE life) :
             cable' = Append(UpTo(cable, n), s)
  BY DEF Ends
<1> DEFINE l == IF n < Len(cable) THEN cable[n + 1].life ELSE life
<1>a. l \in 1 .. MaxLives
  <2>1. n < Len(cable) => n + 1 \in 1 .. Len(cable)
    BY <1>0
  <2> QED BY <1>0, <2>1, CableLines DEF TypeInv
<1>2. /\ UpTo(cable, n) \in Seq(Lines) /\ Len(UpTo(cable, n)) = n
      /\ \A i \in 1 .. n : UpTo(cable, n)[i] = cable[i] /\ i \in 1 .. Len(cable)
  BY <1>0, Prefix
<1>3. CASE cable' = UpTo(cable, n)
  <2>1. /\ Len(cable') = n + 0
        /\ \A i \in 1 .. n : i \in 1 .. Len(cable) /\ cable'[i] = cable[i]
    BY <1>2, <1>3
  <2> QED BY <2>1
<1>4. ASSUME NEW s \in Splices(l), cable' = Append(UpTo(cable, n), s)
      PROVE  /\ Len(cable') = n + 1
             /\ \A i \in 1 .. n : i \in 1 .. Len(cable) /\ cable'[i] = cable[i]
             /\ cable'[n + 1].kind # "pwm" /\ cable'[n + 1].life = l
  <2>1. s \in Lines /\ s.kind # "pwm" /\ s.life = l
    BY <1>a, SpliceType
  <2> HIDE DEF l
  <2> QED BY <1>2, <1>4, <2>1, OneMore
<1> QED BY <1>1, <1>3, <1>4

(* A line is written behind what is there.                                 *)
LEMMA CableGrows ==
  ASSUME TypeInv, NEW e \in Lines, cable' = Append(cable, e)
  PROVE  /\ Len(cable) \in Nat /\ Len(cable') = Len(cable) + 1 /\ cable'[Len(cable) + 1] = e
         /\ \A i \in 1 .. Len(cable) : cable'[i] = cable[i]
  BY OneMore DEF TypeInv, TypeOK

(* The whole commands that are left keep their order, but where one is     *)
(* written.                                                                *)
LEMMA CableKeepsOrder ==
  ASSUME TypeInv,
         Connect_To_Port \/ Ends \/ Overrun \/ Update_Pwm \/ Restart \/ Reset
  PROVE  \E k \in Nat : \A i \in 1 .. Len(cable') :
           cable'[i].kind = "pwm" => i + k \in 1 .. Len(cable) /\ cable'[i] = cable[i + k]
<1>0. TypeOK /\ Len(cable) \in Nat
  BY CableIsASequence DEF TypeInv
<1>1. CASE Connect_To_Port
  <2>1. life \in 1 .. MaxLives /\ cable' \in {cable, Append(cable, RestartLine)}
    BY <1>1, BoundsAssumption DEF Connect_To_Port, TypeInv, TypeOK
  <2>2. RestartLine \in Lines /\ RestartLine.kind # "pwm"
    BY <2>1, RestartLineType DEF RestartLine
  <2>3. \A i \in 1 .. Len(cable') :
          cable'[i].kind = "pwm" => i + 0 \in 1 .. Len(cable) /\ cable'[i] = cable[i + 0]
    BY <1>0, <2>1, <2>2, CableGrows
  <2> QED BY <2>3
<1>2. CASE Ends
  <2>1. PICK n \in 0 .. Len(cable), m \in {0, 1} :
           /\ Len(cable') = n + m
           /\ \A i \in 1 .. n : i \in 1 .. Len(cable) /\ cable'[i] = cable[i]
           /\ m = 1 => cable'[n + 1].kind # "pwm"
    BY <1>2, CableEnds
  <2>2. \A i \in 1 .. Len(cable') :
          cable'[i].kind = "pwm" => i + 0 \in 1 .. Len(cable) /\ cable'[i] = cable[i + 0]
    BY <1>0, <2>1
  <2> QED BY <2>2
<1>3. CASE Overrun
  <2>1. PICK n \in 1 .. Len(cable), m \in {0, 1} :
           /\ Len(cable') = Len(cable) - n + m
           /\ m = 1 => cable'[1].kind # "pwm"
           /\ \A i \in 1 + m .. Len(cable') :
                i - m + n \in 1 .. Len(cable) /\ cable'[i] = cable[i - m + n]
    BY <1>0, <1>3, CableOverruns
  <2>2. n - m \in Nat
    BY <1>0, <2>1
  <2>3. \A i \in 1 .. Len(cable') : cable'[i].kind = "pwm" =>
          i + (n - m) \in 1 .. Len(cable) /\ cable'[i] = cable[i + (n - m)]
    BY <1>0, <2>1
  <2> QED BY <2>2, <2>3
<1>4. CASE Update_Pwm \/ Restart \/ Reset
  <2>1. PICK n \in 0 .. Len(cable) : \A i \in 1 .. Len(cable') :
          i + n \in 1 .. Len(cable) /\ cable'[i] = cable[i + n]
    BY <1>0, <1>4, CableShifts
  <2>2. n \in Nat
    BY <1>0
  <2> QED BY <2>1, <2>2
<1> QED BY <1>1, <1>2, <1>3, <1>4

-----------------------------------------------------------------------------
(* Order.                                                                  *)

LEMMA Stamps ==
  ASSUME TypeOK
  PROVE  /\ posts \in Nat
         /\ \A c \in Channels :
              /\ shown[c].stamp \in Int
              /\ pending[c] # NoDuty => pending[c].stamp \in Int
              /\ taken[c] # NoDuty => taken[c].stamp \in Int
              /\ out[c] # NoDuty => out[c].stamp \in Int
         /\ \A i \in 1 .. Len(cable) : cable[i].kind = "pwm" => cable[i].stamp \in Int
<1>1. \A k \in 0 .. MaxUpdates : k \in Int
  OBVIOUS
<1>2. posts \in Nat
  BY BoundsAssumption DEF TypeOK
<1>3. \A p \in Posts : p.stamp \in Int
  BY DEF Posts
<1>4. ASSUME NEW c \in Channels
      PROVE  /\ shown[c].stamp \in Int
             /\ pending[c] # NoDuty => pending[c].stamp \in Int
             /\ taken[c] # NoDuty => taken[c].stamp \in Int
             /\ out[c] # NoDuty => out[c].stamp \in Int
  BY <1>1, <1>3 DEF TypeOK
<1>5. \A i \in 1 .. Len(cable) : cable[i].kind = "pwm" => cable[i].stamp \in Int
  BY <1>1, CableLines
<1> QED BY <1>2, <1>4, <1>5

(* Lines that are taken from the cable, and messages that are dropped,     *)
(* disturb no order, if what is shown does not pass what is left.          *)
LEMMA OrderShift ==
  ASSUME TypeInv, OrderInv, NEW k \in Nat,
         \A i \in 1 .. Len(cable') :
           cable'[i].kind = "pwm" => i + k \in 1 .. Len(cable) /\ cable'[i] = cable[i + k],
         Len(cable') \in Nat, posts' = posts, pending' = pending,
         taken' \in {taken, Nothing}, out' \in {out, Nothing},
         \A c \in Channels :
           \/ shown'[c].stamp = shown[c].stamp
           \/ /\ shown'[c].stamp <= posts
              /\ \A i \in 1 .. Len(cable') :
                   cable'[i].kind = "pwm" /\ cable'[i].ch = c => shown'[c].stamp < cable'[i].stamp
              /\ \A f \in {out, taken, pending} : f[c] # NoDuty => shown'[c].stamp < f[c].stamp
  PROVE  OrderInv'
<1> USE DEF Nothing, Mailbox!Nothing
<1>0. TypeOK
  BY DEF TypeInv
<1>1. \A c \in Channels : shown'[c].stamp <= posts
  BY DEF OrderInv
<1>2. ASSUME NEW c \in Channels, NEW i \in 1 .. Len(cable'), IsFor(i, c)'
      PROVE  /\ shown'[c].stamp < cable'[i].stamp /\ cable'[i].stamp <= posts
             /\ \A j \in 1 .. Len(cable') : i < j /\ IsFor(j, c)' => cable'[i].stamp < cable'[j].stamp
             /\ \A f \in {out, taken, pending} : f[c] # NoDuty => cable'[i].stamp < f[c].stamp
  <2>1. i + k \in 1 .. Len(cable) /\ cable'[i] = cable[i + k] /\ IsFor(i + k, c)
    BY <1>2 DEF IsFor
  <2>2. \A j \in 1 .. Len(cable') : i < j /\ IsFor(j, c)' =>
          /\ j + k \in 1 .. Len(cable) /\ i + k < j + k
          /\ cable'[j] = cable[j + k] /\ IsFor(j + k, c)
    BY DEF IsFor
  <2>3. /\ shown[c].stamp < cable[i + k].stamp /\ cable[i + k].stamp <= posts
        /\ \A j \in 1 .. Len(cable) :
             i + k < j /\ IsFor(j, c) => cable[i + k].stamp < cable[j].stamp
        /\ \A f \in {out, taken, pending} : f[c] # NoDuty => cable[i + k].stamp < f[c].stamp
    BY <2>1 DEF OrderInv
  <2>4. shown'[c].stamp < cable'[i].stamp
    BY <1>2, <2>1, <2>3 DEF IsFor
  <2>5. \A j \in 1 .. Len(cable') : i < j /\ IsFor(j, c)' => cable'[i].stamp < cable'[j].stamp
    BY <2>1, <2>2, <2>3
  <2> QED BY <2>1, <2>3, <2>4, <2>5
<1>3. ASSUME NEW c \in Channels, NEW f \in {out, taken, pending}, f[c] # NoDuty
      PROVE  shown'[c].stamp < f[c].stamp /\ f[c].stamp <= posts
  BY <1>3 DEF OrderInv
<1>4. \A f \in {out', taken', pending'}, c \in Channels :
        f[c] # NoDuty => \E g \in {out, taken, pending} : f = g
  OBVIOUS
<1>5. \A c \in Channels : \A f \in {out', taken', pending'} : f[c] # NoDuty =>
        /\ shown'[c].stamp < f[c].stamp /\ f[c].stamp <= posts
        /\ \A i \in 1 .. Len(cable') : IsFor(i, c)' => cable'[i].stamp < f[c].stamp
  BY <1>2, <1>3, <1>4
<1>6. out' = Nothing' \/ taken' = Nothing'
  BY DEF OrderInv
<1>7. \A c \in Channels : pending'[c] # NoDuty =>
        /\ out'[c] # NoDuty => out'[c].stamp < pending'[c].stamp
        /\ taken'[c] # NoDuty => taken'[c].stamp < pending'[c].stamp
  BY DEF OrderInv
<1> QED BY <1>1, <1>2, <1>5, <1>6, <1>7 DEF OrderInv

LEMMA OrderCable ==
  ASSUME TypeInv, TypeInv', OrderInv,
         Connect_To_Port \/ Ends \/ Overrun \/ Update_Pwm \/ Restart \/ Reset
  PROVE  OrderInv'
<1> USE DEF mailbox, outputs, Nothing, Mailbox!Nothing
<1>0. TypeOK /\ Len(cable) \in Nat /\ Len(cable') \in Nat
  <2>1. cable \in Seq(Lines) /\ cable' \in Seq(Lines)
    BY DEF TypeInv, TypeOK
  <2> QED BY <2>1 DEF TypeInv
<1>1. CASE Update_Pwm
  <2> DEFINE l == cable[1]
  <2>1. 1 \in 1 .. Len(cable) /\ l.kind \in {"pwm", "spliced"}
    BY <1>0, <1>1 DEF Update_Pwm, Obeys, TypeOK
  <2>2. \A i \in 1 .. Len(cable') : i + 1 \in 1 .. Len(cable) /\ cable'[i] = cable[i + 1]
    BY <1>0, <1>1, CableShifts
  <2>3. l.ch \in Channels
    BY <1>0, <2>1, CableLines
  <2>4. ASSUME NEW c \in Channels
        PROVE  \/ shown'[c].stamp = shown[c].stamp
               \/ IsFor(1, c) /\ shown'[c].stamp = l.stamp
    <3>1. shown' = [shown EXCEPT ![l.ch] =
                     [duty |-> l.duty, stamp |-> IF l.kind = "pwm" THEN l.stamp ELSE @.stamp,
                      life |-> l.life]]
      BY <1>1 DEF Update_Pwm
    <3>2. shown \in [Channels -> [duty : Int, stamp : 0 .. MaxUpdates, life : 0 .. MaxLives]]
      BY <1>0 DEF TypeOK
    <3> QED BY <2>3, <3>1, <3>2 DEF IsFor
  <2>5. ASSUME NEW c \in Channels, IsFor(1, c), shown'[c].stamp = l.stamp
        PROVE  /\ shown'[c].stamp <= posts
               /\ \A i \in 1 .. Len(cable') :
                    cable'[i].kind = "pwm" /\ cable'[i].ch = c
                      => shown'[c].stamp < cable'[i].stamp
               /\ \A f \in {out, taken, pending} : f[c] # NoDuty => shown'[c].stamp < f[c].stamp
    <3>1. \A i \in 1 .. Len(cable') : 1 < i + 1
      BY <1>0
    <3> QED BY <2>1, <2>2, <2>5, <3>1 DEF OrderInv, IsFor
  <2>6. posts' = posts /\ pending' = pending /\ taken' = taken /\ out' = out
    BY <1>1 DEF Update_Pwm
  <2>7. 1 \in Nat
    OBVIOUS
  <2> HIDE DEF l
  <2> QED BY <1>0, <2>2, <2>4, <2>5, <2>6, <2>7, OrderShift
<1>2. CASE Connect_To_Port \/ Ends \/ Overrun \/ Restart \/ Reset
  <2>1. PICK k \in Nat : \A i \in 1 .. Len(cable') :
          cable'[i].kind = "pwm" => i + k \in 1 .. Len(cable) /\ cable'[i] = cable[i + k]
    BY <1>2, CableKeepsOrder
  <2>2. /\ posts' = posts /\ pending' = pending /\ shown' = shown
        /\ taken' \in {taken, Nothing} /\ out' \in {out, Nothing}
    BY <1>2 DEF Connect_To_Port, Ends, Mailbox!Drop, Overrun, Restart, Reset
  <2> QED BY <1>0, <2>1, <2>2, OrderShift
<1> QED BY <1>1, <1>2

(* What a client asks for is newer than all that is on its way, a message  *)
(* keeps its place before it, and a line goes behind all lines.            *)
LEMMA OrderMoves ==
  ASSUME TypeInv, OrderInv,
         \/ \E u \in Updates : PWM_SetMultiplePWM(u)
         \/ PWM_CreateSharedMemory \/ Compose \/ Write
         \/ \E c \in Channels : SendLine(c)
  PROVE  OrderInv'
<1> USE DEF mailbox, outputs, Nothing, Mailbox!Nothing
<1>0. TypeOK
  BY DEF TypeInv
<1>a. /\ posts \in Nat
      /\ \A c \in Channels :
           /\ shown[c].stamp \in Int
           /\ pending[c] # NoDuty => pending[c].stamp \in Int
           /\ taken[c] # NoDuty => taken[c].stamp \in Int
           /\ out[c] # NoDuty => out[c].stamp \in Int
      /\ \A i \in 1 .. Len(cable) : cable[i].kind = "pwm" => cable[i].stamp \in Int
  BY <1>0, Stamps
<1>1. ASSUME NEW u \in Updates, PWM_SetMultiplePWM(u) PROVE OrderInv'
  <2>1. /\ posts' = posts + 1 /\ taken' = taken
        /\ out' = out /\ cable' = cable /\ shown' = shown
    BY <1>1 DEF PWM_SetMultiplePWM, Mailbox!Post
  <2>2. ASSUME NEW c \in Channels
        PROVE  pending'[c] = pending[c] \/ (pending'[c] # NoDuty /\ pending'[c].stamp = posts + 1)
    BY <1>1, NoDutyAssumption DEF PWM_SetMultiplePWM, Mailbox!Post, Mailbox!Over, Stamped
  <2> QED BY <1>a, <2>1, <2>2 DEF OrderInv, IsFor
<1>2. CASE PWM_CreateSharedMemory
  BY <1>2 DEF PWM_CreateSharedMemory, Mailbox!Forget, OrderInv, IsFor
<1>3. CASE Compose
  BY <1>3 DEF Compose, Mailbox!Take, OrderInv, IsFor
<1>4. CASE Write
  BY <1>4 DEF Write, Mailbox!Deliver, OrderInv, IsFor
<1>5. ASSUME NEW c \in Channels, SendLine(c) PROVE OrderInv'
  <2>0. PICK n \in Nat : n = Len(cable)
    BY <1>0, CableIsASequence
  <2> DEFINE e == PwmLine(c, out[c])
  <2>1. /\ out[c] # NoDuty /\ cable' = Append(cable, e) /\ out' = [out EXCEPT ![c] = NoDuty]
        /\ pending' = pending /\ taken' = taken /\ posts' = posts /\ shown' = shown
    BY <1>5 DEF SendLine
  <2>2. out[c] \in Posts /\ out \in [Channels -> Posts \cup {NoDuty}]
    BY <1>0, <2>1 DEF TypeOK
  <2>3. e \in Lines /\ e.kind = "pwm" /\ e.ch = c /\ e.stamp = out[c].stamp
    BY <2>2, PwmLineType
  <2>4. /\ Len(cable') = n + 1 /\ cable'[n + 1] = e
        /\ \A i \in 1 .. n : cable'[i] = cable[i]
    BY <2>0, <2>1, <2>3, CableGrows
  <2>5. \A i \in 1 .. Len(cable') : i = n + 1 \/ i \in 1 .. n
    BY <2>4
  <2>6. taken = Nothing
    BY <2>1 DEF OrderInv
  <2> HIDE DEF e
  <2>7. \A d \in Channels : \A i \in 1 .. n : IsFor(i, d)' <=> IsFor(i, d)
    BY <2>4, <2>5 DEF IsFor
  <2>8. \A d \in Channels : IsFor(n + 1, d)' <=> d = c
    BY <2>3, <2>4 DEF IsFor
  <2>9. \A d \in Channels : out'[d] # NoDuty => d # c /\ out'[d] = out[d]
    BY <2>1, <2>2
  <2>10. \A d \in Channels : \A i \in 1 .. Len(cable') : IsFor(i, d)' =>
           /\ shown[d].stamp < cable'[i].stamp /\ cable'[i].stamp <= posts
           /\ \A j \in 1 .. Len(cable') : i < j /\ IsFor(j, d)' => cable'[i].stamp < cable'[j].stamp
    <3>1. SUFFICES ASSUME NEW d \in Channels, NEW i \in 1 .. Len(cable'), IsFor(i, d)'
                   PROVE  /\ shown[d].stamp < cable'[i].stamp /\ cable'[i].stamp <= posts
                          /\ \A j \in 1 .. Len(cable') :
                               i < j /\ IsFor(j, d)' => cable'[i].stamp < cable'[j].stamp
      OBVIOUS
    <3>2. CASE i = n + 1
      BY <2>1, <2>3, <2>4, <2>8, <3>1, <3>2 DEF OrderInv
    <3>3. CASE i \in 1 .. n
      <4>1. IsFor(i, d) /\ cable'[i] = cable[i]
        BY <2>4, <2>7, <3>1, <3>3
      <4>2. /\ shown[d].stamp < cable[i].stamp /\ cable[i].stamp <= posts
            /\ \A j \in 1 .. n : i < j /\ IsFor(j, d) => cable[i].stamp < cable[j].stamp
        BY <2>0, <3>3, <4>1 DEF OrderInv
      <4>3. d = c => cable[i].stamp < out[c].stamp
        BY <2>0, <2>1, <3>3, <4>1 DEF OrderInv
      <4> QED BY <2>3, <2>4, <2>5, <2>7, <2>8, <4>1, <4>2, <4>3
    <3> QED BY <2>5, <3>2, <3>3
  <2>11. \A d \in Channels : \A f \in {out', taken, pending} : f[d] # NoDuty =>
           /\ shown[d].stamp < f[d].stamp /\ f[d].stamp <= posts
           /\ \A i \in 1 .. Len(cable') : IsFor(i, d)' => cable'[i].stamp < f[d].stamp
    <3>1. SUFFICES ASSUME NEW d \in Channels, NEW f \in {out', taken, pending}, f[d] # NoDuty
                   PROVE  /\ shown[d].stamp < f[d].stamp /\ f[d].stamp <= posts
                          /\ \A i \in 1 .. Len(cable') : IsFor(i, d)' => cable'[i].stamp < f[d].stamp
      OBVIOUS
    <3>2. \E g \in {out, taken, pending} : f[d] = g[d] /\ (d = c => g = pending)
      BY <2>6, <2>9, <3>1
    <3>3. /\ shown[d].stamp < f[d].stamp /\ f[d].stamp <= posts
          /\ \A i \in 1 .. n : IsFor(i, d) => cable[i].stamp < f[d].stamp
      BY <2>0, <3>1, <3>2 DEF OrderInv
    <3>4. d = c => out[c].stamp < f[d].stamp
      BY <2>1, <3>1, <3>2 DEF OrderInv
    <3> QED BY <2>3, <2>4, <2>5, <2>7, <2>8, <3>3, <3>4
  <2>12. \A d \in Channels : pending[d] # NoDuty =>
           /\ out'[d] # NoDuty => out'[d].stamp < pending[d].stamp
           /\ taken[d] # NoDuty => taken[d].stamp < pending[d].stamp
    BY <2>9 DEF OrderInv
  <2>13. \A d \in Channels : shown[d].stamp <= posts
    BY DEF OrderInv
  <2> QED BY <2>1, <2>6, <2>10, <2>11, <2>12, <2>13 DEF OrderInv
<1> QED BY <1>1, <1>2, <1>3, <1>4, <1>5

LEMMA OrderNext == TypeInv /\ TypeInv' /\ OrderInv /\ [Next]_vars => OrderInv'
<1>1. OrderInv /\ UNCHANGED vars => OrderInv'
  BY DEF vars, mailbox, OrderInv, IsFor, Nothing, Mailbox!Nothing
<1>2. OrderInv /\ RunTimer => OrderInv'
  BY DEF RunTimer, mailbox, OrderInv, IsFor, Nothing, Mailbox!Nothing
<1> QED BY <1>1, <1>2, OrderCable, OrderMoves DEF Next

-----------------------------------------------------------------------------
(* Lives, and what the outputs show.                                       *)

LEMMA Lives ==
  ASSUME TypeOK
  PROVE  /\ life \in Int /\ obeyed \in Int /\ overran \in Int
         /\ \A c \in Channels : shown[c].life \in Int /\ pin[c] \in Int
         /\ \A i \in 1 .. Len(cable) : cable[i].life \in Int
<1>1. \A k \in 0 .. MaxLives : k \in Int
  OBVIOUS
<1>2. life \in Int /\ obeyed \in Int /\ overran \in Int
  BY <1>1 DEF TypeOK
<1>3. ASSUME NEW c \in Channels PROVE shown[c].life \in Int /\ pin[c] \in Int
  <2>1. pin[c] \in 0 .. 255 /\ shown[c].life \in 0 .. MaxLives
    BY DEF TypeOK
  <2> QED BY <1>1, <2>1
<1>4. \A i \in 1 .. Len(cable) : cable[i].life \in Int
  BY <1>1, CableLines
<1> QED BY <1>2, <1>3, <1>4

(* A second that passes turns outputs off and does nothing else to them.   *)
LEMMA TimerPins ==
  ASSUME TypeOK, RunTimer
  PROVE  \A c \in Channels : pin'[c] \in {pin[c], 0}
<1>1. CASE PWM!Second
  BY <1>1 DEF PWM!Second
<1>2. ASSUME NEW d \in Channels, PWM!Age(d)
      PROVE  \A c \in Channels : pin'[c] \in {pin[c], 0}
  <2>1. pin' \in {pin, [pin EXCEPT ![d] = 0]} /\ DOMAIN pin = Channels
    BY <1>2 DEF PWM!Age, TypeOK
  <2> QED BY <2>1
<1> QED BY <1>1, <1>2 DEF RunTimer

LEMMA UpdatePins ==
  ASSUME TypeOK, Update_Pwm
  PROVE  /\ 1 \in 1 .. Len(cable) /\ cable[1].ch \in Channels
         /\ cable[1].kind \in {"pwm", "spliced"}
         /\ \A c \in Channels \ {cable[1].ch} : pin'[c] = pin[c] /\ shown'[c] = shown[c]
         /\ LET c == cable[1].ch IN
              /\ pin'[c] \in PWM!LevelOf(cable[1].duty)
              /\ shown'[c].duty = cable[1].duty /\ shown'[c].life = cable[1].life
<1>1. 1 \in 1 .. Len(cable) /\ cable[1].kind \in {"pwm", "spliced"}
  BY DEF Update_Pwm, Obeys, TypeOK
<1>2. cable[1].ch \in Channels
  BY <1>1, CableLines
<1>3. PICK v \in PWM!LevelOf(cable[1].duty) : pin' = [pin EXCEPT ![cable[1].ch] = v]
  BY DEF Update_Pwm, PWM!Set
<1>4. /\ DOMAIN pin = Channels /\ DOMAIN shown = Channels
      /\ pin = [c \in Channels |-> pin[c]] /\ shown = [c \in Channels |-> shown[c]]
  BY DEF TypeOK
<1>5. /\ \A c \in Channels \ {cable[1].ch} : pin'[c] = pin[c]
      /\ pin'[cable[1].ch] = v
  BY <1>2, <1>3, <1>4
<1>6. /\ \A c \in Channels \ {cable[1].ch} : shown'[c] = shown[c]
      /\ shown'[cable[1].ch].duty = cable[1].duty /\ shown'[cable[1].ch].life = cable[1].life
  BY <1>2, <1>4 DEF Update_Pwm
<1> QED BY <1>1, <1>2, <1>5, <1>6

LEMMA LevelNext == TypeInv /\ LevelInv /\ [Next]_vars => LevelInv'
<1> SUFFICES ASSUME TypeInv, LevelInv, [Next]_vars PROVE LevelInv'
  OBVIOUS
<1>0. TypeOK
  BY DEF TypeInv
<1>a. LevelInv' <=> \A c \in Channels : pin'[c] > 0 => pin'[c] \in PWM!LevelOf(shown'[c].duty)
  BY DEF LevelInv, PWM!LevelOf
<1>1. CASE Update_Pwm
  <2>1. SUFFICES ASSUME NEW c \in Channels, pin'[c] > 0
                 PROVE  pin'[c] \in PWM!LevelOf(shown'[c].duty)
    BY <1>a
  <2>2. CASE c = cable[1].ch
    BY <1>0, <1>1, <2>2, UpdatePins
  <2>3. CASE c # cable[1].ch
    BY <1>0, <1>1, <2>1, <2>3, UpdatePins DEF LevelInv
  <2> QED BY <2>2, <2>3
<1>2. CASE RunTimer
  <2>1. \A c \in Channels : pin'[c] > 0 => pin'[c] = pin[c]
    BY <1>0, <1>2, TimerPins
  <2>2. shown' = shown
    BY <1>2 DEF RunTimer
  <2> QED BY <1>a, <2>1, <2>2 DEF LevelInv
<1>3. CASE Reset
  BY <1>3 DEF Reset, PWM!Reset, LevelInv
<1>4. CASE ~(Update_Pwm \/ RunTimer \/ Reset)
  <2>1. pin' = pin /\ shown' = shown
    BY <1>4 DEF Next, vars, outputs, PWM_SetMultiplePWM, PWM_CreateSharedMemory,
       Connect_To_Port, Compose, Write, Ends, SendLine, Overrun, Restart
  <2> QED BY <1>a, <2>1 DEF LevelInv
<1> QED BY <1>1, <1>2, <1>3, <1>4

(* Lines that leave the front, and joined ones that stay there, do not     *)
(* make the lives go back; nor does a line of the present life at the end. *)
LEMMA LifeOnCable ==
  ASSUME TypeInv, LifeInv, [Next]_vars
  PROVE  \A i \in 1 .. Len(cable') :
           /\ obeyed' <= cable'[i].life /\ cable'[i].life <= life'
           /\ \A j \in 1 .. Len(cable') : i < j => cable'[i].life <= cable'[j].life
<1> USE DEF mailbox, outputs, Nothing, Mailbox!Nothing
<1>0. TypeOK
  BY DEF TypeInv
<1>a. /\ life \in Int /\ obeyed \in Int /\ \A i \in 1 .. Len(cable) : cable[i].life \in Int
  BY <1>0, Lives
<1>b. PICK n \in Nat : n = Len(cable)
  BY <1>0, CableIsASequence
<1>c. \A i \in 1 .. n :
        /\ obeyed <= cable[i].life /\ cable[i].life <= life
        /\ \A j \in 1 .. n : i < j => cable[i].life <= cable[j].life
  BY <1>b DEF LifeInv
<1>d. obeyed <= life
  BY DEF LifeInv
<1> DEFINE Goal == \A i \in 1 .. Len(cable') :
             /\ obeyed' <= cable'[i].life /\ cable'[i].life <= life'
             /\ \A j \in 1 .. Len(cable') : i < j => cable'[i].life <= cable'[j].life
<1>e. SUFFICES Goal
  OBVIOUS
<1>1. ASSUME NEW e \in Lines, cable' = Append(cable, e), e.life = life,
             life' = life, obeyed' = obeyed
      PROVE  Goal
  <2>1. /\ Len(cable') = n + 1 /\ cable'[n + 1] = e /\ \A i \in 1 .. n : cable'[i] = cable[i]
    BY <1>b, <1>1, CableGrows
  <2>2. \A i \in 1 .. n + 1 : i = n + 1 \/ i \in 1 .. n
    OBVIOUS
  <2> QED BY <1>a, <1>c, <1>d, <1>1, <2>1, <2>2
<1>2. ASSUME cable' = cable, life' \in {life, life + 1}, obeyed' = obeyed
      PROVE  Goal
  BY <1>a, <1>b, <1>c, <1>2
<1>3. CASE Connect_To_Port
  <2>1. life \in 1 .. MaxLives
    BY <1>3, BoundsAssumption DEF Connect_To_Port, TypeInv, TypeOK
  <2>2. RestartLine \in Lines /\ RestartLine.life = life
    BY <2>1, RestartLineType DEF RestartLine
  <2>3. cable' \in {cable, Append(cable, RestartLine)} /\ life' = life /\ obeyed' = obeyed
    BY <1>3 DEF Connect_To_Port
  <2> HIDE DEF Goal
  <2> QED BY <1>1, <1>2, <2>2, <2>3
<1>4. ASSUME NEW c \in Channels, SendLine(c) PROVE Goal
  <2>1. out[c] \in Posts /\ out[c].life = life
    BY <1>0, <1>4 DEF SendLine, TypeOK, LifeInv
  <2>2. PwmLine(c, out[c]) \in Lines /\ PwmLine(c, out[c]).life = life
    BY <2>1, PwmLineType
  <2>3. cable' = Append(cable, PwmLine(c, out[c])) /\ life' = life /\ obeyed' = obeyed
    BY <1>4 DEF SendLine
  <2> HIDE DEF Goal
  <2> QED BY <1>1, <2>2, <2>3
<1>5. CASE Ends
  <2>1. PICK k \in 0 .. Len(cable), m \in {0, 1} :
           /\ Len(cable') = k + m
           /\ \A i \in 1 .. k : i \in 1 .. Len(cable) /\ cable'[i] = cable[i]
           /\ m = 1 => cable'[k + 1].life = IF k < Len(cable) THEN cable[k + 1].life ELSE life
    BY <1>5, CableEnds
  <2>2. k \in Nat /\ \A i \in 1 .. k + m : i \in 1 .. k \/ (m = 1 /\ i = k + 1)
    BY <1>b, <2>1
  <2>3. life' = life /\ obeyed' = obeyed
    BY <1>5 DEF Ends
  <2>4. \A i \in 1 .. k : i \in 1 .. n /\ cable'[i] = cable[i]
    BY <1>b, <2>1
  <2>a. m = 1 => /\ obeyed <= cable'[k + 1].life /\ cable'[k + 1].life <= life
                 /\ \A i \in 1 .. k : cable[i].life <= cable'[k + 1].life
    <3>1. CASE k < n
      <4>1. k + 1 \in 1 .. n /\ \A i \in 1 .. k : i < k + 1
        BY <2>2, <3>1
      <4> QED BY <1>b, <1>c, <2>1, <2>4, <3>1, <4>1
    <3>2. CASE ~(k < n)
      BY <1>a, <1>b, <1>c, <1>d, <2>1, <2>4, <3>2
    <3> QED BY <3>1, <3>2
  <2>5. ASSUME NEW i \in 1 .. k + m
        PROVE  obeyed <= cable'[i].life /\ cable'[i].life <= life
    BY <1>c, <2>2, <2>4, <2>a
  <2>6. ASSUME NEW i \in 1 .. k + m, NEW j \in 1 .. k + m, i < j
        PROVE  cable'[i].life <= cable'[j].life
    <3>1. CASE m = 1 /\ j = k + 1
      <4>1. i \in 1 .. k
        BY <2>2, <2>6, <3>1
      <4> QED BY <2>4, <2>a, <3>1, <4>1
    <3>2. CASE j \in 1 .. k
      <4>1. i \in 1 .. k
        BY <2>2, <2>6, <3>2
      <4> QED BY <1>c, <2>4, <2>6, <3>2, <4>1
    <3> QED BY <2>2, <3>1, <3>2
  <2> QED BY <2>1, <2>3, <2>5, <2>6
<1>6. CASE Overrun
  <2>1. PICK k \in 1 .. Len(cable), m \in {0, 1} :
           /\ Len(cable') = Len(cable) - k + m
           /\ m = 1 => cable'[1].life = cable[1].life
           /\ \A i \in 1 + m .. Len(cable') :
                i - m + k \in 1 .. Len(cable) /\ cable'[i] = cable[i - m + k]
    BY <1>0, <1>6, CableOverruns
  <2>2. life' = life /\ obeyed' = obeyed
    BY <1>6 DEF Overrun
  <2>3. \A i \in 1 .. Len(cable') : \E h \in 1 .. n :
          /\ cable'[i].life = cable[h].life
          /\ h = (IF m = 1 /\ i = 1 THEN 1 ELSE i - m + k)
    <3>1. SUFFICES ASSUME NEW i \in 1 .. Len(cable')
                   PROVE  \E h \in 1 .. n :
                            /\ cable'[i].life = cable[h].life
                            /\ h = (IF m = 1 /\ i = 1 THEN 1 ELSE i - m + k)
      OBVIOUS
    <3>2. CASE m = 1 /\ i = 1
      <4>1. 1 \in 1 .. n /\ cable'[i].life = cable[1].life
        BY <1>b, <2>1, <3>2
      <4> QED BY <3>2, <4>1
    <3>3. CASE ~(m = 1 /\ i = 1)
      <4>1. i \in 1 + m .. Len(cable')
        BY <1>b, <2>1, <3>3
      <4>2. i - m + k \in 1 .. n /\ cable'[i] = cable[i - m + k]
        BY <1>b, <2>1, <4>1
      <4> QED BY <3>3, <4>2
    <3> QED BY <3>2, <3>3
  <2>4. SUFFICES ASSUME NEW i \in 1 .. Len(cable')
                 PROVE  /\ obeyed <= cable'[i].life /\ cable'[i].life <= life
                        /\ \A j \in 1 .. Len(cable') : i < j => cable'[i].life <= cable'[j].life
    BY <2>2
  <2>5. obeyed <= cable'[i].life /\ cable'[i].life <= life
    BY <1>c, <2>3
  <2>6. ASSUME NEW j \in 1 .. Len(cable'), i < j PROVE cable'[i].life <= cable'[j].life
    <3>1. PICK h \in 1 .. n : /\ cable'[i].life = cable[h].life
                              /\ h = (IF m = 1 /\ i = 1 THEN 1 ELSE i - m + k)
      BY <2>3
    <3>2. PICK g \in 1 .. n : /\ cable'[j].life = cable[g].life
                              /\ g = (IF m = 1 /\ j = 1 THEN 1 ELSE j - m + k)
      BY <2>3
    <3>3. h < g \/ h = g
      BY <1>b, <2>1, <2>6, <3>1, <3>2
    <3>4. cable[h].life <= cable[g].life
      BY <1>a, <1>b, <1>c, <3>3
    <3> QED BY <3>1, <3>2, <3>4
  <2> QED BY <2>5, <2>6
<1>7. CASE Update_Pwm \/ Restart \/ Reset
  <2>1. PICK k \in 0 .. Len(cable) :
           /\ Update_Pwm \/ Restart => k = 1
           /\ Len(cable') = Len(cable) - k
           /\ \A i \in 1 .. Len(cable') : i + k \in 1 .. Len(cable) /\ cable'[i] = cable[i + k]
    BY <1>0, <1>7, CableShifts
  <2>2. k \in Nat /\ Len(cable') \in Int
    BY <1>b, <2>1
  <2>3. \A i \in 1 .. Len(cable') : i + k \in 1 .. n /\ cable'[i] = cable[i + k]
    BY <1>b, <2>1
  <2>4. life' = life /\ (Restart => obeyed' = cable[1].life) /\ (~Restart => obeyed' = obeyed)
    BY <1>7 DEF Update_Pwm, Restart, Reset
  <2>5. \A i, j \in 1 .. Len(cable') : i < j => i + k < j + k
    BY <2>2
  <2>6. \A i \in 1 .. Len(cable') : obeyed' <= cable'[i].life
    <3>1. CASE Restart
      <4>1. k = 1 /\ \A i \in 1 .. Len(cable') : 1 < i + k /\ 1 \in 1 .. n
        BY <1>b, <2>1, <2>3, <3>1
      <4> QED BY <1>c, <2>3, <2>4, <3>1, <4>1
    <3>2. CASE ~Restart
      BY <1>c, <2>3, <2>4, <3>2
    <3> QED BY <3>1, <3>2
  <2> QED BY <1>c, <2>3, <2>4, <2>5, <2>6
<1>8. CASE ~(\/ Connect_To_Port \/ Ends \/ Overrun \/ Update_Pwm \/ Restart \/ Reset
             \/ \E c \in Channels : SendLine(c))
  <2>1. cable' = cable /\ life' \in {life, life + 1} /\ obeyed' = obeyed
    BY <1>8 DEF Next, vars, PWM_SetMultiplePWM, PWM_CreateSharedMemory, Compose, Write, RunTimer
  <2> HIDE DEF Goal
  <2> QED BY <1>2, <2>1
<1> QED BY <1>3, <1>4, <1>5, <1>6, <1>7, <1>8

LEMMA LeavesAlone ==
  ASSUME [Next]_vars
  PROVE  /\ Update_Pwm \/ shown' = shown
         /\ Restart \/ obeyed' = obeyed
         /\ life' \in {life, life + 1}
<1> USE DEF mailbox, outputs
<1>1. \A u \in Updates : PWM_SetMultiplePWM(u) =>
        shown' = shown /\ obeyed' = obeyed /\ life' = life
  BY DEF PWM_SetMultiplePWM
<1>2. \A c \in Channels : SendLine(c) => shown' = shown /\ obeyed' = obeyed /\ life' = life
  BY DEF SendLine
<1>3. PWM_CreateSharedMemory => shown' = shown /\ obeyed' = obeyed /\ life' = life + 1
  BY DEF PWM_CreateSharedMemory
<1>4. Connect_To_Port \/ Compose \/ Write \/ Ends \/ Overrun \/ Reset \/ RunTimer =>
        shown' = shown /\ obeyed' = obeyed /\ life' = life
  BY DEF Connect_To_Port, Compose, Write, Ends, Overrun, Reset, RunTimer
<1>5. (Update_Pwm => obeyed' = obeyed /\ life' = life) /\ (Restart => shown' = shown /\ life' = life)
  BY DEF Update_Pwm, Restart
<1>6. UNCHANGED vars => shown' = shown /\ obeyed' = obeyed /\ life' = life
  BY DEF vars
<1> QED BY <1>1, <1>2, <1>3, <1>4, <1>5, <1>6 DEF Next

LEMMA LifeNext == TypeInv /\ LifeInv /\ [Next]_vars => LifeInv'
<1> SUFFICES ASSUME TypeInv, LifeInv, [Next]_vars PROVE LifeInv'
  OBVIOUS
<1> USE DEF mailbox, outputs, Nothing, Mailbox!Nothing
<1>0. TypeOK
  BY DEF TypeInv
<1>a. /\ life \in Int /\ obeyed \in Int
      /\ \A c \in Channels : shown[c].life \in Int /\ pin[c] \in Int
      /\ \A i \in 1 .. Len(cable) : cable[i].life \in Int
  BY <1>0, Lives
<1>b. \A i \in 1 .. Len(cable) : obeyed <= cable[i].life /\ cable[i].life <= life
  BY DEF LifeInv
<1>c. Restart => 1 \in 1 .. Len(cable) /\ obeyed' = cable[1].life
  BY <1>0 DEF Restart, Obeys, TypeOK
<1>d. Update_Pwm \/ shown' = shown
  BY LeavesAlone
<1>e. life' \in {life, life + 1} /\ (Restart \/ obeyed' = obeyed)
  BY LeavesAlone
<1>1. obeyed' <= life'
  <2>1. obeyed <= life
    BY DEF LifeInv
  <2> QED BY <1>a, <1>b, <1>c, <1>e, <2>1
<1>2. \A c \in Channels : \A f \in {out', taken', pending'} : f[c] # NoDuty => f[c].life = life'
  <2>0. \A c \in Channels : \A f \in {out, taken, pending} : f[c] # NoDuty => f[c].life = life
    BY DEF LifeInv
  <2>1. ASSUME NEW u \in Updates, PWM_SetMultiplePWM(u)
        PROVE  \A c \in Channels : \A f \in {out', taken', pending'} :
                 f[c] # NoDuty => f[c].life = life'
    <3>1. ASSUME NEW c \in Channels, pending'[c] # NoDuty PROVE pending'[c].life = life
      BY <2>0, <2>1, <3>1 DEF PWM_SetMultiplePWM, Mailbox!Post, Mailbox!Over, Stamped
    <3> QED BY <2>0, <2>1, <3>1 DEF PWM_SetMultiplePWM, Mailbox!Post
  <2>2. CASE PWM_CreateSharedMemory
    <3>1. out' = Nothing /\ taken' = Nothing /\ pending' = Nothing
      BY <2>2 DEF PWM_CreateSharedMemory, Mailbox!Forget, TypeInv
    <3> QED BY <3>1
  <2>3. ASSUME NEW d \in Channels, SendLine(d)
        PROVE  \A c \in Channels : \A f \in {out', taken', pending'} :
                 f[c] # NoDuty => f[c].life = life'
    <3>1. /\ out' = [out EXCEPT ![d] = NoDuty] /\ DOMAIN out = Channels
          /\ taken' = taken /\ pending' = pending /\ life' = life
      BY <1>0, <2>3 DEF SendLine, TypeOK
    <3>2. ASSUME NEW c \in Channels PROVE out'[c] \in {out[c], NoDuty}
      BY <3>1
    <3>3. ASSUME NEW c \in Channels
          PROVE  /\ out[c] # NoDuty => out[c].life = life
                 /\ taken[c] # NoDuty => taken[c].life = life
                 /\ pending[c] # NoDuty => pending[c].life = life
      BY <2>0
    <3>4. ASSUME NEW c \in Channels
          PROVE  /\ out'[c] # NoDuty => out'[c].life = life'
                 /\ taken'[c] # NoDuty => taken'[c].life = life'
                 /\ pending'[c] # NoDuty => pending'[c].life = life'
      BY <3>1, <3>2, <3>3
    <3> QED BY <3>4
  <2>4. CASE ~(\/ PWM_CreateSharedMemory \/ \E u \in Updates : PWM_SetMultiplePWM(u)
               \/ \E d \in Channels : SendLine(d))
    <3>1. /\ life' = life
          /\ \A f \in {out', taken', pending'} : f \in {out, taken, pending, Nothing}
      BY <2>4 DEF Next, vars, Connect_To_Port, Compose, Mailbox!Take, Write, Mailbox!Deliver,
         Ends, Mailbox!Drop, Overrun, Update_Pwm, Restart, Reset, RunTimer
    <3> QED BY <2>0, <3>1
  <2> QED BY <2>1, <2>2, <2>3, <2>4
<1>3. \A c \in Channels : shown'[c].life <= life'
  <2>1. \A c \in Channels : shown[c].life <= life
    BY DEF LifeInv
  <2>2. ASSUME NEW c \in Channels PROVE shown'[c].life \in Int /\ shown'[c].life <= life
    <3>1. CASE Update_Pwm
      BY <1>0, <1>a, <1>b, <2>1, <3>1, UpdatePins
    <3>2. CASE shown' = shown
      BY <1>a, <2>1, <3>2
    <3> QED BY <1>d, <3>1, <3>2
  <2> QED BY <1>a, <1>e, <2>2
<1>4. \A c \in Channels : at' = "run" /\ pin'[c] > 0 => shown'[c].life >= obeyed'
  <2>0. \A c \in Channels : at = "run" /\ pin[c] > 0 => shown[c].life >= obeyed
    BY DEF LifeInv, NothingFromBefore
  <2>1. CASE Update_Pwm
    <3>1. at = "run" /\ obeyed' = obeyed
      BY <2>1 DEF Update_Pwm, Obeys
    <3>2. ASSUME NEW c \in Channels, pin'[c] > 0 PROVE shown'[c].life >= obeyed
      <4>1. CASE c = cable[1].ch
        BY <1>0, <1>a, <1>b, <2>1, <4>1, UpdatePins
      <4>2. CASE c # cable[1].ch
        BY <1>0, <2>0, <2>1, <3>1, <3>2, <4>2, UpdatePins
      <4> QED BY <4>1, <4>2
    <3> QED BY <3>1, <3>2
  <2>2. CASE RunTimer
    <3>1. \A c \in Channels : pin'[c] > 0 => pin'[c] = pin[c]
      BY <1>0, <2>2, TimerPins
    <3> QED BY <2>0, <2>2, <3>1 DEF RunTimer
  <2>3. CASE Reset
    BY <2>3 DEF Reset, PWM!Reset
  <2>4. CASE Restart
    BY <2>4 DEF Restart
  <2>5. CASE ~(Update_Pwm \/ RunTimer \/ Reset \/ Restart)
    <3>1. pin' = pin /\ shown' = shown /\ at' = at /\ obeyed' = obeyed
      BY <2>5 DEF Next, vars, PWM_SetMultiplePWM, PWM_CreateSharedMemory,
         Connect_To_Port, Compose, Write, Ends, SendLine, Overrun
    <3> QED BY <2>0, <3>1
  <2> QED BY <2>1, <2>2, <2>3, <2>4, <2>5
<1> QED BY <1>1, <1>2, <1>3, <1>4, LifeOnCable DEF LifeInv, NothingFromBefore

-----------------------------------------------------------------------------
(* The newest.                                                             *)

(* The board: lines leave the front, and nothing is on its way that was    *)
(* not before.                                                             *)
LEMMA NewestBoard ==
  ASSUME TypeInv, LifeInv, NewestInv, Update_Pwm \/ Restart \/ Reset
  PROVE  NewestInv'
<1> USE DEF mailbox, outputs
<1>0. TypeOK
  BY DEF TypeInv
<1>1. /\ pending' = pending /\ taken' = taken /\ out' = out /\ newest' = newest
      /\ life' = life /\ daemon' = daemon /\ overran' = overran
  BY DEF Update_Pwm, Restart, Reset
<1>2. SUFFICES ASSUME daemon # "off", overran < life
               PROVE  /\ \A i \in 1 .. Len(cable') : cable'[i].kind = "spliced" => cable'[i].life < life
                      /\ \A c \in Channels : NewestOf(c)'
  BY <1>1 DEF NewestInv
<1>3. /\ \A i \in 1 .. Len(cable) : cable[i].kind = "spliced" => cable[i].life < life
      /\ \A c \in Channels : NewestOf(c)
  BY <1>2 DEF NewestInv
<1>b. PICK n \in Nat : n = Len(cable)
  BY <1>0, CableIsASequence
<1>4. PICK k \in 0 .. n :
        /\ Update_Pwm \/ Restart => k = 1
        /\ Len(cable') = n - k
        /\ \A i \in 1 .. Len(cable') : i + k \in 1 .. n /\ cable'[i] = cable[i + k]
  BY <1>0, <1>b, CableShifts
<1>5. \A i \in 1 .. Len(cable') : cable'[i].kind = "spliced" => cable'[i].life < life
  BY <1>b, <1>3, <1>4
<1>6. ASSUME NEW c \in Channels PROVE NewestOf(c)'
  <2>1. \A i \in 1 .. Len(cable') : IsFor(i, c)' <=> IsFor(i + k, c)
    BY <1>4 DEF IsFor
  <2>2. ASSUME NEW i \in 1 .. Len(cable'), NoneWaits(c), out[c] = NoDuty,
               IsFor(i, c)', cable'[i].life = life,
               \A j \in 1 .. Len(cable') : i < j => ~IsFor(j, c)'
        PROVE  newest[c] # NoDuty /\ cable'[i] = PwmLine(c, newest[c])
    <3>1. ASSUME NEW j \in 1 .. n, i + k < j PROVE ~IsFor(j, c)
      <4>1. j - k \in 1 .. Len(cable') /\ i < j - k /\ (j - k) + k = j
        BY <1>4, <3>1
      <4> QED BY <2>1, <2>2, <4>1
    <3>2. i + k \in 1 .. Len(cable) /\ cable'[i] = cable[i + k] /\ IsFor(i + k, c)
      BY <1>b, <1>4, <2>1, <2>2
    <3> QED BY <1>b, <1>3, <2>2, <3>1, <3>2 DEF NewestOf
  <2>3. ASSUME NoneWaits(c), out[c] = NoDuty, \A i \in 1 .. Len(cable') : ~IsFor(i, c)',
               pin'[c] > 0, shown'[c].life = life
        PROVE  newest[c] # NoDuty /\ shown'[c].duty = newest[c].duty
    <3>1. \A j \in 1 .. n : k < j => ~IsFor(j, c)
      <4>1. SUFFICES ASSUME NEW j \in 1 .. n, k < j PROVE ~IsFor(j, c)
        OBVIOUS
      <4>2. j - k \in 1 .. Len(cable') /\ (j - k) + k = j
        BY <1>4, <4>1
      <4> QED BY <2>1, <2>3, <4>2
    <3>2. CASE Update_Pwm /\ c = cable[1].ch
      <4>1. 1 \in 1 .. Len(cable) /\ shown'[c].duty = cable[1].duty /\ cable[1].life = life
        BY <1>0, <2>3, <3>2, UpdatePins
      <4>2. IsFor(1, c)
        <5>1. cable[1].kind \in {"pwm", "spliced"}
          BY <1>0, <3>2, UpdatePins
        <5>2. cable[1].kind # "spliced"
          BY <1>0, <1>3, <4>1, Lives
        <5> QED BY <3>2, <5>1, <5>2 DEF IsFor
      <4>3. \A j \in 1 .. Len(cable) : 1 < j => ~IsFor(j, c)
        BY <1>b, <1>4, <3>1, <3>2
      <4>4. newest[c] # NoDuty /\ cable[1] = PwmLine(c, newest[c])
        BY <1>3, <2>3, <4>1, <4>2, <4>3 DEF NewestOf
      <4> QED BY <4>1, <4>4 DEF PwmLine
    <3>3. CASE Restart \/ (Update_Pwm /\ c # cable[1].ch)
      <4>1. k = 1 /\ ~IsFor(1, c)
        BY <1>4, <3>3 DEF Restart, Obeys, IsFor
      <4>2. \A j \in 1 .. Len(cable) : ~IsFor(j, c)
        BY <1>b, <3>1, <4>1
      <4>3. pin'[c] = pin[c] /\ shown'[c] = shown[c]
        BY <1>0, <3>3, UpdatePins DEF Restart
      <4> QED BY <1>3, <2>3, <4>2, <4>3 DEF NewestOf
    <3>4. CASE Reset
      <4>1. pin'[c] = 0
        BY <3>4 DEF Reset, PWM!Reset
      <4> QED BY <2>3, <4>1
    <3> QED BY <3>2, <3>3, <3>4
  <2>4. NoneWaits(c)' <=> NoneWaits(c)
    BY <1>1 DEF NoneWaits
  <2>5. /\ pending[c] # NoDuty => pending[c] = newest[c]
        /\ pending[c] = NoDuty /\ taken[c] # NoDuty => taken[c] = newest[c]
        /\ NoneWaits(c) /\ out[c] # NoDuty => out[c] = newest[c]
    BY <1>3 DEF NewestOf
  <2>6. PwmLine(c, newest[c])' = PwmLine(c, newest[c])
    BY <1>1 DEF PwmLine
  <2> QED BY <1>1, <2>2, <2>3, <2>4, <2>5, <2>6 DEF NewestOf
<1> QED BY <1>5, <1>6

LEMMA NewestNext == TypeInv /\ OrderInv /\ LifeInv /\ NewestInv /\ [Next]_vars => NewestInv'
<1> SUFFICES ASSUME TypeInv, OrderInv, LifeInv, NewestInv, [Next]_vars PROVE NewestInv'
  OBVIOUS
<1> USE DEF mailbox, outputs, Nothing, Mailbox!Nothing
<1>0. TypeOK
  BY DEF TypeInv
<1>a. daemon # "off" /\ overran < life =>
        /\ \A i \in 1 .. Len(cable) : cable[i].kind = "spliced" => cable[i].life < life
        /\ \A c \in Channels : NewestOf(c)
  BY DEF NewestInv
<1>1. ASSUME NEW u \in Updates, PWM_SetMultiplePWM(u) PROVE NewestInv'
  <2>1. /\ daemon' = daemon /\ overran' = overran /\ life' = life /\ cable' = cable
        /\ out' = out /\ taken' = taken /\ pin' = pin /\ shown' = shown
    BY <1>1 DEF PWM_SetMultiplePWM, Mailbox!Post
  <2>2. ASSUME NEW c \in Channels
        PROVE  /\ \/ pending'[c] = pending[c] /\ newest'[c] = newest[c]
                  \/ pending'[c] # NoDuty /\ pending'[c] = newest'[c]
    <3>1. posts + 1 \in 1 .. MaxUpdates /\ life \in 1 .. MaxLives /\ u[c] \in Duties \cup {NoDuty}
      BY <1>0, <1>1, UpdatesAssumption, BoundsAssumption DEF PWM_SetMultiplePWM, TypeOK
    <3>2. u[c] # NoDuty => Stamped(u)[c] \in Posts
      BY <3>1 DEF Stamped, Posts
    <3>3. u[c] = NoDuty => Stamped(u)[c] = NoDuty
      BY DEF Stamped
    <3>4. pending'[c] = IF Stamped(u)[c] = NoDuty THEN pending[c] ELSE Stamped(u)[c]
      BY <1>1 DEF PWM_SetMultiplePWM, Mailbox!Post, Mailbox!Over
    <3>5. newest'[c] = IF u[c] = NoDuty THEN newest[c] ELSE Stamped(u)[c]
      BY <1>1 DEF PWM_SetMultiplePWM
    <3> QED BY <3>2, <3>3, <3>4, <3>5, NoDutyAssumption
  <2>3. ASSUME NEW c \in Channels, NewestOf(c) PROVE NewestOf(c)'
    BY <2>1, <2>2, <2>3 DEF NewestOf, NoneWaits, IsFor, PwmLine
  <2> QED BY <1>a, <2>1, <2>3 DEF NewestInv
<1>2. CASE PWM_CreateSharedMemory
  <2>1. /\ daemon = "off" /\ pending' = Nothing /\ taken' = Nothing /\ out' = Nothing
        /\ life' = life + 1 /\ cable' = cable /\ shown' = shown
    BY <1>2 DEF PWM_CreateSharedMemory, Mailbox!Forget, TypeInv
  <2>2. /\ \A i \in 1 .. Len(cable) : cable[i].life <= life /\ cable[i].life \in Int
        /\ \A c \in Channels : shown[c].life <= life /\ shown[c].life \in Int
        /\ life \in Int
    BY <1>0, Lives DEF LifeInv
  <2>3. /\ \A i \in 1 .. Len(cable) : cable[i].life < life'
        /\ \A c \in Channels : shown[c].life < life'
    BY <2>1, <2>2
  <2>4. life' \in Int
    BY <2>1, <2>2
  <2>5. \A i \in 1 .. Len(cable) : cable[i].life # life'
    BY <2>2, <2>3
  <2>6. \A c \in Channels : shown[c].life # life'
    BY <2>2, <2>3
  <2> QED BY <2>1, <2>3, <2>5, <2>6 DEF NewestInv, NewestOf
<1>3. CASE Connect_To_Port
  <2>0. /\ daemon # "off" /\ overran' = overran /\ life' = life /\ newest' = newest
        /\ pending' = pending /\ taken' = taken /\ out' = out /\ pin' = pin /\ shown' = shown
    BY <1>3 DEF Connect_To_Port
  <2>1. life \in 1 .. MaxLives
    BY <1>3, BoundsAssumption DEF Connect_To_Port, TypeInv, TypeOK
  <2>2. RestartLine \in Lines /\ RestartLine.kind = "restart"
    BY <2>1, RestartLineType DEF RestartLine
  <2>3. /\ \A i \in 1 .. Len(cable) : i \in 1 .. Len(cable') /\ cable'[i] = cable[i]
        /\ \A i \in 1 .. Len(cable') : i \in 1 .. Len(cable) \/ cable'[i].kind = "restart"
        /\ Len(cable) \in Nat
    <3>1. cable' \in {cable, Append(cable, RestartLine)} /\ Len(cable) \in Nat
      BY <1>0, <1>3, CableIsASequence DEF Connect_To_Port
    <3> QED BY <2>2, <3>1, CableGrows
  <2>4. ASSUME NEW c \in Channels, NewestOf(c) PROVE NewestOf(c)'
    <3>1. \A i \in 1 .. Len(cable) : IsFor(i, c)' <=> IsFor(i, c)
      BY <2>3 DEF IsFor
    <3>2. \A i \in 1 .. Len(cable') : IsFor(i, c)' => i \in 1 .. Len(cable)
      BY <2>3 DEF IsFor
    <3>3. NoneWaits(c)' <=> NoneWaits(c)
      BY <2>0 DEF NoneWaits
    <3>4. PwmLine(c, newest[c])' = PwmLine(c, newest[c])
      BY <2>0 DEF PwmLine
    <3> QED BY <2>0, <2>3, <2>4, <3>1, <3>2, <3>3, <3>4 DEF NewestOf
  <2> QED BY <1>a, <2>0, <2>3, <2>4 DEF NewestInv
<1>4. CASE Compose \/ Write
  <2>1. /\ daemon' = daemon /\ overran' = overran /\ life' = life /\ newest' = newest
        /\ cable' = cable /\ pin' = pin /\ shown' = shown
    BY <1>4 DEF Compose, Write
  <2>2. ASSUME NEW c \in Channels, NewestOf(c) PROVE NewestOf(c)'
    <3>1. CASE Compose
      <4>1. taken[c] = NoDuty /\ taken'[c] = pending[c] /\ pending'[c] = NoDuty /\ out' = out
        BY <3>1 DEF Compose, Mailbox!Take
      <4> QED BY <2>1, <2>2, <4>1 DEF NewestOf, NoneWaits, IsFor, PwmLine
    <3>2. CASE Write
      <4>1. out[c] = NoDuty /\ out'[c] = taken[c] /\ taken'[c] = NoDuty /\ pending' = pending
        BY <3>2 DEF Write, Mailbox!Deliver, OrderInv
      <4> QED BY <2>1, <2>2, <4>1 DEF NewestOf, NoneWaits, IsFor, PwmLine
    <3> QED BY <1>4, <3>1, <3>2
  <2> QED BY <1>a, <2>1, <2>2 DEF NewestInv
<1>5. ASSUME NEW d \in Channels, SendLine(d) PROVE NewestInv'
  <2>0. PICK n \in Nat : n = Len(cable)
    BY <1>0, CableIsASequence
  <2>1. /\ out[d] # NoDuty /\ out' = [out EXCEPT ![d] = NoDuty]
        /\ cable' = Append(cable, PwmLine(d, out[d]))
        /\ daemon' = daemon /\ overran' = overran /\ life' = life /\ newest' = newest
        /\ pending' = pending /\ taken' = taken /\ pin' = pin /\ shown' = shown
    BY <1>5 DEF SendLine
  <2>2. out[d] \in Posts /\ out \in [Channels -> Posts \cup {NoDuty}]
    BY <1>0, <2>1 DEF TypeOK
  <2>3. /\ PwmLine(d, out[d]) \in Lines /\ PwmLine(d, out[d]).kind = "pwm"
        /\ PwmLine(d, out[d]).ch = d
    BY <2>2, PwmLineType
  <2>4. /\ Len(cable') = n + 1 /\ cable'[n + 1] = PwmLine(d, out[d])
        /\ \A i \in 1 .. n : cable'[i] = cable[i]
    BY <2>0, <2>1, <2>3, CableGrows
  <2>5. \A i \in 1 .. n + 1 : i = n + 1 \/ (i \in 1 .. n /\ i < n + 1)
    OBVIOUS
  <2>6. ASSUME NEW c \in Channels, NewestOf(c) PROVE NewestOf(c)'
    <3>1. /\ \A i \in 1 .. n : IsFor(i, c)' <=> IsFor(i, c)
          /\ IsFor(n + 1, c)' <=> c = d
      BY <2>3, <2>4 DEF IsFor
    <3>2. NoneWaits(c)' <=> NoneWaits(c)
      BY <2>1 DEF NoneWaits
    <3>3. PwmLine(c, newest[c])' = PwmLine(c, newest[c])
      BY <2>1 DEF PwmLine
    <3>4. CASE c = d
      <4>1. out'[c] = NoDuty /\ (NoneWaits(c) => out[c] = newest[c])
        BY <2>1, <2>2, <2>6, <3>4 DEF NewestOf
      <4>2. \A i \in 1 .. n : \E j \in 1 .. n + 1 : i < j /\ IsFor(j, c)'
        BY <3>1, <3>4
      <4>3. \E i \in 1 .. n + 1 : IsFor(i, c)'
        BY <3>1, <3>4
      <4>4. ASSUME NEW i \in 1 .. n + 1, NoneWaits(c),
                   \A j \in 1 .. n + 1 : i < j => ~IsFor(j, c)'
            PROVE  newest[c] # NoDuty /\ cable'[i] = PwmLine(c, newest[c])
        <5>1. i = n + 1
          BY <2>5, <4>2, <4>4
        <5> QED BY <2>1, <2>4, <3>4, <4>1, <4>4, <5>1
      <4> QED BY <2>1, <2>4, <2>6, <3>2, <3>3, <4>1, <4>3, <4>4 DEF NewestOf
    <3>5. CASE c # d
      <4>1. out'[c] = out[c]
        BY <2>1, <2>2, <3>5
      <4>2. \A i \in 1 .. n + 1 : IsFor(i, c)' <=> i \in 1 .. n /\ IsFor(i, c)
        BY <2>5, <3>1, <3>5
      <4>3. ASSUME NEW i \in 1 .. n + 1, NoneWaits(c), out[c] = NoDuty, IsFor(i, c)',
                   cable'[i].life = life, \A j \in 1 .. n + 1 : i < j => ~IsFor(j, c)'
            PROVE  newest[c] # NoDuty /\ cable'[i] = PwmLine(c, newest[c])
        <5>1. i \in 1 .. n /\ IsFor(i, c) /\ cable'[i] = cable[i]
          BY <2>4, <4>2, <4>3
        <5>2. \A j \in 1 .. n : i < j => ~IsFor(j, c)
          BY <4>2, <4>3
        <5> QED BY <2>0, <2>6, <4>3, <5>1, <5>2 DEF NewestOf
      <4>4. (\A i \in 1 .. n + 1 : ~IsFor(i, c)') => \A i \in 1 .. n : ~IsFor(i, c)
        BY <4>2
      <4> QED BY <2>0, <2>1, <2>4, <2>6, <3>2, <3>3, <4>1, <4>3, <4>4 DEF NewestOf
    <3> QED BY <3>4, <3>5
  <2>7. daemon # "off" /\ overran < life =>
          \A i \in 1 .. Len(cable') : cable'[i].kind = "spliced" => cable'[i].life < life
    BY <1>a, <2>0, <2>3, <2>4, <2>5
  <2> QED BY <1>a, <2>1, <2>6, <2>7 DEF NewestInv
<1>6. CASE Ends
  BY <1>6 DEF Ends, NewestInv
<1>7. CASE Overrun
  <2>1. overran' = life' /\ life \in Int /\ life' = life
    BY <1>0, <1>7, Lives DEF Overrun
  <2> QED BY <2>1 DEF NewestInv
<1>8. CASE RunTimer
  <2>1. /\ daemon' = daemon /\ overran' = overran /\ life' = life /\ newest' = newest
        /\ pending' = pending /\ taken' = taken /\ out' = out /\ cable' = cable
        /\ shown' = shown
    BY <1>8 DEF RunTimer
  <2>2. \A c \in Channels : pin'[c] > 0 => pin'[c] = pin[c]
    BY <1>0, <1>8, TimerPins
  <2>3. ASSUME NEW c \in Channels, NewestOf(c) PROVE NewestOf(c)'
    BY <2>1, <2>2, <2>3 DEF NewestOf, NoneWaits, IsFor, PwmLine
  <2> QED BY <1>a, <2>1, <2>3 DEF NewestInv
<1>9. CASE UNCHANGED vars
  BY <1>9 DEF vars, NewestInv, NewestOf, NoneWaits, IsFor, PwmLine
<1> QED BY <1>1, <1>2, <1>3, <1>4, <1>5, <1>6, <1>7, <1>8, <1>9, NewestBoard DEF Next

-----------------------------------------------------------------------------
(* The invariant and the theorems.                                         *)

LEMMA InvInit == Init => IInv
<1> SUFFICES ASSUME Init PROVE IInv
  OBVIOUS
<1> USE DEF Init, Mailbox!Init, PWM!Init, Nothing, Mailbox!Nothing
<1>1. Len(cable) = 0 /\ \A i \in 1 .. Len(cable) : FALSE
  OBVIOUS
<1>2. OrderInv
  BY <1>1 DEF OrderInv
<1>3. LifeInv
  BY <1>1 DEF LifeInv, NothingFromBefore
<1>4. LevelInv /\ NewestInv
  BY DEF LevelInv, NewestInv
<1> QED BY <1>2, <1>3, <1>4, TypeInit DEF IInv

LEMMA InvNext == IInv /\ [Next]_vars => IInv'
  BY TypeNext, OrderNext, LifeNext, LevelNext, NewestNext DEF IInv

LEMMA InvHolds == Spec => []IInv
  BY InvInit, InvNext, PTL DEF Spec

(* Every part of the system keeps to its values.                           *)
THEOREM TypeCorrect == Spec => []TypeOK
<1>1. IInv => TypeOK
  BY DEF IInv, TypeInv
<1> QED BY <1>1, InvHolds, PTL

(* The updates of a channel are obeyed in the order in which clients asked *)
(* for them, and none twice.                                               *)
THEOREM InOrderHolds == Spec => InOrder
<1>1. ASSUME IInv, [Next]_vars
      PROVE  [\A c \in Channels :
                Update_Pwm /\ cable[1].kind = "pwm" /\ cable[1].ch = c
                  => shown'[c].stamp > shown[c].stamp]_vars
  <2>1. SUFFICES ASSUME NEW c \in Channels, Update_Pwm, IsFor(1, c)
                 PROVE  shown'[c].stamp > shown[c].stamp
    BY DEF IsFor
  <2>2. TypeOK
    BY <1>1 DEF IInv, TypeInv
  <2>3. 1 \in 1 .. Len(cable)
    BY <2>1, <2>2, UpdatePins
  <2>4. shown[c].stamp < cable[1].stamp /\ shown[c].stamp \in Int /\ cable[1].stamp \in Int
    BY <1>1, <2>1, <2>2, <2>3, Stamps DEF IInv, OrderInv, IsFor
  <2>5. shown'[c].stamp = cable[1].stamp
    BY <2>1, <2>2 DEF Update_Pwm, IsFor, TypeOK
  <2> QED BY <2>4, <2>5
<1> QED BY <1>1, InvHolds, PTL DEF Spec, InOrder

(* Once the board has obeyed the restart of a new daemon, no output shows  *)
(* what was sent by an earlier one.                                        *)
THEOREM NothingFromBeforeHolds == Spec => []NothingFromBefore
<1>1. IInv => NothingFromBefore
  BY DEF IInv, LifeInv
<1> QED BY <1>1, InvHolds, PTL

(* When nothing is on its way any more, every output that is on shows the  *)
(* newest duty that a client asked for.                                    *)
THEOREM QuietIsNewestHolds == Spec => []QuietIsNewest
<1>1. ASSUME IInv PROVE QuietIsNewest
  <2> USE DEF Nothing, Mailbox!Nothing
  <2>1. SUFFICES ASSUME Quiet, NEW c \in Channels, pin[c] > 0
                 PROVE  newest[c] # NoDuty /\ pin[c] \in PWM!LevelOf(newest[c].duty)
    BY DEF QuietIsNewest
  <2>2. daemon # "off" /\ overran < life /\ NoneWaits(c) /\ out[c] = NoDuty
    BY <2>1 DEF Quiet, NoneWaits
  <2>3. \A i \in 1 .. Len(cable) : ~IsFor(i, c)
    BY <2>1 DEF Quiet
  <2>4. shown[c].life = life
    <3>1. shown[c].life >= life /\ shown[c].life <= life
      BY <1>1, <2>1 DEF Quiet, IInv, LifeInv, NothingFromBefore
    <3>2. shown[c].life \in Int /\ life \in Int
      BY <1>1, Lives DEF IInv, TypeInv
    <3> QED BY <3>1, <3>2
  <2>5. newest[c] # NoDuty /\ shown[c].duty = newest[c].duty
    BY <1>1, <2>1, <2>2, <2>3, <2>4 DEF IInv, NewestInv, NewestOf
  <2>6. pin[c] \in PWM!LevelOf(shown[c].duty)
    BY <1>1, <2>1 DEF IInv, LevelInv
  <2> QED BY <2>5, <2>6
<1> QED BY <1>1, InvHolds, PTL
=============================================================================
