----------------------- MODULE DaemonOneClientProofs ------------------------
(***************************************************************************)
(* Daemon with one client, as it is deployed: what its commands do to the  *)
(* excluded addresses, their routes and the host, for every set of         *)
(* configurations and addresses and every bound.                           *)
(*                                                                         *)
(* With one socket at most one command is suspended; only the handshake    *)
(* poll nests into it.  The proofs first reduce the stack to that command  *)
(* (Work) and every step to what it does to the command and to the rest of *)
(* the state (OneOf), and then follow the references, the routes and the   *)
(* host through these steps.                                               *)
(***************************************************************************)
EXTENDS DaemonProofs

\* The client's socket is the only one.
OneClient == \A c, d \in Clients : c = d

\* Configurations with the same keys and addresses are of the same server, so
\* that switchServer only changes what bypasses the tunnel.
SwitchesKeepServer == \A a, b \in Configs : a.id = b.id => a.pub = b.pub

\* The address of the server is among those the client excludes.
ServerIsExcluded == \A cfg \in Configs : cfg.plain[cfg.host] > 0

-----------------------------------------------------------------------------
(* The command in progress.                                                *)

\* A stack on which no command is suspended.
Polls(s) == \A i \in 1 .. Len(s) : s[i].at = "poll" /\ s[i].c = NoClient

\* Only polls have no client, and there is at most one other call.
Shape ==
  /\ \A i \in 1 .. Len(stack) : stack[i].at = "poll" <=> stack[i].c = NoClient
  /\ \A i, j \in 1 .. Len(stack) : stack[i].at # "poll" /\ stack[j].at # "poll" => i = j

Job(at, cfg, old) == [at |-> at, cfg |-> cfg, old |-> old]
NoWork == Job("status", NoConfig, NoConfig)

\* The suspended command; a status request counts as none.
Work ==
  IF Polls(stack) THEN NoWork
  ELSE LET f == stack[CHOOSE i \in 1 .. Len(stack) : stack[i].at # "poll"]
       IN  Job(f.at, f.cfg, f.old)

\* The command is the call that is not a poll.
LEMMA WorkIs ==
  ASSUME Shape, NEW i \in 1 .. Len(stack), stack[i].at # "poll"
  PROVE  Work = Job(stack[i].at, stack[i].cfg, stack[i].old)
<1>1. ~Polls(stack)
  BY DEF Polls
<1>2. (CHOOSE k \in 1 .. Len(stack) : stack[k].at # "poll") = i
  BY DEF Shape
<1>3. QED
  BY <1>1, <1>2 DEF Work

\* Without such a call there is none.
LEMMA WorkIsNone ==
  ASSUME Shape, \A i \in 1 .. Len(stack) : stack[i].at = "poll"
  PROVE  Polls(stack) /\ Work = NoWork
  BY DEF Shape, Polls, Work

\* A command starts when no other is suspended.
LEMMA AcceptsIs ==
  ASSUME OneClient, TypeOK, Shape, NEW c \in Clients, Accepts(c)
  PROVE  Polls(stack) /\ Work = NoWork
<1>1. \A i \in 1 .. Len(stack) : stack[i].at = "poll"
  <2> SUFFICES ASSUME NEW i \in 1 .. Len(stack), stack[i].at # "poll" PROVE FALSE
    OBVIOUS
  <2>1. stack[i] \in Frame
    BY ElementOfSeq DEF TypeOK
  <2>2. stack[i].c \in Clients
    BY <2>1 DEF Shape, Frame, FrameFields
  <2>3. QED
    BY <2>2 DEF OneClient, Accepts, Idle
<1>2. QED
  BY <1>1, WorkIsNone

\* The command that resumes is the one in progress, on top of polls.
LEMMA ResumeIs ==
  ASSUME TypeOK, Shape, stack # <<>>, Top.at # "poll"
  PROVE  /\ Top \in Frame /\ Top.c \in Clients
         /\ Below \in Seq(Frame) /\ Polls(Below)
         /\ Work = Job(Top.at, Top.cfg, Top.old)
<1>1. stack \in Seq(Frame) /\ Len(stack) \in Nat \ {0}
  BY EmptySeq DEF TypeOK
<1>2. /\ Top \in Frame /\ Below \in Seq(Frame) /\ Len(Below) = Len(stack) - 1
      /\ \A i \in 1 .. Len(stack) - 1 : Below[i] = stack[i]
  BY <1>1, TopAndBelow
<1>3. Len(stack) \in 1 .. Len(stack) /\ stack[Len(stack)] = Top
  BY <1>1 DEF Top
<1>4. Top.c \in Clients
  BY <1>2, <1>3 DEF Shape, Frame, FrameFields
<1>5. \A i \in 1 .. Len(stack) - 1 : stack[i].at = "poll" /\ stack[i].c = NoClient
  BY <1>1, <1>3 DEF Shape
<1>6. Polls(Below)
  BY <1>2, <1>5 DEF Polls
<1>7. Work = Job(Top.at, Top.cfg, Top.old)
  BY <1>3, WorkIs
<1>8. QED
  BY <1>2, <1>4, <1>6, <1>7

\* A command that returns leaves none.
LEMMA ReturnIs ==
  ASSUME NEW s \in Seq(Frame), Polls(s), Return(s)
  PROVE  Shape' /\ Work' = NoWork
<1>1. stack' = s
  BY DEF Return
<1>2. Shape'
  BY <1>1 DEF Shape, Polls
<1>3. QED
  BY <1>1, <1>2 DEF Work, Polls

\* A command that waits is the one in progress.
LEMMA SuspendIs ==
  ASSUME NEW s \in Seq(Frame), Polls(s), NEW f, stack' = Append(s, f),
         f.at # "poll", f.c # NoClient
  PROVE  Shape' /\ Work' = Job(f.at, f.cfg, f.old)
<1>1. /\ Len(s) \in Nat /\ Len(stack') = Len(s) + 1 /\ stack'[Len(s) + 1] = f
      /\ \A i \in 1 .. Len(s) : stack'[i] = s[i]
  OBVIOUS
<1>2. \A i \in 1 .. Len(stack') : stack'[i].at # "poll" => i = Len(s) + 1
  BY <1>1 DEF Polls
<1>3. Shape'
  BY <1>1, <1>2 DEF Shape, Polls
<1>4. Len(s) + 1 \in 1 .. Len(stack')
  BY <1>1
<1>5. ~Polls(stack)'
  BY <1>1, <1>4 DEF Polls
<1>6. (CHOOSE i \in 1 .. Len(stack') : stack'[i].at # "poll") = Len(s) + 1
  BY <1>1, <1>2, <1>4
<1>7. QED
  BY <1>1, <1>3, <1>5, <1>6 DEF Work

\* uapiCommand suspends the command.
LEMMA AskIs ==
  ASSUME NEW s \in Seq(Frame), Polls(s), NEW at, at # "poll", NEW c \in Clients,
         NEW cfg, NEW old, NEW next, Ask(s, at, c, cfg, old, next)
  PROVE  Shape' /\ Work' = Job(at, cfg, old)
<1>1. PICK f : /\ stack' = Append(s, f) /\ f.at = at /\ f.c = c
               /\ f.cfg = cfg /\ f.old = old
  BY DEF Ask
<1>2. f.at # "poll" /\ f.c # NoClient
  BY <1>1, NullsAreFresh
<1>3. Shape' /\ Work' = Job(f.at, f.cfg, f.old)
  BY <1>1, <1>2, SuspendIs
<1>4. QED
  BY <1>1, <1>3

\* Starting the tunnel suspends it, or fails.
LEMMA StartTunnelIs ==
  ASSUME NEW s \in Seq(Frame), Polls(s), NEW c \in Clients, NEW cfg, StartTunnel(s, c, cfg)
  PROVE  /\ Shape'
         /\ \/ Work' = Job("name", cfg, NoConfig) /\ tunnel' = "up"
            \/ Work' = NoWork /\ tunnel' = "off"
<1>1. CASE Fail(s, c) /\ tunnel' = "off"
  BY <1>1, ReturnIs DEF Fail
<1>2. CASE /\ stack' = Append(s, [at |-> "name", c |-> c, cfg |-> cfg,
                                  old |-> NoConfig, next |-> NoConfig,
                                  rep |-> "wait", seen |-> {}])
           /\ tunnel' = "up"
  <2>1. PICK f : /\ stack' = Append(s, f) /\ f.at = "name" /\ f.c = c
                 /\ f.cfg = cfg /\ f.old = NoConfig
    BY <1>2
  <2>2. f.at # "poll" /\ f.c # NoClient
    BY <2>1, NullsAreFresh
  <2>3. Shape' /\ Work' = Job(f.at, f.cfg, f.old)
    BY <2>1, <2>2, SuspendIs
  <2>4. QED
    BY <1>2, <2>1, <2>3
<1>3. QED
  BY <1>1, <1>2 DEF StartTunnel

\* A poll that starts leaves the command in progress.
LEMMA PollStartIs ==
  ASSUME TypeOK, Shape, CheckHandshake
  PROVE  Shape' /\ Work' = Work
<1>1. PICK f : stack' = Append(stack, f) /\ f.at = "poll" /\ f.c = NoClient
  BY DEF CheckHandshake, Ask
<1>2. /\ Len(stack) \in Nat /\ Len(stack') = Len(stack) + 1 /\ stack'[Len(stack) + 1] = f
      /\ \A i \in 1 .. Len(stack) : stack'[i] = stack[i]
  BY <1>1 DEF TypeOK
<1>3. \A i \in 1 .. Len(stack') : stack'[i].at # "poll" => i \in 1 .. Len(stack)
  BY <1>1, <1>2
<1>4. Shape'
  BY <1>1, <1>2, <1>3 DEF Shape
<1>5. CASE \A i \in 1 .. Len(stack) : stack[i].at = "poll"
  <2>1. \A i \in 1 .. Len(stack') : stack'[i].at = "poll"
    BY <1>2, <1>3, <1>5
  <2>2. Work' = NoWork
    BY <1>4, <2>1 DEF Shape, Polls, Work
  <2>3. QED
    BY <1>4, <1>5, <2>2, WorkIsNone
<1>6. CASE \E i \in 1 .. Len(stack) : stack[i].at # "poll"
  <2>1. PICK i \in 1 .. Len(stack) : stack[i].at # "poll"
    BY <1>6
  <2>2. Work = Job(stack[i].at, stack[i].cfg, stack[i].old)
    BY <2>1, WorkIs
  <2>3. i \in 1 .. Len(stack') /\ stack'[i] = stack[i]
    BY <1>2, <2>1
  <2>4. ~Polls(stack)'
    BY <2>1, <2>3 DEF Polls
  <2>5. (CHOOSE k \in 1 .. Len(stack') : stack'[k].at # "poll") = i
    BY <1>4, <2>1, <2>3 DEF Shape
  <2>6. QED
    BY <1>4, <2>2, <2>3, <2>4, <2>5 DEF Work
<1>7. QED
  BY <1>5, <1>6

\* A call other than the top one, or the top one with its answer, stays what it is.
SameCalls(s, t) ==
  /\ Len(t) = Len(s)
  /\ \A i \in 1 .. Len(s) : /\ t[i].at = s[i].at /\ t[i].c = s[i].c
                            /\ t[i].cfg = s[i].cfg /\ t[i].old = s[i].old

\* The answers to calls leave the command in progress.
LEMMA SameCallsIs ==
  ASSUME Shape, SameCalls(stack, stack')
  PROVE  Shape' /\ Work' = Work
<1>1. Shape'
  BY DEF Shape, SameCalls
<1>2. CASE \A i \in 1 .. Len(stack) : stack[i].at = "poll"
  <2>1. \A i \in 1 .. Len(stack') : stack'[i].at = "poll"
    BY <1>2 DEF SameCalls
  <2>2. Work' = NoWork
    BY <1>1, <2>1 DEF Shape, Polls, Work
  <2>3. QED
    BY <1>1, <1>2, <2>2, WorkIsNone
<1>3. CASE \E i \in 1 .. Len(stack) : stack[i].at # "poll"
  <2>1. PICK i \in 1 .. Len(stack) : stack[i].at # "poll"
    BY <1>3
  <2>2. Work = Job(stack[i].at, stack[i].cfg, stack[i].old)
    BY <2>1, WorkIs
  <2>3. /\ i \in 1 .. Len(stack') /\ stack'[i].at = stack[i].at
        /\ stack'[i].cfg = stack[i].cfg /\ stack'[i].old = stack[i].old
    BY <2>1 DEF SameCalls
  <2>4. ~Polls(stack)'
    BY <2>1, <2>3 DEF Polls
  <2>5. (CHOOSE k \in 1 .. Len(stack') : stack'[k].at # "poll") = i
    BY <1>1, <2>1, <2>3 DEF Shape
  <2>6. QED
    BY <1>1, <2>2, <2>3, <2>4, <2>5 DEF Work
<1>4. QED
  BY <1>2, <1>3

\* A step that leaves the stack alone leaves the command.
LEMMA SameStackIs ==
  ASSUME Shape, stack' = stack
  PROVE  Shape' /\ Work' = Work
  BY SameCallsIs DEF SameCalls

\* An answer changes neither the kind nor the configurations of a call.
LEMMA AnswerIs ==
  ASSUME TypeOK, Shape, NEW i \in 1 .. Len(stack), AnswerOk(i) \/ AnswerErr(i)
  PROVE  Shape' /\ Work' = Work
<1>1. stack[i] \in Frame
  BY ElementOfSeq DEF TypeOK
<1>2. PICK f \in Frame : /\ stack' = [stack EXCEPT ![i] = f]
                         /\ f.at = stack[i].at /\ f.c = stack[i].c
                         /\ f.cfg = stack[i].cfg /\ f.old = stack[i].old
  <2> DEFINE S == IF stack[i].at = "poll"
                  THEN {k \in PubKeys : peers[k] = "shaken"} ELSE {}
  <2>1. CASE AnswerOk(i)
    <3>1. stack' = [stack EXCEPT ![i] = [stack[i] EXCEPT !.rep = "ok", !.seen = S]]
      BY <2>1 DEF AnswerOk
    <3>2. S \in SUBSET PubKeys
      OBVIOUS
    <3> HIDE DEF S
    <3> DEFINE f == [stack[i] EXCEPT !.rep = "ok", !.seen = S]
    <3>3. f \in Frame
      BY <1>1, <3>2 DEF Frame, FrameFields
    <3>4. /\ f.at = stack[i].at /\ f.c = stack[i].c
          /\ f.cfg = stack[i].cfg /\ f.old = stack[i].old
      BY <1>1 DEF Frame, FrameFields
    <3>5. QED
      BY <3>1, <3>3, <3>4
  <2>2. CASE AnswerErr(i)
    <3> DEFINE f == [stack[i] EXCEPT !.rep = "err"]
    <3>1. stack' = [stack EXCEPT ![i] = f]
      BY <2>2 DEF AnswerErr
    <3>2. f \in Frame
      BY <1>1 DEF Frame, FrameFields
    <3>3. /\ f.at = stack[i].at /\ f.c = stack[i].c
          /\ f.cfg = stack[i].cfg /\ f.old = stack[i].old
      BY <1>1 DEF Frame, FrameFields
    <3>4. QED
      BY <3>1, <3>2, <3>3
  <2>3. QED
    BY <2>1, <2>2
<1>3. Len(stack') = Len(stack) /\ \A j \in 1 .. Len(stack) : stack'[j] = IF j = i THEN f ELSE stack[j]
  BY <1>2, ExceptSeq DEF TypeOK
<1>4. SameCalls(stack, stack')
  BY <1>2, <1>3 DEF SameCalls
<1>5. QED
  BY <1>4, SameCallsIs

\* A poll that ends leaves the command in progress.
LEMMA PollEndIs ==
  ASSUME TypeOK, Shape, AfterPoll
  PROVE  Shape' /\ Work' = Work
<1>1. stack \in Seq(Frame) /\ stack # <<>> /\ Top.at = "poll" /\ stack' = Below
  BY DEF TypeOK, AfterPoll, Return
<1>2. Len(stack) \in Nat \ {0}
  BY <1>1, EmptySeq
<1>3. /\ Len(stack') = Len(stack) - 1
      /\ \A i \in 1 .. Len(stack') : i \in 1 .. Len(stack) /\ stack'[i] = stack[i]
  BY <1>1, <1>2, TopAndBelow
<1>4. \A i \in 1 .. Len(stack) : stack[i].at # "poll" => i \in 1 .. Len(stack')
  BY <1>1, <1>2, <1>3 DEF Top
<1>5. Shape'
  BY <1>3 DEF Shape
<1>6. CASE \A i \in 1 .. Len(stack) : stack[i].at = "poll"
  <2>1. \A i \in 1 .. Len(stack') : stack'[i].at = "poll"
    BY <1>3, <1>6
  <2>2. Work' = NoWork
    BY <1>5, <2>1 DEF Shape, Polls, Work
  <2>3. QED
    BY <1>5, <1>6, <2>2, WorkIsNone
<1>7. CASE \E i \in 1 .. Len(stack) : stack[i].at # "poll"
  <2>1. PICK i \in 1 .. Len(stack) : stack[i].at # "poll"
    BY <1>7
  <2>2. Work = Job(stack[i].at, stack[i].cfg, stack[i].old)
    BY <2>1, WorkIs
  <2>3. i \in 1 .. Len(stack') /\ stack'[i] = stack[i]
    BY <1>3, <1>4, <2>1
  <2>4. ~Polls(stack)'
    BY <2>1, <2>3 DEF Polls
  <2>5. (CHOOSE k \in 1 .. Len(stack') : stack'[k].at # "poll") = i
    BY <1>5, <2>1, <2>3 DEF Shape
  <2>6. QED
    BY <1>5, <2>2, <2>3, <2>4, <2>5 DEF Work
<1>8. QED
  BY <1>6, <1>7

\* The command in progress has the configurations it needs.
LEMMA WorkIsTyped ==
  ASSUME TypeOK, Shape
  PROVE  /\ Work.at \in Waits \ {"poll"}
         /\ Work.at # "status" => Work.cfg \in Configs
         /\ Work.at \in {"speer", "srestore", "sdel"} => Work.old \in Configs
<1>1. CASE \A i \in 1 .. Len(stack) : stack[i].at = "poll"
  <2>1. Work = NoWork
    BY <1>1, WorkIsNone
  <2>2. QED
    BY <2>1 DEF NoWork, Job, Waits
<1>2. CASE \E i \in 1 .. Len(stack) : stack[i].at # "poll"
  <2>1. PICK i \in 1 .. Len(stack) : stack[i].at # "poll"
    BY <1>2
  <2>2. Work = Job(stack[i].at, stack[i].cfg, stack[i].old)
    BY <2>1, WorkIs
  <2>3. stack[i] \in Frame
    BY <2>1, ElementOfSeq DEF TypeOK
  <2>4. QED
    BY <2>1, <2>2, <2>3 DEF Job, Frame, FrameFields, Waits
<1>3. QED
  BY <1>1, <1>2

-----------------------------------------------------------------------------
(* What a step does to the command and to the rest of the state.           *)

exclVars == <<excl, xroutes, asserted, gw>>
ownVars  == <<tunnel, rtmon, fw, dns, troutes>>

\* Polls, answers, handshakes, status requests and commands that are refused:
\* at most the date of the connection changes.
Keeps ==
  /\ Work' = Work \/ (Work.at = "status" /\ Work'.at = "status")
  /\ conn' = NoConn <=> conn = NoConn
  /\ conn'.cfg = conn.cfg
  /\ UNCHANGED <<exclVars, ownVars>>

\* The tunnel process ends.
Exits ==
  /\ tunnel = "killed" \/ MaxDeaths > 0
  /\ tunnel' = "off" /\ troutes' = {} /\ Work' = Work
  /\ UNCHANGED <<conn, exclVars, rtmon, fw, dns>>

\* The default gateway is lost, or back.
Drops ==
  /\ \/ MaxDrops > 0 /\ gw' = FALSE /\ xroutes' = {}
     \/ ~gw /\ gw' = TRUE /\ UNCHANGED xroutes
  /\ Work' = Work
  /\ UNCHANGED <<conn, excl, asserted, ownVars>>

Crashes ==
  /\ MaxCrashes > 0
  /\ Work'.at = "status" /\ conn' = NoConn
  /\ excl' = [p \in Prefixes |-> Absent]
  /\ tunnel' = "off" /\ ~rtmon' /\ ~dns' /\ troutes' = {}
  /\ UNCHANGED <<asserted, fw, xroutes, gw>>

\* activate starts a tunnel process.
Opens ==
  /\ Work.at = "status" /\ conn = NoConn /\ tunnel = "off" /\ tunnel' = "up"
  /\ \E cfg \in Configs : Work' = Job("name", cfg, NoConfig)
  /\ UNCHANGED <<conn, exclVars, rtmon, fw, dns, troutes>>

\* Its socket is there, or not in time.
Named ==
  /\ Work.at = "name"
  /\ UNCHANGED <<conn, exclVars, fw, dns, troutes>>
  /\ \/ /\ tunnel = "up" /\ tunnel' = "up" /\ rtmon' = TRUE
        /\ Work' = Job("config", Work.cfg, NoConfig)
     \/ /\ tunnel' = IF tunnel = "up" THEN "killed" ELSE tunnel
        /\ Work'.at = "status" /\ UNCHANGED rtmon

\* The interface cannot be configured or brought up.
ConfigEnds ==
  /\ Work.at = "config" /\ Work'.at = "status"
  /\ fw' = fw \/ fw' = Work.cfg
  /\ UNCHANGED <<conn, exclVars, tunnel, rtmon, dns, troutes>>

\* activate takes the references of its configuration and adds the peer.
Takes ==
  /\ \E cfg \in Configs :
       /\ \/ Work.at = "status" /\ conn = NoConn /\ fw' = fw
          \/ Work.at = "config" /\ Work.cfg = cfg /\ (fw' = fw \/ fw' = cfg)
       /\ AddExclusionRoutes(cfg)
       /\ Work' = Job("peer", cfg, NoConfig)
  /\ tunnel = "up"
  /\ UNCHANGED <<conn, asserted, gw, tunnel, rtmon, dns, troutes>>

\* activate records its configuration.
Connects ==
  /\ Work.at = "peer" /\ tunnel = "up" /\ Work'.at = "status"
  /\ conn' = [cfg |-> Work.cfg, date |-> FALSE]
  /\ UNCHANGED <<exclVars, tunnel, rtmon, fw>>

\* activate or switchServer fails and gives its references back.
GivesBack ==
  /\ Work.at \in {"peer", "speer", "srestore"} /\ Work'.at = "status"
  /\ DelExclusionRoutes(Requested(Work.cfg))
  /\ tunnel # "up" => UNCHANGED <<dns, troutes>>
  /\ UNCHANGED <<conn, gw, tunnel, rtmon, fw>>

\* switchServer takes the references of the new configuration.
Switches ==
  /\ Work.at = "status" /\ conn # NoConn
  /\ \E cfg \in Configs :
       /\ cfg.id = conn.cfg.id
       /\ AddExclusionRoutes(cfg)
       /\ Work' = Job("speer", cfg, conn.cfg)
  /\ UNCHANGED <<conn, asserted, gw, ownVars>>

\* switchServer gives the references of the old configuration back and records
\* the new one, at once or after the old peer's deletion.
Switched ==
  /\ Work.at = "speer"
  /\ excl' = ExclAfterDel(HostOnly(Work.old))
  /\ ~DelAsserts(HostOnly(Work.old)) /\ ExclusionIsKnown => ExclusionIsKnown'
  /\ \/ /\ Work.cfg.pub = Work.old.pub /\ Work'.at = "status"
        /\ xroutes' = RoutesAfterDel(HostOnly(Work.old))
        /\ conn' = [cfg |-> Work.cfg, date |-> FALSE]
     \/ /\ Work.cfg.pub # Work.old.pub
        /\ Work' = Job("sdel", Work.cfg, Work.old)
        /\ UNCHANGED conn
  /\ UNCHANGED <<gw, tunnel, rtmon, fw>>

\* switchServer restores the old peer.
Reverts ==
  /\ Work.at = "speer" /\ Work' = Job("srestore", Work.cfg, Work.old)
  /\ xroutes' = xroutes \cup (IF CanRouteAround THEN {Work.old.host} ELSE {})
  /\ UNCHANGED <<conn, excl, asserted, gw, tunnel, rtmon, fw, dns>>

\* switchServer deleted the old peer, or did not.
PeerGone ==
  /\ Work.at = "sdel" /\ Work'.at = "status"
  /\ conn' = [cfg |-> Work.cfg, date |-> FALSE] \/ UNCHANGED conn
  /\ UNCHANGED <<exclVars, tunnel, rtmon, fw>>

\* deactivate deletes the peer of the connection.
Closes ==
  /\ Work.at = "status" /\ conn # NoConn /\ Work' = Job("del", conn.cfg, NoConfig)
  /\ ~dns'
  /\ xroutes' = xroutes \ (IF CanRouteAround THEN {conn.cfg.host} ELSE {})
  /\ UNCHANGED <<conn, excl, asserted, gw, tunnel, rtmon, fw>>

\* deactivate ends; activate may go on with a new tunnel process.
Closed ==
  /\ \/ Work.at = "status" /\ conn = NoConn /\ ~dns'
     \/ Work.at = "del" /\ UNCHANGED dns
  /\ DeactivateRest
  /\ DeleteInterface
  /\ \/ Work'.at = "status" /\ tunnel' = "off"
     \/ \E cfg \in Configs : Work' = Job("name", cfg, NoConfig) /\ tunnel' = "up"
  /\ UNCHANGED <<asserted, gw>>

OneOf ==
  \/ Keeps \/ Exits \/ Drops \/ Crashes
  \/ Opens \/ Named \/ ConfigEnds \/ Takes \/ Connects \/ GivesBack
  \/ Switches \/ Switched \/ Reverts \/ PeerGone
  \/ Closes \/ Closed

\* What BringUp does is to fail, or to take the references.
LEMMA BringUpIs ==
  ASSUME NEW s \in Seq(Frame), Polls(s), NEW c \in Clients, NEW cfg, BringUp(s, c, cfg)
  PROVE  /\ Shape' /\ UNCHANGED <<conn, dns, troutes, asserted>>
         /\ \/ Work' = NoWork /\ UNCHANGED <<excl, xroutes>>
            \/ /\ Work' = Job("peer", cfg, NoConfig) /\ tunnel = "up"
               /\ AddExclusionRoutes(cfg)
<1>1. CASE Fail(s, c) /\ UNCHANGED <<excl, xroutes, asserted>>
  BY <1>1, ReturnIs DEF BringUp, Fail
<1>2. CASE /\ tunnel = "up" /\ AddExclusionRoutes(cfg) /\ UNCHANGED <<told, asserted>>
           /\ Ask(s, "peer", c, cfg, NoConfig, NoConfig)
  <2>1. Shape' /\ Work' = Job("peer", cfg, NoConfig)
    BY <1>2, AskIs
  <2>2. QED
    BY <1>2, <2>1 DEF BringUp
<1>3. QED
  BY <1>1, <1>2 DEF BringUp

\* Each command is one of the steps.
LEMMA CommandIs ==
  ASSUME OneClient, TypeOK, Shape, NEW c \in Clients, Command(c)
  PROVE  Shape' /\ OneOf
<1>1. Accepts(c)
  BY DEF Command, Activate, ActivateInvalid, Deactivate, GetStatus
<1>2. Polls(stack) /\ Work.at = "status"
  BY <1>1, AcceptsIs DEF NoWork, Job
<1>3. stack \in Seq(Frame)
  BY DEF TypeOK
<1>4. ASSUME NEW cfg \in Configs, ActivateFresh(c, cfg) PROVE Shape' /\ OneOf
  <2>1. CASE /\ tunnel = "off" /\ StartTunnel(stack, c, cfg)
             /\ UNCHANGED <<conn, excl, timer, asserted, dns, xroutes, troutes>>
    <3>1. /\ Shape'
          /\ \/ Work' = Job("name", cfg, NoConfig) /\ tunnel' = "up"
             \/ Work' = NoWork /\ tunnel' = "off"
      BY <1>2, <1>3, <2>1, StartTunnelIs
    <3>2. Opens \/ Keeps
      BY <1>2, <1>4, <2>1, <3>1
      DEF ActivateFresh, Opens, Keeps, NoWork, Job, exclVars, ownVars
    <3>3. QED
      BY <3>1, <3>2 DEF OneOf
  <2>2. CASE tunnel # "off" /\ BringUp(stack, c, cfg) /\ UNCHANGED tunnel
    <3>1. /\ Shape' /\ UNCHANGED <<conn, dns, troutes, asserted>>
          /\ \/ Work' = NoWork /\ UNCHANGED <<excl, xroutes>>
             \/ /\ Work' = Job("peer", cfg, NoConfig) /\ tunnel = "up"
                /\ AddExclusionRoutes(cfg)
      BY <1>2, <1>3, <2>2, BringUpIs
    <3>2. Takes \/ Keeps
      BY <1>2, <1>4, <2>2, <3>1
      DEF ActivateFresh, Takes, Keeps, NoWork, Job, exclVars, ownVars
    <3>3. QED
      BY <3>1, <3>2 DEF OneOf
  <2>3. QED
    BY <1>4, <2>1, <2>2 DEF ActivateFresh
<1>5. ASSUME NEW cfg \in Configs, SwitchServer(c, cfg) PROVE Shape' /\ OneOf
  <2>1. CASE AddExclusionRoutes(cfg) /\ Ask(stack, "speer", c, cfg, conn.cfg, NoConfig)
    <3>1. Shape' /\ Work' = Job("speer", cfg, conn.cfg)
      BY <1>2, <1>3, <2>1, AskIs
    <3>2. Switches
      BY <1>2, <1>5, <2>1, <3>1
      DEF SwitchServer, SupportServerSwitching, Switches, ownVars
    <3>3. QED
      BY <3>1, <3>2 DEF OneOf
  <2>2. CASE Fail(stack, c) /\ UNCHANGED <<excl, xroutes>>
    <3>1. Shape' /\ Work' = NoWork
      BY <1>2, <1>3, <2>2, ReturnIs DEF Fail
    <3>2. Keeps
      BY <1>2, <1>5, <2>2, <3>1 DEF SwitchServer, Keeps, NoWork, Job, exclVars, ownVars
    <3>3. QED
      BY <3>1, <3>2 DEF OneOf
  <2>3. QED
    BY <1>5, <2>1, <2>2 DEF SwitchServer
<1>6. ASSUME NEW next, DeactivatePeer(c, next) PROVE Shape' /\ OneOf
  <2>1. Shape' /\ Work' = Job("del", conn.cfg, NoConfig)
    BY <1>2, <1>3, <1>6, AskIs DEF DeactivatePeer
  <2>2. Closes
    BY <1>2, <1>6, <2>1 DEF DeactivatePeer, Closes
  <2>3. QED
    BY <2>1, <2>2 DEF OneOf
<1>7. ASSUME DeactivateIdle PROVE Shape' /\ OneOf
  <2>1. Shape' /\ Work' = Work
    BY <1>7, SameStackIs DEF DeactivateIdle
  <2>2. Closed
    BY <1>2, <1>7, <2>1 DEF DeactivateIdle, Closed
  <2>3. QED
    BY <2>1, <2>2 DEF OneOf
<1>8. ASSUME ActivateInvalid(c) PROVE Shape' /\ OneOf
  <2>1. Shape' /\ Work' = NoWork
    BY <1>2, <1>3, <1>8, ReturnIs DEF ActivateInvalid, Fail
  <2>2. Keeps
    BY <1>2, <1>8, <2>1
    DEF ActivateInvalid, hostVars, Keeps, NoWork, Job, exclVars, ownVars
  <2>3. QED
    BY <2>1, <2>2 DEF OneOf
<1>9. ASSUME GetStatus(c) PROVE Shape' /\ OneOf
  <2>1. Shape' /\ Work' = Job("status", NoConfig, NoConfig)
    BY <1>2, <1>3, <1>9, AskIs DEF GetStatus
  <2>2. Keeps
    BY <1>2, <1>9, <2>1 DEF GetStatus, daemonVars, hostVars, Keeps, Job, exclVars, ownVars
  <2>3. QED
    BY <2>1, <2>2 DEF OneOf
<1>10. QED
  BY <1>4, <1>5, <1>6, <1>7, <1>8, <1>9 DEF Command, Activate, Deactivate

\* So is what activate does when it goes on.
LEMMA ActivateGoesOnIs ==
  ASSUME TypeOK, Shape, AfterName \/ AfterConfig \/ AfterPeer
  PROVE  Shape' /\ OneOf
<1>1. /\ Top \in Frame /\ Top.c \in Clients /\ Below \in Seq(Frame) /\ Polls(Below)
      /\ Work = Job(Top.at, Top.cfg, Top.old)
  BY ResumeIs DEF AfterName, AfterConfig, AfterPeer
<1>2. Work.at = Top.at /\ Work.cfg = Top.cfg /\ Top.cfg \in Configs
  BY <1>1 DEF Job, Frame, AfterName, AfterConfig, AfterPeer
<1>3. CASE AfterName
  <2>1. CASE /\ tunnel = "up" /\ rtmon' = TRUE /\ UNCHANGED tunnel
             /\ Ask(Below, "config", Top.c, Top.cfg, NoConfig, NoConfig)
    <3>1. Shape' /\ Work' = Job("config", Top.cfg, NoConfig)
      BY <1>1, <2>1, AskIs
    <3>2. Named
      BY <1>2, <1>3, <2>1, <3>1 DEF AfterName, Named, exclVars
    <3>3. QED
      BY <3>1, <3>2 DEF OneOf
  <2>2. CASE /\ Fail(Below, Top.c) /\ UNCHANGED rtmon
             /\ tunnel' = IF tunnel = "up" THEN "killed" ELSE tunnel
    <3>1. Shape' /\ Work' = NoWork
      BY <1>1, <2>2, ReturnIs DEF Fail
    <3>2. Named
      BY <1>2, <1>3, <2>2, <3>1 DEF AfterName, Named, NoWork, Job, exclVars
    <3>3. QED
      BY <3>1, <3>2 DEF OneOf
  <2>3. QED
    BY <1>3, <2>1, <2>2 DEF AfterName
<1>4. CASE AfterConfig
  <2>1. CASE Top.rep = "ok"
    <3>1. /\ Shape' /\ UNCHANGED <<conn, dns, troutes, asserted>>
          /\ \/ Work' = NoWork /\ UNCHANGED <<excl, xroutes>>
             \/ /\ Work' = Job("peer", Top.cfg, NoConfig) /\ tunnel = "up"
                /\ AddExclusionRoutes(Top.cfg)
      BY <1>1, <1>4, <2>1, BringUpIs DEF AfterConfig
    <3>2. fw' = fw \/ fw' = Top.cfg
      BY <1>4, <2>1 DEF AfterConfig
    <3>3. ConfigEnds \/ Takes
      BY <1>2, <1>4, <3>1, <3>2 DEF AfterConfig, ConfigEnds, Takes, NoWork, Job, exclVars
    <3>4. QED
      BY <3>1, <3>3 DEF OneOf
  <2>2. CASE Top.rep # "ok"
    <3>1. Shape' /\ Work' = NoWork
      BY <1>1, <1>4, <2>2, ReturnIs DEF AfterConfig, Fail
    <3>2. ConfigEnds
      BY <1>2, <1>4, <2>2, <3>1 DEF AfterConfig, ConfigEnds, NoWork, Job, exclVars
    <3>3. QED
      BY <3>1, <3>2 DEF OneOf
  <2>3. QED
    BY <2>1, <2>2
<1>5. CASE AfterPeer
  <2>1. Shape' /\ Work' = NoWork
    BY <1>1, <1>5, ReturnIs DEF AfterPeer, PeerReady, Fail
  <2>2. CASE PeerReady
    <3>1. Connects
      BY <1>2, <1>5, <2>1, <2>2 DEF AfterPeer, PeerReady, Connects, NoWork, Job, exclVars
    <3>2. QED
      BY <2>1, <3>1 DEF OneOf
  <2>3. CASE ~PeerReady
    <3>1. GivesBack
      BY <1>2, <1>5, <2>1, <2>3
      DEF AfterPeer, PeerFailed, RouteFailed, GivesBack, NoWork, Job
    <3>2. QED
      BY <2>1, <3>1 DEF OneOf
  <2>4. QED
    BY <2>2, <2>3
<1>6. QED
  BY <1>3, <1>4, <1>5

\* What completes a switch returns.
LEMMA CompleteSwitchIs ==
  ASSUME NEW s \in Seq(Frame), Polls(s), NEW c, NEW cfg, CompleteSwitch(s, c, cfg)
  PROVE  Shape' /\ Work' = NoWork /\ conn' = [cfg |-> cfg, date |-> FALSE]
<1>1. Return(s)
  BY DEF CompleteSwitch, Fail
<1>2. QED
  BY <1>1, ReturnIs DEF CompleteSwitch

\* So is what switchServer does when it goes on.
LEMMA SwitchGoesOnIs ==
  ASSUME TypeOK, Shape, AfterSwitchPeer \/ AfterSwitchRestore \/ AfterSwitchDelete
  PROVE  Shape' /\ OneOf
<1>1. /\ Top \in Frame /\ Top.c \in Clients /\ Below \in Seq(Frame) /\ Polls(Below)
      /\ Work = Job(Top.at, Top.cfg, Top.old)
  BY ResumeIs DEF AfterSwitchPeer, AfterSwitchRestore, AfterSwitchDelete
<1>2. Work.at = Top.at /\ Work.cfg = Top.cfg /\ Work.old = Top.old
  BY <1>1 DEF Job
<1>3. CASE AfterSwitchPeer
  <2>1. CASE SwitchRoutesReady(Top.cfg, Top.old)
    <3>1. CASE Top.cfg.pub = Top.old.pub
      <4>1. Shape' /\ Work' = NoWork /\ conn' = [cfg |-> Top.cfg, date |-> FALSE]
        BY <1>1, <2>1, <3>1, CompleteSwitchIs DEF SwitchRoutesReady
      <4>2. Switched
        BY <1>2, <1>3, <2>1, <3>1, <4>1
        DEF AfterSwitchPeer, SwitchRoutesReady, Switched, ExclusionIsKnown, NoWork, Job
      <4>3. QED
        BY <4>1, <4>2 DEF OneOf
    <3>2. CASE Top.cfg.pub # Top.old.pub
      <4>1. Shape' /\ Work' = Job("sdel", Top.cfg, Top.old)
        BY <1>1, <2>1, <3>2, AskIs DEF SwitchRoutesReady
      <4>2. Switched
        BY <1>2, <1>3, <2>1, <3>2, <4>1 DEF AfterSwitchPeer, SwitchRoutesReady, Switched, ExclusionIsKnown
      <4>3. QED
        BY <4>1, <4>2 DEF OneOf
    <3>3. QED
      BY <3>1, <3>2
  <2>2. CASE SwitchRouteFailed(Top.cfg, Top.old)
    <3>1. Shape' /\ Work' = Job("srestore", Top.cfg, Top.old)
      BY <1>1, <2>2, AskIs DEF SwitchRouteFailed
    <3>2. Reverts
      BY <1>2, <1>3, <2>2, <3>1 DEF AfterSwitchPeer, SwitchRouteFailed, Reverts
    <3>3. QED
      BY <3>1, <3>2 DEF OneOf
  <2>3. CASE /\ DelExclusionRoutes(Requested(Top.cfg)) /\ Fail(Below, Top.c)
             /\ UNCHANGED <<conn, timer, dns, troutes>>
    <3>1. Shape' /\ Work' = NoWork
      BY <1>1, <2>3, ReturnIs DEF Fail
    <3>2. GivesBack
      BY <1>2, <1>3, <2>3, <3>1 DEF AfterSwitchPeer, GivesBack, NoWork, Job
    <3>3. QED
      BY <3>1, <3>2 DEF OneOf
  <2>4. QED
    BY <1>3, <2>1, <2>2, <2>3 DEF AfterSwitchPeer
<1>4. CASE AfterSwitchRestore
  <2>1. Shape' /\ Work' = NoWork
    BY <1>1, <1>4, ReturnIs DEF AfterSwitchRestore, Fail
  <2>2. GivesBack
    BY <1>2, <1>4, <2>1 DEF AfterSwitchRestore, GivesBack, NoWork, Job
  <2>3. QED
    BY <2>1, <2>2 DEF OneOf
<1>5. CASE AfterSwitchDelete
  <2>1. CASE Top.rep = "ok"
    <3>1. Shape' /\ Work' = NoWork /\ conn' = [cfg |-> Top.cfg, date |-> FALSE]
      BY <1>1, <1>5, <2>1, CompleteSwitchIs DEF AfterSwitchDelete
    <3>2. PeerGone
      BY <1>2, <1>5, <2>1, <3>1 DEF AfterSwitchDelete, PeerGone, NoWork, Job, exclVars
    <3>3. QED
      BY <3>1, <3>2 DEF OneOf
  <2>2. CASE Top.rep # "ok"
    <3>1. Shape' /\ Work' = NoWork
      BY <1>1, <1>5, <2>2, ReturnIs DEF AfterSwitchDelete, Fail
    <3>2. PeerGone
      BY <1>2, <1>5, <2>2, <3>1 DEF AfterSwitchDelete, PeerGone, NoWork, Job, exclVars
    <3>3. QED
      BY <3>1, <3>2 DEF OneOf
  <2>3. QED
    BY <2>1, <2>2
<1>6. QED
  BY <1>3, <1>4, <1>5

\* So is what deactivate and getStatus do when they go on.
LEMMA RestGoesOnIs ==
  ASSUME TypeOK, Shape, AfterDelete \/ AfterStatus
  PROVE  Shape' /\ OneOf
<1>1. /\ Top \in Frame /\ Top.c \in Clients /\ Below \in Seq(Frame) /\ Polls(Below)
      /\ Work = Job(Top.at, Top.cfg, Top.old)
  BY ResumeIs DEF AfterDelete, AfterStatus
<1>2. Work.at = Top.at /\ Work.cfg = Top.cfg /\ Top.next \in Configs \cup {NoConfig}
  BY <1>1 DEF Job, Frame, FrameFields
<1>3. CASE AfterDelete
  <2>1. /\ Shape'
        /\ \/ Work' = NoWork /\ tunnel' = "off"
           \/ \E cfg \in Configs : Work' = Job("name", cfg, NoConfig) /\ tunnel' = "up"
    <3>1. CASE Top.next = NoConfig /\ tunnel' = "off" /\ Return(Below)
      BY <1>1, <3>1, ReturnIs
    <3>2. CASE tunnel' = "off" /\ Fail(Below, Top.c)
      BY <1>1, <3>2, ReturnIs DEF Fail
    <3>3. CASE Top.next # NoConfig /\ StartTunnel(Below, Top.c, Top.next)
      <4>1. /\ Shape'
            /\ \/ Work' = Job("name", Top.next, NoConfig) /\ tunnel' = "up"
               \/ Work' = NoWork /\ tunnel' = "off"
        BY <1>1, <3>3, StartTunnelIs
      <4>2. QED
        BY <1>2, <3>3, <4>1
    <3>4. QED
      BY <1>3, <3>1, <3>2, <3>3 DEF AfterDelete
  <2>2. Closed
    BY <1>2, <1>3, <2>1 DEF AfterDelete, Closed, NoWork, Job
  <2>3. QED
    BY <2>1, <2>2 DEF OneOf
<1>4. CASE AfterStatus
  <2>1. Shape' /\ Work' = NoWork
    BY <1>1, <1>4, ReturnIs DEF AfterStatus
  <2>2. Keeps
    BY <1>2, <1>4, <2>1
    DEF AfterStatus, daemonVars, hostVars, Keeps, NoWork, Job, exclVars, ownVars
  <2>3. QED
    BY <2>1, <2>2 DEF OneOf
<1>5. QED
  BY <1>3, <1>4

\* The timer and its poll change at most the date of the connection.
LEMMA PollIs ==
  ASSUME TypeOK, Shape, CheckHandshake \/ AfterPoll
  PROVE  Shape' /\ OneOf
<1>1. Shape' /\ Work' = Work
  BY PollStartIs, PollEndIs
<1>2. (conn' = NoConn <=> conn = NoConn) /\ conn'.cfg = conn.cfg
  <2>1. CASE conn' = conn
    BY <2>1
  <2>2. CASE conn # NoConn /\ conn' = [conn EXCEPT !.date = TRUE]
    <3>1. conn \in [cfg: Configs, date: BOOLEAN]
      BY <2>2 DEF TypeOK
    <3>2. conn'.cfg = conn.cfg /\ conn.cfg # NoConfig
      BY <2>2, <3>1, NullsAreFresh
    <3>3. NoConn.cfg = NoConfig
      BY DEF NoConn
    <3>4. QED
      BY <2>2, <3>2, <3>3
  <2>3. QED
    BY <2>1, <2>2 DEF CheckHandshake, AfterPoll
<1>3. Keeps
  BY <1>1, <1>2 DEF CheckHandshake, AfterPoll, hostVars, Keeps, exclVars, ownVars
<1>4. QED
  BY <1>1, <1>3 DEF OneOf

\* So is what happens around the daemon.
LEMMA EnvironmentIs ==
  ASSUME TypeOK, Shape, Environment
  PROVE  Shape' /\ OneOf
<1>1. ASSUME NEW i \in 1 .. Len(stack), AnswerOk(i) \/ AnswerErr(i) PROVE Shape' /\ OneOf
  <2>1. Shape' /\ Work' = Work
    BY <1>1, AnswerIs
  <2>2. Keeps
    BY <1>1, <2>1 DEF AnswerOk, AnswerErr, daemonVars, hostVars, Keeps, exclVars, ownVars
  <2>3. QED
    BY <2>1, <2>2 DEF OneOf
<1>2. ASSUME NEW k \in PubKeys, Handshake(k) PROVE Shape' /\ OneOf
  <2>1. Shape' /\ Work' = Work
    BY <1>2, SameStackIs DEF Handshake
  <2>2. Keeps
    BY <1>2, <2>1 DEF Handshake, daemonVars, Keeps, exclVars, ownVars
  <2>3. QED
    BY <2>1, <2>2 DEF OneOf
<1>3. CASE TunnelExits
  <2>1. Shape' /\ Work' = Work
    BY <1>3, SameStackIs DEF TunnelExits
  <2>2. tunnel = "killed" \/ MaxDeaths > 0
    BY <1>3, BoundsAreNaturals DEF TunnelExits, TypeOK
  <2>3. Exits
    BY <1>3, <2>1, <2>2 DEF TunnelExits, daemonVars, Exits, exclVars
  <2>4. QED
    BY <2>1, <2>3 DEF OneOf
<1>4. CASE GatewayLost \/ GatewayBack
  <2>1. Shape' /\ Work' = Work
    BY <1>4, SameStackIs DEF GatewayLost, GatewayBack
  <2>2. GatewayLost => MaxDrops > 0
    BY BoundsAreNaturals DEF GatewayLost, TypeOK
  <2>3. Drops
    BY <1>4, <2>1, <2>2 DEF GatewayLost, GatewayBack, daemonVars, Drops, ownVars
  <2>4. QED
    BY <2>1, <2>3 DEF OneOf
<1>5. CASE Crash
  <2>1. stack' = <<>>
    BY <1>5 DEF Crash
  <2>2. Return(<<>>) /\ <<>> \in Seq(Frame) /\ Polls(<<>>)
    BY <2>1 DEF Return, Polls
  <2>3. Shape' /\ Work' = NoWork
    BY <2>2, ReturnIs
  <2>4. MaxCrashes > 0
    BY <1>5, BoundsAreNaturals DEF Crash, TypeOK
  <2>5. Crashes
    BY <1>5, <2>3, <2>4 DEF Crash, Crashes, NoWork, Job
  <2>6. QED
    BY <2>3, <2>5 DEF OneOf
<1>6. QED
  BY <1>1, <1>2, <1>3, <1>4, <1>5 DEF Environment

\* Every step of the daemon with one client is one of these.
LEMMA NextIs ==
  ASSUME OneClient, TypeOK, Shape, [Next]_vars
  PROVE  Shape' /\ OneOf
<1>1. CASE \E c \in Clients : Command(c)
  BY <1>1, CommandIs
<1>2. CASE Resume
  BY <1>2, ActivateGoesOnIs, SwitchGoesOnIs, RestGoesOnIs, PollIs DEF Resume
<1>3. CASE CheckHandshake
  BY <1>3, PollIs
<1>4. CASE Environment
  BY <1>4, EnvironmentIs
<1>5. CASE UNCHANGED vars
  <2>1. Shape' /\ Work' = Work
    BY <1>5, SameStackIs DEF vars
  <2>2. Keeps
    BY <1>5, <2>1 DEF vars, daemonVars, hostVars, Keeps, exclVars, ownVars
  <2>3. QED
    BY <2>1, <2>2 DEF OneOf
<1>6. QED
  BY <1>1, <1>2, <1>3, <1>4, <1>5 DEF Next

\* Initially no command is in progress.
LEMMA InitIs == ASSUME Init PROVE Shape /\ Work = NoWork
<1>1. stack = <<>>
  BY DEF Init
<1>2. Polls(stack) /\ Shape
  BY <1>1 DEF Polls, Shape
<1>3. QED
  BY <1>2 DEF Work

\* Between commands nothing is in progress.
LEMMA QuietIs == ASSUME Shape, Quiet PROVE Work.at = "status"
<1>1. CASE \A i \in 1 .. Len(stack) : stack[i].at = "poll"
  BY <1>1, WorkIsNone DEF NoWork, Job
<1>2. CASE \E i \in 1 .. Len(stack) : stack[i].at # "poll"
  BY <1>2, WorkIs DEF Quiet, Job
<1>3. QED
  BY <1>1, <1>2

-----------------------------------------------------------------------------
(* Which command can be in progress.                                       *)

\* activate works without a connection, switchServer and deactivate on the one
\* that is recorded; the route monitor exists whenever it is needed.
Control ==
  /\ conn # NoConn => rtmon
  /\ Work.at \in {"config", "peer"} => rtmon
  /\ Work.at # "name" /\ tunnel = "up" => rtmon
  /\ Work.at \in {"name", "config", "peer"} => conn = NoConn
  /\ Work.at \in {"speer", "srestore", "sdel"} =>
       conn # NoConn /\ conn.cfg = Work.old /\ Work.old.id = Work.cfg.id
  /\ Work.at = "del" => conn # NoConn /\ conn.cfg = Work.cfg

\* A configuration that is recorded is a connection.
LEMMA NewConnIs ==
  ASSUME NEW cfg \in Configs
  PROVE  [cfg |-> cfg, date |-> FALSE] # NoConn /\ [cfg |-> cfg, date |-> FALSE].cfg = cfg
<1> DEFINE r == [cfg |-> cfg, date |-> FALSE]
<1>1. r.cfg = cfg /\ NoConn.cfg = NoConfig
  BY DEF NoConn
<1>2. QED
  BY <1>1, NullsAreFresh

\* Every step keeps it.
LEMMA ControlNext ==
  ASSUME TypeOK, Shape, Control, OneOf
  PROVE  Control'
<1>1. /\ Work.at \in Waits \ {"poll"}
      /\ Work.at # "status" => Work.cfg \in Configs
      /\ Work.at \in {"speer", "srestore", "sdel"} => Work.old \in Configs
  BY WorkIsTyped
<1>2. CASE Keeps \/ Exits \/ Drops \/ Crashes
  BY <1>2 DEF Keeps, Exits, Drops, Crashes, Control, exclVars, ownVars
<1>3. CASE Opens \/ Named \/ ConfigEnds
  BY <1>3 DEF Opens, Named, ConfigEnds, Control, Job
<1>4. CASE Takes
  BY <1>4 DEF Takes, Control, Job
<1>5. CASE Connects
  BY <1>5 DEF Connects, Control
<1>6. CASE GivesBack
  BY <1>6 DEF GivesBack, Control
<1>7. CASE Switches
  BY <1>7 DEF Switches, Control, Job, ownVars
<1>8. CASE Switched
  BY <1>8 DEF Switched, Control, Job
<1>9. CASE Reverts \/ PeerGone
  BY <1>9 DEF Reverts, PeerGone, Control, Job, exclVars
<1>10. CASE Closes
  BY <1>10 DEF Closes, Control, Job
<1>11. CASE Closed
  BY <1>11 DEF Closed, DeactivateRest, Control, Job
<1>12. QED
  BY <1>2, <1>3, <1>4, <1>5, <1>6, <1>7, <1>8, <1>9, <1>10, <1>11 DEF OneOf

\* With one client, the daemon is always in such a state.
LEMMA DaemonControl == OneClient => (Spec => [](TypeOK /\ Shape /\ Control))
<1> SUFFICES ASSUME OneClient PROVE Spec => [](TypeOK /\ Shape /\ Control)
  OBVIOUS
<1>1. Init => Shape /\ Control
  <2> SUFFICES ASSUME Init PROVE Shape /\ Control
    OBVIOUS
  <2>1. Shape /\ Work.at = "status"
    BY InitIs DEF NoWork, Job
  <2>2. QED
    BY <2>1 DEF Init, Control
<1>2. TypeOK /\ Shape /\ Control /\ [Next]_vars => Shape' /\ Control'
  BY NextIs, ControlNext
<1>3. QED
  BY <1>1, <1>2, DaemonTypes, PTL DEF Spec

-----------------------------------------------------------------------------
(* The references that are held.                                           *)

\* What the recorded configuration and the command in progress refer to.
Base(p) == IF conn = NoConn THEN 0 ELSE Requested(conn.cfg)[p]
Taken(p) == IF Work.at \in {"peer", "speer", "srestore"} THEN Requested(Work.cfg)[p] ELSE 0

\* Taking the references of a configuration adds them to the counts.
LEMMA AddCounts ==
  ASSUME TypeOK, NEW cfg \in Configs, AddExclusionRoutes(cfg), NEW p \in Prefixes
  PROVE  /\ Count(p) \in Nat /\ Requested(cfg)[p] \in Nat
         /\ Count(p)' = Count(p) + Requested(cfg)[p]
<1>1. Count(p) \in Nat /\ Requested(cfg)[p] \in Nat
  BY RequestedIsTyped DEF TypeOK, Count, Absent
<1>2. excl'[p] = IF Requested(cfg)[p] = 0 THEN excl[p] ELSE Count(p) + Requested(cfg)[p]
  BY DEF AddExclusionRoutes
<1>3. QED
  BY <1>1, <1>2 DEF Count, Absent

\* Giving references back leaves the others.
LEMMA DelCounts ==
  ASSUME TypeOK, NEW n \in [Prefixes -> Nat], excl' = ExclAfterDel(n), NEW p \in Prefixes
  PROVE  /\ Count(p) \in Nat /\ Count(p)' \in Nat
         /\ Count(p)' >= Count(p) - n[p]
<1>1. Count(p) \in Nat /\ n[p] \in Nat
  BY DEF TypeOK, Count, Absent
<1>2. excl'[p] = IF n[p] = 0 THEN excl[p]
                 ELSE IF n[p] < Count(p) THEN Count(p) - n[p]
                 ELSE IF CanRouteAround THEN Absent
                 ELSE IF Count(p) = 0 THEN 0 ELSE 1
  BY DEF ExclAfterDel
<1>3. QED
  BY <1>1, <1>2 DEF Count, Absent

\* The counts cover the connection and the command; no switch deletes a peer.
Holds ==
  /\ Work.at # "sdel"
  /\ \A p \in Prefixes : Count(p) >= Base(p) + Taken(p)

\* Every step keeps it.
LEMMA HoldsNext ==
  ASSUME SwitchesKeepServer, TypeOK, Shape, Control, Holds, OneOf
  PROVE  Holds'
<1>1. /\ Work.at \in Waits \ {"poll"}
      /\ Work.at # "status" => Work.cfg \in Configs
      /\ Work.at \in {"speer", "srestore", "sdel"} => Work.old \in Configs
  BY WorkIsTyped
<1>2. conn # NoConn => conn.cfg \in Configs
  BY DEF TypeOK
<1>3. \A cfg \in Configs : Requested(cfg) \in [Prefixes -> Nat] /\ HostOnly(cfg) \in [Prefixes -> Nat]
  BY RequestedIsTyped
<1>4. \A p \in Prefixes : Base(p) \in Nat /\ Taken(p) \in Nat
  BY <1>1, <1>2, <1>3 DEF Base, Taken
<1>5. CASE Keeps \/ Exits \/ Drops
  BY <1>5 DEF Keeps, Exits, Drops, Holds, Base, Taken, Count, exclVars, ownVars
<1>6. CASE Crashes
  BY <1>6 DEF Crashes, Holds, Base, Taken, Count, Absent
<1>7. CASE Opens \/ Named \/ ConfigEnds
  BY <1>7, <1>4 DEF Opens, Named, ConfigEnds, Holds, Base, Taken, Count, Job, exclVars
<1>8. CASE Takes
  <2>1. PICK cfg \in Configs :
          /\ Work.at \in {"status", "config"} /\ AddExclusionRoutes(cfg)
          /\ Work' = Job("peer", cfg, NoConfig)
    BY <1>8 DEF Takes
  <2>2. \A p \in Prefixes : /\ Count(p) \in Nat /\ Requested(cfg)[p] \in Nat
                            /\ Count(p)' = Count(p) + Requested(cfg)[p]
    BY <2>1, AddCounts
  <2>3. \A p \in Prefixes : Base(p)' = Base(p) /\ Taken(p)' = Requested(cfg)[p] /\ Taken(p) = 0
    BY <1>8, <2>1 DEF Takes, Base, Taken, Job
  <2>4. Work'.at = "peer"
    BY <2>1 DEF Job
  <2>5. QED
    BY <1>4, <2>2, <2>3, <2>4 DEF Holds
<1>9. CASE Connects
  <2>1. conn' # NoConn /\ conn'.cfg = Work.cfg
    BY <1>1, <1>9, NewConnIs DEF Connects
  <2>2. conn = NoConn
    BY <1>9 DEF Control, Connects
  <2>3. \A p \in Prefixes : /\ Base(p) = 0 /\ Base(p)' = Taken(p) /\ Taken(p)' = 0
                            /\ Count(p)' = Count(p)
    BY <1>9, <2>1, <2>2 DEF Connects, Base, Taken, Count, exclVars
  <2>4. QED
    BY <1>4, <1>9, <2>3 DEF Holds, Connects
<1>10. CASE GivesBack
  <2>1. Work.cfg \in Configs /\ excl' = ExclAfterDel(Requested(Work.cfg))
    BY <1>1, <1>10 DEF GivesBack, DelExclusionRoutes
  <2>2. \A p \in Prefixes : /\ Count(p) \in Nat /\ Count(p)' \in Nat
                            /\ Count(p)' >= Count(p) - Requested(Work.cfg)[p]
    BY <1>3, <2>1, DelCounts
  <2>3. \A p \in Prefixes : /\ Base(p)' = Base(p) /\ Taken(p)' = 0
                            /\ Taken(p) = Requested(Work.cfg)[p]
    BY <1>10 DEF GivesBack, Base, Taken
  <2>4. QED
    BY <1>4, <1>10, <2>2, <2>3 DEF Holds, GivesBack
<1>11. CASE Switches
  <2>1. PICK cfg \in Configs : /\ AddExclusionRoutes(cfg)
                               /\ Work' = Job("speer", cfg, conn.cfg)
    BY <1>11 DEF Switches
  <2>2. \A p \in Prefixes : /\ Count(p) \in Nat /\ Requested(cfg)[p] \in Nat
                            /\ Count(p)' = Count(p) + Requested(cfg)[p]
    BY <2>1, AddCounts
  <2>3. \A p \in Prefixes : Base(p)' = Base(p) /\ Taken(p)' = Requested(cfg)[p] /\ Taken(p) = 0
    BY <1>11, <2>1 DEF Switches, Base, Taken, Job
  <2>4. Work'.at = "speer"
    BY <2>1 DEF Job
  <2>5. QED
    BY <1>4, <2>2, <2>3, <2>4 DEF Holds
<1>12. CASE Switched
  <2>1. Work.cfg \in Configs /\ Work.old \in Configs /\ Work.old.id = Work.cfg.id
    BY <1>1, <1>12 DEF Switched, Control
  <2>2. Work.cfg.pub = Work.old.pub
    BY <2>1 DEF SwitchesKeepServer
  <2>3. Work'.at = "status" /\ conn' # NoConn /\ conn'.cfg = Work.cfg
    BY <1>12, <2>1, <2>2, NewConnIs DEF Switched
  <2>4. \A p \in Prefixes : /\ Count(p) \in Nat /\ Count(p)' \in Nat
                            /\ Count(p)' >= Count(p) - HostOnly(Work.old)[p]
    BY <1>3, <1>12, <2>1, DelCounts DEF Switched
  <2>5. \A p \in Prefixes : HostOnly(Work.old)[p] <= Requested(Work.old)[p]
    BY <2>1, ConfigsAreConfigs DEF HostOnly, Requested, InterfaceConfig
  <2>6. \A p \in Prefixes : /\ Base(p) = Requested(Work.old)[p] /\ Taken(p) = Requested(Work.cfg)[p]
                            /\ Base(p)' = Requested(Work.cfg)[p] /\ Taken(p)' = 0
    BY <1>12, <2>3 DEF Switched, Control, Base, Taken
  <2>7. ASSUME NEW p \in Prefixes PROVE Count(p)' >= Base(p)' + Taken(p)'
    <3>1. /\ HostOnly(Work.old)[p] \in Nat /\ Requested(Work.old)[p] \in Nat
          /\ Requested(Work.cfg)[p] \in Nat
      BY <1>3, <2>1
    <3>2. Count(p) >= Requested(Work.old)[p] + Requested(Work.cfg)[p]
      BY <2>6 DEF Holds
    <3>3. Count(p)' >= Requested(Work.cfg)[p]
      BY <2>4, <2>5, <3>1, <3>2
    <3>4. QED
      BY <2>6, <3>1, <3>3
  <2>8. QED
    BY <2>3, <2>7 DEF Holds
<1>13. CASE Reverts
  BY <1>13 DEF Reverts, Holds, Base, Taken, Count, Job
<1>14. CASE PeerGone
  BY <1>14 DEF PeerGone, Holds
<1>15. CASE Closes
  BY <1>15 DEF Closes, Holds, Base, Taken, Count, Job
<1>16. CASE Closed
  <2>1. conn' = NoConn /\ excl' = [p \in Prefixes |-> Absent] /\ Work'.at \in {"status", "name"}
    BY <1>16 DEF Closed, DeactivateRest, Job
  <2>2. QED
    BY <2>1 DEF Holds, Base, Taken, Count, Absent
<1>17. QED
  BY <1>5, <1>6, <1>7, <1>8, <1>9, <1>10, <1>11, <1>12, <1>13, <1>14, <1>15, <1>16 DEF OneOf

\* With one client, and however tunnel, gateway and service fail: when no
\* command is in progress, each address the recorded configuration excludes is
\* referenced at least as often as it lists it, so a later command cannot drop
\* its route.
THEOREM DaemonHoldsExclusions ==
  OneClient /\ SwitchesKeepServer => (Spec => []ExclusionsAreHeld)
<1> SUFFICES ASSUME OneClient, SwitchesKeepServer PROVE Spec => []ExclusionsAreHeld
  OBVIOUS
<1>1. Init => Holds
  <2> SUFFICES ASSUME Init PROVE Holds
    OBVIOUS
  <2>1. Work.at = "status"
    BY InitIs DEF NoWork, Job
  <2>2. QED
    BY <2>1 DEF Init, Holds, Base, Taken, Count, Absent
<1>2. TypeOK /\ Shape /\ Control /\ Holds /\ [Next]_vars => Holds'
  BY NextIs, HoldsNext
<1>3. TypeOK /\ Shape /\ Holds => ExclusionsAreHeld
  <2> SUFFICES ASSUME TypeOK, Shape, Holds, Quiet, conn # NoConn, NEW p \in Prefixes
               PROVE  Count(p) >= Requested(conn.cfg)[p]
    BY DEF ExclusionsAreHeld
  <2>1. Work.at = "status"
    BY QuietIs
  <2>2. Requested(conn.cfg)[p] \in Nat
    BY RequestedIsTyped DEF TypeOK
  <2>3. QED
    BY <2>1, <2>2 DEF Holds, Base, Taken
<1>4. QED
  BY <1>1, <1>2, <1>3, DaemonControl, PTL DEF Spec

-----------------------------------------------------------------------------
(* With a gateway, no reference is lost, and those that can be read are    *)
(* exact.                                                                  *)

\* The table has what the connection and the command refer to, and more only
\* where a switch of this connection could not read an address; no key has no
\* reference.
Exact ==
  /\ Work.at # "sdel" /\ ExclusionIsKnown /\ gw
  /\ \A p \in Prefixes :
       /\ excl[p] # 0
       /\ Count(p) >= Base(p) + Taken(p)
       /\ conn = NoConn \/ Readable(p) => Count(p) = Base(p) + Taken(p)

\* What the entries and the counts of the table say of each other.
LEMMA EntryIs ==
  ASSUME TypeOK, NEW p \in Prefixes, excl[p] # 0
  PROVE  Count(p) \in Nat /\ (excl[p] = Absent <=> Count(p) = 0)
  BY DEF TypeOK, Count, Absent

\* Taking references of a configuration leaves no key without a reference.
LEMMA AddIsExact ==
  ASSUME TypeOK, NEW cfg \in Configs, AddExclusionRoutes(cfg), NEW p \in Prefixes, excl[p] # 0
  PROVE  excl'[p] # 0 /\ Count(p)' = Count(p) + Requested(cfg)[p]
<1>1. /\ Count(p) \in Nat /\ Requested(cfg)[p] \in Nat
      /\ Count(p)' = Count(p) + Requested(cfg)[p]
  BY AddCounts
<1>2. excl'[p] = IF Requested(cfg)[p] = 0 THEN excl[p] ELSE Count(p) + Requested(cfg)[p]
  BY DEF AddExclusionRoutes
<1>3. QED
  BY <1>1, <1>2

\* So does giving them back, and none is missing then.
LEMMA DelIsExact ==
  ASSUME TypeOK, NEW n \in [Prefixes -> Nat], CanRouteAround, excl' = ExclAfterDel(n),
         NEW p \in Prefixes, excl[p] # 0, n[p] <= Count(p)
  PROVE  /\ excl'[p] # 0 /\ Count(p)' = Count(p) - n[p]
         /\ ~(n[p] > 0 /\ (excl[p] = Absent \/ (n[p] > Count(p) /\ n[p] > 1)))
         /\ excl'[p] = Absent <=> excl[p] = Absent \/ (n[p] > 0 /\ n[p] >= Count(p))
<1>1. n[p] \in Nat /\ Count(p) \in Nat /\ (excl[p] = Absent <=> Count(p) = 0)
  BY EntryIs
<1>2. excl'[p] = IF n[p] = 0 THEN excl[p]
                 ELSE IF n[p] < Count(p) THEN Count(p) - n[p] ELSE Absent
  BY DEF ExclAfterDel
<1>3. Count(p)' = IF excl'[p] = Absent THEN 0 ELSE excl'[p]
  BY DEF Count
<1>4. excl[p] # Absent => excl[p] = Count(p)
  BY DEF Count
<1>5. QED
  BY <1>1, <1>2, <1>3, <1>4 DEF Absent

\* A step that changes neither what is held nor what is referred to.
LEMMA ExactKept ==
  ASSUME Exact, UNCHANGED <<excl, asserted, gw>>, conn' = NoConn => conn = NoConn,
         Work'.at # "sdel",
         \A p \in Prefixes : Base(p)' + Taken(p)' = Base(p) + Taken(p)
  PROVE  Exact'
<1>1. \A p \in Prefixes : Count(p)' = Count(p) /\ Readable(p)' = Readable(p)
  BY DEF Count, Readable
<1>2. QED
  BY <1>1 DEF Exact, ExclusionIsKnown

\* Every step keeps the table exact.
LEMMA ExactNext ==
  ASSUME SwitchesKeepServer, MaxDrops = 0, TypeOK, Shape, Control, Exact, OneOf
  PROVE  Exact'
<1>1. /\ Work.at \in Waits \ {"poll"}
      /\ Work.at # "status" => Work.cfg \in Configs
      /\ Work.at \in {"speer", "srestore", "sdel"} => Work.old \in Configs
  BY WorkIsTyped
<1>2. conn # NoConn => conn.cfg \in Configs
  BY DEF TypeOK
<1>3. \A cfg \in Configs : Requested(cfg) \in [Prefixes -> Nat] /\ HostOnly(cfg) \in [Prefixes -> Nat]
  BY RequestedIsTyped
<1>4. \A p \in Prefixes : Base(p) \in Nat /\ Taken(p) \in Nat /\ Count(p) \in Nat
  BY <1>1, <1>2, <1>3 DEF Base, Taken, TypeOK, Count, Absent
<1>5. CASE Keeps \/ Exits
  <2>1. /\ UNCHANGED <<excl, asserted, gw>> /\ Work'.at # "sdel"
        /\ conn' = NoConn => conn = NoConn
    BY <1>5 DEF Keeps, Exits, exclVars, Exact
  <2>2. \A p \in Prefixes : Base(p)' = Base(p) /\ Taken(p)' = Taken(p)
    BY <1>5 DEF Keeps, Exits, Base, Taken
  <2>3. QED
    BY <2>1, <2>2, ExactKept
<1>6. CASE Drops
  BY <1>6 DEF Drops, Exact
<1>7. CASE Crashes \/ Closed
  <2>1. /\ conn' = NoConn /\ excl' = [p \in Prefixes |-> Absent]
        /\ Work'.at \in {"status", "name"} /\ UNCHANGED <<asserted, gw>>
    BY <1>7 DEF Crashes, Closed, DeactivateRest, Job
  <2>2. \A p \in Prefixes : Count(p)' = 0 /\ Base(p)' = 0 /\ Taken(p)' = 0 /\ excl'[p] # 0
    BY <2>1 DEF Count, Base, Taken, Absent
  <2>3. QED
    BY <2>1, <2>2 DEF Exact, ExclusionIsKnown
<1>8. CASE Opens \/ Named \/ ConfigEnds
  <2>1. Work.at \in {"status", "name", "config"} /\ Work'.at \in {"status", "name", "config"}
    BY <1>8 DEF Opens, Named, ConfigEnds, Job
  <2>2. UNCHANGED <<conn, excl, asserted, gw>>
    BY <1>8 DEF Opens, Named, ConfigEnds, exclVars
  <2>3. \A p \in Prefixes : Base(p)' = Base(p) /\ Taken(p)' = Taken(p)
    BY <2>1, <2>2 DEF Base, Taken
  <2>4. QED
    BY <2>1, <2>2, <2>3, ExactKept
<1>9. CASE Takes \/ Switches
  <2>1. PICK cfg \in Configs :
          /\ AddExclusionRoutes(cfg)
          /\ Work'.at \in {"peer", "speer"} /\ Work'.cfg = cfg
    BY <1>9 DEF Takes, Switches, Job
  <2>2. UNCHANGED <<conn, asserted, gw>> /\ Work.at \in {"status", "config"}
    BY <1>9 DEF Takes, Switches
  <2>3. \A p \in Prefixes : Base(p)' = Base(p) /\ Taken(p)' = Requested(cfg)[p] /\ Taken(p) = 0
    BY <2>1, <2>2 DEF Base, Taken
  <2>4. \A p \in Prefixes : excl'[p] # 0 /\ Count(p)' = Count(p) + Requested(cfg)[p]
    BY <2>1, AddIsExact DEF Exact
  <2>5. ASSUME NEW p \in Prefixes
        PROVE  /\ Count(p)' >= Base(p)' + Taken(p)'
               /\ conn = NoConn \/ Readable(p) => Count(p)' = Base(p)' + Taken(p)'
    <3>1. Requested(cfg)[p] \in Nat
      BY <1>3
    <3>2. /\ Count(p) >= Base(p)
          /\ conn = NoConn \/ Readable(p) => Count(p) = Base(p)
      BY <1>4, <2>3 DEF Exact
    <3>3. QED
      BY <1>4, <2>3, <2>4, <3>1, <3>2
  <2>6. QED
    BY <2>1, <2>2, <2>4, <2>5 DEF Exact, ExclusionIsKnown, Readable
<1>10. CASE Connects
  <2>1. conn' # NoConn /\ conn'.cfg = Work.cfg
    BY <1>1, <1>10, NewConnIs DEF Connects
  <2>2. conn = NoConn
    BY <1>10 DEF Control, Connects
  <2>3. \A p \in Prefixes : /\ Base(p) = 0 /\ Base(p)' = Taken(p) /\ Taken(p)' = 0
    BY <1>10, <2>1, <2>2 DEF Connects, Base, Taken
  <2>4. \A p \in Prefixes : Base(p)' + Taken(p)' = Base(p) + Taken(p)
    BY <1>4, <2>3
  <2>5. UNCHANGED <<excl, asserted, gw>> /\ Work'.at # "sdel"
    BY <1>10 DEF Connects, exclVars
  <2>6. QED
    BY <2>1, <2>4, <2>5, ExactKept
<1>11. CASE GivesBack
  <2> DEFINE n == Requested(Work.cfg)
  <2>1. n \in [Prefixes -> Nat] /\ DelExclusionRoutes(n)
    BY <1>1, <1>3, <1>11 DEF GivesBack
  <2>2. CanRouteAround
    BY <1>11 DEF GivesBack, Control, Exact, CanRouteAround
  <2>3. \A p \in Prefixes : Base(p)' = Base(p) /\ Taken(p)' = 0 /\ Taken(p) = n[p]
    BY <1>11 DEF GivesBack, Base, Taken
  <2>4. UNCHANGED <<conn, gw>> /\ Work'.at = "status"
    BY <1>11 DEF GivesBack
  <2> HIDE DEF n
  <2>5. \A p \in Prefixes : n[p] <= Count(p)
    BY <1>4, <2>1, <2>3 DEF Exact
  <2>6. \A p \in Prefixes :
          /\ excl'[p] # 0 /\ Count(p)' = Count(p) - n[p]
          /\ ~(n[p] > 0 /\ (excl[p] = Absent \/ (n[p] > Count(p) /\ n[p] > 1)))
    BY <2>1, <2>2, <2>5, DelIsExact DEF DelExclusionRoutes, Exact
  <2>7. ExclusionIsKnown'
    BY <2>1, <2>6 DEF DelExclusionRoutes, DelAsserts, Exact, ExclusionIsKnown
  <2>8. ASSUME NEW p \in Prefixes
        PROVE  /\ Count(p)' >= Base(p)' + Taken(p)'
               /\ conn = NoConn \/ Readable(p) => Count(p)' = Base(p)' + Taken(p)'
    <3>1. /\ Count(p) >= Base(p) + n[p]
          /\ conn = NoConn \/ Readable(p) => Count(p) = Base(p) + n[p]
      BY <2>3 DEF Exact
    <3>2. n[p] \in Nat
      BY <2>1
    <3>3. QED
      BY <1>4, <2>3, <2>6, <3>1, <3>2
  <2>9. QED
    BY <2>4, <2>6, <2>7, <2>8 DEF Exact, Readable
<1>12. CASE Switched
  <2> DEFINE n == HostOnly(Work.old)
  <2>1. Work.cfg \in Configs /\ Work.old \in Configs /\ Work.old.id = Work.cfg.id
    BY <1>1, <1>12 DEF Switched, Control
  <2>2. Work.cfg.pub = Work.old.pub
    BY <2>1 DEF SwitchesKeepServer
  <2>3. Work'.at = "status" /\ conn' # NoConn /\ conn'.cfg = Work.cfg /\ gw' = gw
    BY <1>12, <2>1, <2>2, NewConnIs DEF Switched
  <2>4. CanRouteAround
    BY <1>12 DEF Switched, Control, Exact, CanRouteAround
  <2>5. \A p \in Prefixes : /\ n[p] \in Nat /\ n[p] <= Requested(Work.old)[p]
                            /\ Readable(p) => n[p] = Requested(Work.old)[p]
    BY <2>1, ConfigsAreConfigs DEF HostOnly, Requested, InterfaceConfig, Readable
  <2>6. \A p \in Prefixes : /\ Base(p) = Requested(Work.old)[p] /\ Taken(p) = Requested(Work.cfg)[p]
                            /\ Base(p)' = Requested(Work.cfg)[p] /\ Taken(p)' = 0
    BY <1>12, <2>3 DEF Switched, Control, Base, Taken
  <2>7. n \in [Prefixes -> Nat]
    BY <1>3, <2>1
  <2>8. excl' = ExclAfterDel(n) /\ (~DelAsserts(n) => ExclusionIsKnown')
    BY <1>12 DEF Switched, Exact
  <2> HIDE DEF n
  <2>9. \A p \in Prefixes : n[p] <= Count(p)
    <3> TAKE p \in Prefixes
    <3>1. Count(p) >= Base(p) + Taken(p) /\ n[p] <= Base(p)
      BY <2>5, <2>6 DEF Exact
    <3>2. QED
      BY <1>4, <2>5, <3>1
  <2>10. \A p \in Prefixes :
          /\ excl'[p] # 0 /\ Count(p)' = Count(p) - n[p]
          /\ ~(n[p] > 0 /\ (excl[p] = Absent \/ (n[p] > Count(p) /\ n[p] > 1)))
    BY <2>4, <2>7, <2>8, <2>9, DelIsExact DEF Exact
  <2>11. ExclusionIsKnown'
    BY <2>8, <2>10 DEF DelAsserts
  <2>12. ASSUME NEW p \in Prefixes
         PROVE  /\ Count(p)' >= Base(p)' + Taken(p)'
                /\ Readable(p) => Count(p)' = Base(p)' + Taken(p)'
    <3>1. /\ Count(p) >= Base(p) + Taken(p)
          /\ Readable(p) => Count(p) = Base(p) + Taken(p)
      BY DEF Exact
    <3>2. n[p] \in Nat /\ n[p] <= Base(p) /\ (Readable(p) => n[p] = Base(p))
      BY <2>5, <2>6
    <3>3. Base(p)' = Taken(p) /\ Taken(p)' = 0
      BY <2>6
    <3>4. QED
      BY <1>4, <2>10, <3>1, <3>2, <3>3
  <2>13. QED
    BY <2>3, <2>10, <2>11, <2>12 DEF Exact, Readable
<1>13. CASE Reverts \/ Closes
  <2>1. UNCHANGED <<conn, excl, asserted, gw>> /\ Work'.at # "sdel"
    BY <1>13 DEF Reverts, Closes, Job
  <2>2. \A p \in Prefixes : Base(p)' = Base(p) /\ Taken(p)' = Taken(p)
    BY <1>13 DEF Reverts, Closes, Base, Taken, Job
  <2>3. QED
    BY <2>1, <2>2, ExactKept
<1>14. CASE PeerGone
  BY <1>14 DEF PeerGone, Exact
<1>15. QED
  BY <1>5, <1>6, <1>7, <1>8, <1>9, <1>10, <1>11, <1>12, <1>13, <1>14 DEF OneOf

\* As long as there is a gateway, the references cover the connection and the
\* command in progress.
LEMMA DaemonExact ==
  OneClient /\ SwitchesKeepServer /\ MaxDrops = 0
    => (Spec => [](TypeOK /\ Shape /\ Control /\ Exact))
<1> SUFFICES ASSUME OneClient, SwitchesKeepServer, MaxDrops = 0
             PROVE  Spec => [](TypeOK /\ Shape /\ Control /\ Exact)
  OBVIOUS
<1>1. Init => Exact
  <2> SUFFICES ASSUME Init PROVE Exact
    OBVIOUS
  <2>1. Work.at = "status"
    BY InitIs DEF NoWork, Job
  <2>2. QED
    BY <2>1 DEF Init, Exact, Base, Taken, Count, Absent, ExclusionIsKnown
<1>2. TypeOK /\ Shape /\ Control /\ Exact /\ [Next]_vars => Exact'
  BY NextIs, ExactNext
<1>3. QED
  BY <1>1, <1>2, DaemonControl, PTL DEF Spec

\* With one client whose switches keep the server, and a gateway that stays: no
\* command gives back a reference that is not held, whatever configurations,
\* with or without prefix lengths, commands, failures, exits of the tunnel and
\* crashes follow each other.
THEOREM DaemonExclusionIsKnown ==
  OneClient /\ SwitchesKeepServer /\ MaxDrops = 0 => (Spec => []ExclusionIsKnown)
<1> SUFFICES ASSUME OneClient, SwitchesKeepServer, MaxDrops = 0
             PROVE  Spec => []ExclusionIsKnown
  OBVIOUS
<1>1. Exact => ExclusionIsKnown
  BY DEF Exact
<1>2. QED
  BY <1>1, DaemonExact, PTL

-----------------------------------------------------------------------------
(* The routes are those of the references.                                 *)

Counted == {p \in Prefixes : excl[p] # Absent}

\* Only a deactivate in progress has deleted one more, that of the server.
Routed == xroutes = Counted \ (IF Work.at = "del" THEN {Work.cfg.host} ELSE {})

\* The server of a configuration is one of the addresses it excludes.
LEMMA HostIsRequested ==
  ASSUME ServerIsExcluded, NEW cfg \in Configs
  PROVE  cfg.host \in Prefixes /\ Requested(cfg)[cfg.host] > 0
<1>1. /\ cfg.host \in Prefixes /\ cfg.plain[cfg.host] \in Nat /\ cfg.cidr[cfg.host] \in Nat
      /\ cfg.plain[cfg.host] > 0
  BY ConfigsAreConfigs DEF InterfaceConfig, ServerIsExcluded
<1>2. QED
  BY <1>1 DEF Requested

\* Every step keeps the routes in line.
LEMMA RoutedNext ==
  ASSUME SwitchesKeepServer, ServerIsExcluded, MaxDrops = 0, MaxCrashes = 0,
         TypeOK, Shape, Control, Exact, Routed, OneOf
  PROVE  Routed'
<1>1. /\ Work.at \in Waits \ {"poll"}
      /\ Work.at # "status" => Work.cfg \in Configs
      /\ Work.at \in {"speer", "srestore", "sdel"} => Work.old \in Configs
  BY WorkIsTyped
<1>2. conn # NoConn => conn.cfg \in Configs
  BY DEF TypeOK
<1>3. \A cfg \in Configs : Requested(cfg) \in [Prefixes -> Nat] /\ HostOnly(cfg) \in [Prefixes -> Nat]
  BY RequestedIsTyped
<1>4. \A p \in Prefixes : Base(p) \in Nat /\ Taken(p) \in Nat
  BY <1>1, <1>2, <1>3 DEF Base, Taken
<1>5. CASE Keeps \/ Exits
  <2>1. UNCHANGED <<excl, xroutes>>
    BY <1>5 DEF Keeps, Exits, exclVars
  <2>2. Work' = Work \/ (Work.at = "status" /\ Work'.at = "status")
    BY <1>5 DEF Keeps, Exits
  <2>3. QED
    BY <2>1, <2>2 DEF Routed, Counted
<1>6. CASE Drops \/ Crashes
  BY <1>6 DEF Drops, Crashes, Exact
<1>7. CASE Opens \/ Named \/ ConfigEnds \/ Connects
  <2>1. Work.at # "del" /\ Work'.at # "del"
    BY <1>7 DEF Opens, Named, ConfigEnds, Connects, Job
  <2>2. UNCHANGED <<excl, xroutes>>
    BY <1>7 DEF Opens, Named, ConfigEnds, Connects, exclVars
  <2>3. QED
    BY <2>1, <2>2 DEF Routed, Counted
<1>8. CASE Takes \/ Switches
  <2>1. PICK cfg \in Configs : AddExclusionRoutes(cfg) /\ Work'.at \in {"peer", "speer"}
    BY <1>8 DEF Takes, Switches, Job
  <2>2. CanRouteAround
    BY <1>8 DEF Takes, Switches, Control, Exact, CanRouteAround
  <2>3. xroutes = Counted
    BY <1>8 DEF Takes, Switches, Routed
  <2>4. xroutes' = Counted \cup NewPrefixes(cfg) \cup {cfg.host}
    BY <2>1, <2>2, <2>3 DEF AddExclusionRoutes
  <2>5. ASSUME NEW p \in Prefixes
        PROVE  excl'[p] # Absent <=> excl[p] # Absent \/ Requested(cfg)[p] > 0
    <3>1. Count(p) \in Nat /\ Requested(cfg)[p] \in Nat
      BY <1>3 DEF TypeOK, Count, Absent
    <3>2. excl'[p] = IF Requested(cfg)[p] = 0 THEN excl[p] ELSE Count(p) + Requested(cfg)[p]
      BY <2>1 DEF AddExclusionRoutes
    <3>3. QED
      BY <3>1, <3>2 DEF Absent
  <2>6. cfg.host \in Prefixes /\ Requested(cfg)[cfg.host] > 0
    BY HostIsRequested
  <2>7. Counted' = Counted \cup NewPrefixes(cfg) \cup {cfg.host}
    BY <2>5, <2>6 DEF Counted, NewPrefixes
  <2>8. QED
    BY <2>1, <2>4, <2>7 DEF Routed
<1>9. ASSUME NEW n \in [Prefixes -> Nat], CanRouteAround,
             excl' = ExclAfterDel(n), xroutes' = RoutesAfterDel(n),
             \A p \in Prefixes : n[p] <= Count(p),
             Work.at # "del", Work'.at # "del"
      PROVE  Routed'
  <2>1. \A p \in Prefixes :
          excl'[p] = Absent <=> excl[p] = Absent \/ (n[p] > 0 /\ n[p] >= Count(p))
    BY <1>9, DelIsExact DEF Exact
  <2>2. xroutes' = Counted \ {p \in Prefixes : n[p] > 0 /\ n[p] >= Count(p)}
    BY <1>9 DEF RoutesAfterDel, Routed
  <2>3. Counted' = Counted \ {p \in Prefixes : n[p] > 0 /\ n[p] >= Count(p)}
    BY <2>1 DEF Counted
  <2>4. QED
    BY <1>9, <2>2, <2>3 DEF Routed
<1>10. CASE GivesBack
  <2> DEFINE n == Requested(Work.cfg)
  <2>1. n \in [Prefixes -> Nat]
    BY <1>1, <1>3, <1>10 DEF GivesBack
  <2>2. CanRouteAround
    BY <1>10 DEF GivesBack, Control, Exact, CanRouteAround
  <2>3. \A p \in Prefixes : Count(p) >= Base(p) + n[p]
    BY <1>10 DEF GivesBack, Exact, Taken
  <2>4. /\ excl' = ExclAfterDel(n) /\ xroutes' = RoutesAfterDel(n)
        /\ Work.at # "del" /\ Work'.at # "del"
    BY <1>10 DEF GivesBack, DelExclusionRoutes
  <2> HIDE DEF n
  <2>5. \A p \in Prefixes : n[p] <= Count(p)
    <3> TAKE p \in Prefixes
    <3>1. Count(p) \in Nat
      BY DEF TypeOK, Count, Absent
    <3>2. Base(p) \in Nat /\ n[p] \in Nat /\ Count(p) >= Base(p) + n[p]
      BY <1>4, <2>1, <2>3
    <3>3. QED
      BY <3>1, <3>2
  <2>6. QED
    BY <1>9, <2>1, <2>2, <2>4, <2>5
<1>11. CASE Switched
  <2> DEFINE n == HostOnly(Work.old)
  <2>1. Work.cfg \in Configs /\ Work.old \in Configs /\ Work.old.id = Work.cfg.id
    BY <1>1, <1>11 DEF Switched, Control
  <2>2. Work.cfg.pub = Work.old.pub
    BY <2>1 DEF SwitchesKeepServer
  <2>3. n \in [Prefixes -> Nat]
    BY <1>3, <2>1
  <2>4. CanRouteAround
    BY <1>11 DEF Switched, Control, Exact, CanRouteAround
  <2>5. \A p \in Prefixes : n[p] <= Requested(Work.old)[p]
    BY <2>1, ConfigsAreConfigs DEF HostOnly, Requested, InterfaceConfig
  <2>6. \A p \in Prefixes : Base(p) = Requested(Work.old)[p]
    BY <1>11 DEF Switched, Control, Base
  <2>7. /\ excl' = ExclAfterDel(n) /\ xroutes' = RoutesAfterDel(n)
        /\ Work.at # "del" /\ Work'.at # "del"
    BY <1>11, <2>2 DEF Switched
  <2> HIDE DEF n
  <2>8. \A p \in Prefixes : n[p] <= Count(p)
    <3> TAKE p \in Prefixes
    <3>1. Count(p) >= Base(p) + Taken(p) /\ n[p] <= Base(p)
      BY <2>5, <2>6 DEF Exact
    <3>2. Count(p) \in Nat
      BY DEF TypeOK, Count, Absent
    <3>3. Base(p) \in Nat /\ Taken(p) \in Nat /\ n[p] \in Nat
      BY <1>4, <2>3
    <3>4. QED
      BY <3>1, <3>2, <3>3
  <2>9. QED
    BY <1>9, <2>3, <2>4, <2>7, <2>8
<1>12. CASE Reverts
  <2>1. Work.old \in Configs /\ conn # NoConn /\ conn.cfg = Work.old
    BY <1>1, <1>12 DEF Reverts, Control
  <2>2. Work.old.host \in Prefixes /\ Requested(Work.old)[Work.old.host] > 0
    BY <2>1, HostIsRequested
  <2>3. Work.old.host \in Counted
    <3> DEFINE h == Work.old.host
    <3>1. Base(h) = Requested(Work.old)[h] /\ Base(h) \in Nat /\ Taken(h) \in Nat
      BY <1>4, <2>1, <2>2 DEF Base
    <3>2. Count(h) >= Base(h) + Taken(h) /\ Base(h) > 0
      BY <2>2, <3>1 DEF Exact
    <3>3. excl[h] # Absent
      BY <3>1, <3>2 DEF Count
    <3>4. QED
      BY <2>2, <3>3 DEF Counted
  <2>4. Work.at # "del" /\ Work'.at # "del" /\ excl' = excl
    BY <1>12 DEF Reverts, Job
  <2>5. QED
    BY <1>12, <2>3, <2>4 DEF Reverts, Routed, Counted
<1>13. CASE PeerGone
  BY <1>13 DEF PeerGone, Exact
<1>14. CASE Closes
  <2>1. CanRouteAround
    BY <1>14 DEF Closes, Control, Exact, CanRouteAround
  <2>2. Work.at # "del" /\ Work'.at = "del" /\ Work'.cfg = conn.cfg /\ excl' = excl
    BY <1>14 DEF Closes, Job
  <2>3. QED
    BY <1>14, <2>1, <2>2 DEF Closes, Routed, Counted
<1>15. CASE Closed
  <2>1. xroutes' = {}
    <3>1. CASE CanRouteAround
      BY <1>15, <3>1 DEF Closed, DeactivateRest, Routed, Counted
    <3>2. CASE ~CanRouteAround
      <4>1. conn = NoConn /\ Work.at = "status"
        BY <1>15, <3>2 DEF Closed, Control, Exact, CanRouteAround
      <4>2. \A p \in Prefixes : excl[p] = Absent
        BY <4>1, EntryIs DEF Exact, Base, Taken
      <4>3. QED
        BY <1>15, <3>2, <4>1, <4>2 DEF Closed, DeactivateRest, Routed, Counted
    <3>3. QED
      BY <3>1, <3>2
  <2>2. Counted' = {}
    BY <1>15 DEF Closed, DeactivateRest, Counted
  <2>3. QED
    BY <2>1, <2>2 DEF Routed
<1>16. QED
  BY <1>5, <1>6, <1>7, <1>8, <1>10, <1>11, <1>12, <1>13, <1>14, <1>15 DEF OneOf

\* The constants of an installation whose gateway stays and whose service does
\* not crash, and where the one client excludes its server and switches only to
\* another list of the same server.
Undisturbed ==
  /\ OneClient /\ SwitchesKeepServer /\ ServerIsExcluded
  /\ MaxDrops = 0 /\ MaxCrashes = 0

\* There the routes are those of the references.
LEMMA DaemonRouted ==
  Undisturbed => (Spec => [](TypeOK /\ Shape /\ Control /\ Exact /\ Routed))
<1> SUFFICES ASSUME Undisturbed PROVE Spec => [](TypeOK /\ Shape /\ Control /\ Exact /\ Routed)
  OBVIOUS
<1> USE DEF Undisturbed
<1>1. Init => Routed
  <2> SUFFICES ASSUME Init PROVE Routed
    OBVIOUS
  <2>1. Work.at = "status"
    BY InitIs DEF NoWork, Job
  <2>2. QED
    BY <2>1 DEF Init, Routed, Counted
<1>2. TypeOK /\ Shape /\ Control /\ Exact /\ Routed /\ [Next]_vars => Routed'
  BY NextIs, RoutedNext
<1>3. Spec => [](TypeOK /\ Shape /\ Control /\ Exact)
  BY DaemonExact
<1>4. QED
  BY <1>1, <1>2, <1>3, PTL DEF Spec

\* In such an installation, when no command is in progress, the routes are those
\* of the references; without a connection there are none, and with one each
\* address is referenced as often as it is listed, or, if some configuration
\* lists it with a length, at least as often.  No activation that failed
\* half-way, switch or exit of the tunnel process loses one, or leaks one that
\* switchServer can read.
THEOREM DaemonExclusionsMatch == Undisturbed => (Spec => []ExclusionsMatchConnection)
<1> SUFFICES ASSUME Undisturbed PROVE Spec => []ExclusionsMatchConnection
  OBVIOUS
<1>1. TypeOK /\ Shape /\ Exact /\ Routed => ExclusionsMatchConnection
  <2> SUFFICES ASSUME TypeOK, Shape, Exact, Routed, Quiet
               PROVE  /\ xroutes = Counted
                      /\ conn = NoConn => xroutes = {}
                      /\ conn # NoConn => \A p \in Prefixes :
                           /\ Count(p) >= Requested(conn.cfg)[p]
                           /\ Readable(p) => excl[p] = IF Requested(conn.cfg)[p] = 0 THEN Absent
                                                       ELSE Requested(conn.cfg)[p]
    BY DEF ExclusionsMatchConnection, Counted
  <2>1. Work.at = "status"
    BY QuietIs
  <2>2. xroutes = Counted
    BY <2>1 DEF Routed
  <2>3. \A p \in Prefixes : /\ Count(p) \in Nat /\ (excl[p] = Absent <=> Count(p) = 0)
                            /\ excl[p] # Absent => excl[p] = Count(p)
    BY EntryIs DEF Exact, Count
  <2>4. \A p \in Prefixes : /\ Count(p) >= Base(p) + 0
                            /\ conn = NoConn \/ Readable(p) => Count(p) = Base(p) + 0
    BY <2>1 DEF Exact, Taken
  <2>5. ASSUME conn = NoConn PROVE xroutes = {}
    BY <2>2, <2>3, <2>4, <2>5 DEF Base, Counted
  <2>6. ASSUME conn # NoConn, NEW p \in Prefixes
        PROVE  /\ Count(p) >= Requested(conn.cfg)[p]
               /\ Readable(p) => excl[p] = IF Requested(conn.cfg)[p] = 0 THEN Absent
                                           ELSE Requested(conn.cfg)[p]
    <3>1. Requested(conn.cfg)[p] \in Nat /\ Base(p) = Requested(conn.cfg)[p]
      BY <2>6, RequestedIsTyped DEF TypeOK, Base
    <3>2. QED
      BY <2>3, <2>4, <3>1
  <2>7. QED
    BY <2>2, <2>5, <2>6
<1>2. QED
  BY <1>1, DaemonRouted, PTL

-----------------------------------------------------------------------------
(* What the tunnel leaves on the host.                                     *)

\* Nothing of a tunnel but exclusion routes.
Bare == fw = NoConfig /\ ~dns /\ troutes = {} /\ ~rtmon

\* The tunnel is up from the start of a command to its end; a new one starts on
\* a bare host.
Cleans ==
  /\ tunnel # "up" => Bare /\ conn = NoConn /\ Work.at = "status"
  /\ Work.at = "name" => Bare
  /\ Work.at = "del" => ~dns

\* Every step keeps this.
LEMMA CleansNext ==
  ASSUME MaxDeaths = 0, MaxCrashes = 0, TypeOK, Shape, Control, Cleans, OneOf
  PROVE  Cleans'
<1>1. CASE Keeps
  BY <1>1 DEF Keeps, Cleans, Bare, exclVars, ownVars
<1>2. CASE Exits
  BY <1>2 DEF Exits, Cleans, Bare
<1>3. CASE Drops
  BY <1>3 DEF Drops, Cleans, Bare, ownVars
<1>4. CASE Crashes
  BY <1>4 DEF Crashes
<1>5. CASE Opens
  BY <1>5 DEF Opens, Cleans, Bare, Job
<1>6. CASE Named
  BY <1>6 DEF Named, Cleans, Bare, Control, Job
<1>7. CASE ConfigEnds
  BY <1>7 DEF ConfigEnds, Cleans
<1>8. CASE Takes
  BY <1>8 DEF Takes, Cleans, Job
<1>9. CASE Connects
  BY <1>9 DEF Connects, Cleans
<1>10. CASE GivesBack
  BY <1>10 DEF GivesBack, Cleans
<1>11. CASE Switches
  BY <1>11 DEF Switches, Cleans, Job, ownVars
<1>12. CASE Switched
  BY <1>12 DEF Switched, Cleans, Job
<1>13. CASE Reverts \/ PeerGone
  BY <1>13 DEF Reverts, PeerGone, Cleans, Job
<1>14. CASE Closes
  BY <1>14 DEF Closes, Cleans, Job
<1>15. CASE Closed
  <2>1. ~dns' /\ fw' = NoConfig /\ troutes' = {} /\ ~rtmon'
    BY <1>15 DEF Closed, DeactivateRest, DeleteInterface, Cleans, Bare
  <2>2. QED
    BY <1>15, <2>1 DEF Closed, DeactivateRest, Cleans, Bare, Job
<1>16. QED
  BY <1>1, <1>2, <1>3, <1>4, <1>5, <1>6, <1>7, <1>8, <1>9, <1>10, <1>11, <1>12,
     <1>13, <1>14, <1>15
  DEF OneOf

\* In such an installation, and as long as the tunnel process does not die by
\* itself: when it is gone and no command is in progress, nothing of it is left on
\* the host, whichever request to it failed before and whatever addresses the
\* switches left behind.
THEOREM DaemonLeavesHostClean ==
  Undisturbed /\ MaxDeaths = 0 => (Spec => []CleanWhenOff)
<1> SUFFICES ASSUME Undisturbed, MaxDeaths = 0 PROVE Spec => []CleanWhenOff
  OBVIOUS
<1>1. Init => Cleans
  <2> SUFFICES ASSUME Init PROVE Cleans
    OBVIOUS
  <2>1. Work.at = "status"
    BY InitIs DEF NoWork, Job
  <2>2. QED
    BY <2>1 DEF Init, Cleans, Bare
<1>2. TypeOK /\ Shape /\ Control /\ Cleans /\ [Next]_vars => Cleans'
  BY NextIs, CleansNext DEF Undisturbed
<1>3. TypeOK /\ Shape /\ Exact /\ Routed /\ Cleans => CleanWhenOff
  <2> SUFFICES ASSUME TypeOK, Shape, Exact, Routed, Cleans, Quiet, tunnel = "off"
               PROVE  Bare /\ xroutes = {}
    BY DEF CleanWhenOff, Bare
  <2>1. Bare /\ conn = NoConn /\ Work.at = "status"
    BY DEF Cleans
  <2>2. \A p \in Prefixes : excl[p] = Absent
    BY <2>1, EntryIs DEF Exact, Base, Taken
  <2>3. QED
    BY <2>1, <2>2 DEF Routed, Counted
<1>4. QED
  BY <1>1, <1>2, <1>3, DaemonRouted, PTL DEF Spec

-----------------------------------------------------------------------------
(* The daemon implements the ledger of exclusions.                         *)

\* The configuration whose references are committed.
InUse == IF Work.at = "sdel" THEN Work.cfg ELSE conn.cfg

\* The refinement mapping in terms of the command in progress.
Mapped ==
  /\ \A p \in Prefixes : Uncommitted(p) = Taken(p)
  /\ Committed = InUse

\* At most one call is a command, so the mapping's choices are that call.
LEMMA MappingIs == Shape => Mapped
<1> SUFFICES ASSUME Shape PROVE Mapped
  OBVIOUS
<1>1. CASE \A i \in 1 .. Len(stack) : stack[i].at = "poll"
  <2>1. Work.at = "status"
    BY <1>1, WorkIsNone DEF NoWork, Job
  <2>2. QED
    BY <1>1, <2>1 DEF Mapped, InUse, Uncommitted, Taken, Committed
<1>2. CASE \E i \in 1 .. Len(stack) : stack[i].at # "poll"
  <2>1. PICK i \in 1 .. Len(stack) : stack[i].at # "poll"
    BY <1>2
  <2>2. Work.at = stack[i].at /\ Work.cfg = stack[i].cfg
    BY <2>1, WorkIs DEF Job
  <2>3. \A j \in 1 .. Len(stack) : stack[j].at # "poll" => j = i
    BY <2>1 DEF Shape
  <2>4. CASE stack[i].at \in {"peer", "speer", "srestore"}
    <3>1. (CHOOSE j \in 1 .. Len(stack) : stack[j].at \in {"peer", "speer", "srestore"}) = i
      BY <2>1, <2>3, <2>4
    <3>2. QED
      BY <2>1, <2>2, <2>3, <2>4, <3>1 DEF Mapped, InUse, Uncommitted, Taken, Committed
  <2>5. CASE stack[i].at = "sdel"
    <3>1. (CHOOSE j \in 1 .. Len(stack) : stack[j].at = "sdel") = i
      BY <2>1, <2>3, <2>5
    <3>2. QED
      BY <2>1, <2>2, <2>3, <2>5, <3>1 DEF Mapped, InUse, Uncommitted, Taken, Committed
  <2>6. CASE stack[i].at \notin {"peer", "speer", "srestore", "sdel"}
    BY <2>1, <2>2, <2>3, <2>6 DEF Mapped, InUse, Uncommitted, Taken, Committed
  <2>7. QED
    BY <2>4, <2>5, <2>6
<1>3. QED
  BY <1>1, <1>2

\* The same after a step.
LEMMA MappingNext == Shape' => Mapped'
  BY MappingIs, PTL

\* With a gateway, the counts cover the command in progress.
Balanced == gw /\ \A p \in Prefixes : Count(p) >= Taken(p)

Settled(p) == Count(p) - Taken(p)

\* What a switch away from the connection reads.
Reads(p) == IF conn = NoConn THEN 0 ELSE HostOnly(conn.cfg)[p]

\* The four things a step can do to the ledger.
Stays    == InUse' = InUse /\ \A p \in Prefixes : Settled(p)' = Settled(p)
Frees    == InUse' = NoConfig /\ \A p \in Prefixes : Settled(p)' = 0
Uses     == \E new \in Configs :
              /\ InUse' = new /\ InUse = conn.cfg
              /\ \A p \in Prefixes :
                   Settled(p)' = LET n == Settled(p) + Requested(new)[p] - Reads(p)
                                 IN  IF n < 0 THEN 0 ELSE n
Falls    == \E old \in Configs :
              /\ InUse \in Configs /\ InUse' = old
              /\ \A p \in Prefixes : Settled(p)' = Settled(p)

\* What giving references back leaves while routes can be deleted.
LEMMA DelCountsExactly ==
  ASSUME TypeOK, NEW n \in [Prefixes -> Nat], CanRouteAround, excl' = ExclAfterDel(n),
         NEW p \in Prefixes
  PROVE  Count(p)' = IF Count(p) - n[p] < 0 THEN 0 ELSE Count(p) - n[p]
<1>1. Count(p) \in Nat /\ n[p] \in Nat
  BY DEF TypeOK, Count, Absent
<1>2. excl'[p] = IF n[p] = 0 THEN excl[p]
                 ELSE IF n[p] < Count(p) THEN Count(p) - n[p] ELSE Absent
  BY DEF ExclAfterDel
<1>3. QED
  BY <1>1, <1>2 DEF Count, Absent

\* Every step does one of the four.
LEMMA LedgerNext ==
  ASSUME MaxDrops = 0, TypeOK, Shape, Control, Balanced, OneOf
  PROVE  Balanced' /\ (Stays \/ Frees \/ Uses \/ Falls)
<1>1. /\ Work.at \in Waits \ {"poll"}
      /\ Work.at # "status" => Work.cfg \in Configs
      /\ Work.at \in {"speer", "srestore", "sdel"} => Work.old \in Configs
  BY WorkIsTyped
<1>2. \A cfg \in Configs : Requested(cfg) \in [Prefixes -> Nat] /\ HostOnly(cfg) \in [Prefixes -> Nat]
  BY RequestedIsTyped
<1>3. \A p \in Prefixes : Count(p) \in Nat /\ Taken(p) \in Nat
  BY <1>1, <1>2 DEF Taken, TypeOK, Count, Absent
<1>4. ASSUME UNCHANGED <<excl, gw>>, InUse' = InUse,
             \A p \in Prefixes : Taken(p)' = Taken(p)
      PROVE  Balanced' /\ Stays
  <2>1. \A p \in Prefixes : Count(p)' = Count(p)
    BY <1>4 DEF Count
  <2>2. QED
    BY <1>4, <2>1 DEF Balanced, Stays, Settled
<1>5. CASE Keeps \/ Exits
  <2>1. UNCHANGED <<excl, gw>> /\ conn'.cfg = conn.cfg
    BY <1>5 DEF Keeps, Exits, exclVars
  <2>2. Work' = Work \/ (Work.at = "status" /\ Work'.at = "status")
    BY <1>5 DEF Keeps, Exits
  <2>3. InUse' = InUse /\ \A p \in Prefixes : Taken(p)' = Taken(p)
    BY <2>1, <2>2 DEF InUse, Taken
  <2>4. QED
    BY <1>4, <2>1, <2>3
<1>6. CASE Drops
  BY <1>6 DEF Drops, Balanced
<1>7. CASE Crashes \/ Closed
  <2>1. /\ Work'.at \in {"status", "name"} /\ conn' = NoConn /\ gw' = gw
        /\ excl' = [p \in Prefixes |-> Absent]
    BY <1>7 DEF Crashes, Closed, DeactivateRest, Job
  <2>2. InUse' = NoConfig
    BY <2>1 DEF InUse, NoConn
  <2>3. \A p \in Prefixes : Count(p)' = 0 /\ Taken(p)' = 0
    BY <2>1 DEF Count, Taken
  <2>4. QED
    BY <2>1, <2>2, <2>3 DEF Balanced, Frees, Settled
<1>8. CASE Opens \/ Named \/ ConfigEnds \/ Closes
  <2>1. UNCHANGED <<excl, gw, conn>>
    BY <1>8 DEF Opens, Named, ConfigEnds, Closes, exclVars
  <2>2. /\ Work.at \in {"status", "name", "config"}
        /\ Work'.at \in {"status", "name", "config", "del"}
    BY <1>8 DEF Opens, Named, ConfigEnds, Closes, Job
  <2>3. InUse' = InUse /\ \A p \in Prefixes : Taken(p)' = Taken(p)
    BY <2>1, <2>2 DEF InUse, Taken
  <2>4. QED
    BY <1>4, <2>1, <2>3
<1>9. CASE Takes \/ Switches
  <2>1. PICK cfg \in Configs :
          /\ AddExclusionRoutes(cfg)
          /\ Work'.at \in {"peer", "speer"} /\ Work'.cfg = cfg
    BY <1>9 DEF Takes, Switches, Job
  <2>2. UNCHANGED <<conn, gw>> /\ Work.at \in {"status", "config"}
    BY <1>9 DEF Takes, Switches
  <2>3. InUse' = InUse
    BY <2>1, <2>2 DEF InUse
  <2>4. \A p \in Prefixes : Taken(p)' = Requested(cfg)[p] /\ Taken(p) = 0
    BY <2>1, <2>2 DEF Taken
  <2>5. \A p \in Prefixes : /\ Count(p) \in Nat /\ Requested(cfg)[p] \in Nat
                            /\ Count(p)' = Count(p) + Requested(cfg)[p]
    BY <2>1, AddCounts
  <2>6. \A p \in Prefixes : Count(p)' >= Taken(p)' /\ Settled(p)' = Settled(p)
    BY <2>4, <2>5 DEF Settled
  <2>7. QED
    BY <2>2, <2>3, <2>6 DEF Balanced, Stays
<1>10. CASE Connects
  <2>1. conn' # NoConn /\ conn'.cfg = Work.cfg /\ Work.cfg \in Configs
    BY <1>1, <1>10, NewConnIs DEF Connects
  <2>2. conn = NoConn
    BY <1>10 DEF Control, Connects
  <2>3. InUse = conn.cfg /\ InUse' = Work.cfg /\ gw' = gw
    BY <1>10, <2>1 DEF Connects, InUse, exclVars
  <2>4. \A p \in Prefixes : /\ Taken(p)' = 0 /\ Count(p)' = Count(p) /\ Reads(p) = 0
                            /\ Taken(p) = Requested(Work.cfg)[p]
    BY <1>10, <2>2 DEF Connects, Taken, Count, Reads, exclVars
  <2>5. ASSUME NEW p \in Prefixes
        PROVE  /\ Count(p)' >= Taken(p)'
               /\ Settled(p)' = LET n == Settled(p) + Requested(Work.cfg)[p] - Reads(p)
                                IN  IF n < 0 THEN 0 ELSE n
    BY <1>3, <2>4 DEF Settled
  <2>6. QED
    BY <2>1, <2>3, <2>5 DEF Balanced, Uses
<1>11. CASE GivesBack
  <2> DEFINE n == Requested(Work.cfg)
  <2>1. n \in [Prefixes -> Nat] /\ excl' = ExclAfterDel(n)
    BY <1>1, <1>2, <1>11 DEF GivesBack, DelExclusionRoutes
  <2>2. CanRouteAround
    BY <1>11 DEF GivesBack, Control, Balanced, CanRouteAround
  <2>3. InUse' = InUse /\ gw' = gw /\ \A p \in Prefixes : Taken(p)' = 0 /\ Taken(p) = n[p]
    BY <1>11 DEF GivesBack, InUse, Taken
  <2> HIDE DEF n
  <2>4. \A p \in Prefixes : Count(p)' = IF Count(p) - n[p] < 0 THEN 0 ELSE Count(p) - n[p]
    BY <2>1, <2>2, DelCountsExactly
  <2>5. \A p \in Prefixes : Count(p)' >= Taken(p)' /\ Settled(p)' = Settled(p)
    BY <1>3, <2>3, <2>4 DEF Settled, Balanced
  <2>6. QED
    BY <2>3, <2>5 DEF Balanced, Stays
<1>12. CASE Switched
  <2> DEFINE n == HostOnly(Work.old)
  <2>1. Work.cfg \in Configs /\ Work.old \in Configs
    BY <1>1, <1>12 DEF Switched
  <2>2. CanRouteAround
    BY <1>12 DEF Switched, Control, Balanced, CanRouteAround
  <2>4. n \in [Prefixes -> Nat] /\ excl' = ExclAfterDel(n)
    BY <1>2, <1>12, <2>1 DEF Switched
  <2>5. \A p \in Prefixes : Reads(p) = n[p] /\ Taken(p) = Requested(Work.cfg)[p] /\ Taken(p)' = 0
    BY <1>12 DEF Switched, Control, Reads, Taken, Job
  <2>6. InUse = conn.cfg /\ InUse' = Work.cfg /\ gw' = gw
    BY <1>12, <2>1, NewConnIs DEF Switched, InUse, Job
  <2> HIDE DEF n
  <2>7. \A p \in Prefixes : Count(p)' = IF Count(p) - n[p] < 0 THEN 0 ELSE Count(p) - n[p]
    BY <2>2, <2>4, DelCountsExactly
  <2>8. ASSUME NEW p \in Prefixes
        PROVE  /\ Count(p)' >= Taken(p)'
               /\ Settled(p)' = LET k == Settled(p) + Requested(Work.cfg)[p] - Reads(p)
                                IN  IF k < 0 THEN 0 ELSE k
    <3>1. Count(p) \in Nat /\ Requested(Work.cfg)[p] \in Nat /\ n[p] \in Nat
      BY <1>3, <2>4, <2>5
    <3>2. Settled(p) + Requested(Work.cfg)[p] - Reads(p) = Count(p) - n[p]
      BY <2>5, <3>1 DEF Settled
    <3>3. Settled(p)' = Count(p)' /\ Count(p)' >= Taken(p)'
      BY <2>5, <2>7, <3>1 DEF Settled
    <3>4. QED
      BY <2>7, <3>2, <3>3
  <2>9. QED
    BY <2>1, <2>6, <2>8 DEF Balanced, Uses
<1>13. CASE Reverts
  <2>1. UNCHANGED <<excl, gw, conn>>
    BY <1>13 DEF Reverts
  <2>2. InUse' = InUse /\ \A p \in Prefixes : Taken(p)' = Taken(p)
    BY <1>13, <2>1 DEF Reverts, InUse, Taken, Job
  <2>3. QED
    BY <1>4, <2>1, <2>2
<1>14. CASE PeerGone
  <2>1. UNCHANGED <<excl, gw>> /\ Work.at = "sdel" /\ Work'.at = "status"
    BY <1>14 DEF PeerGone, exclVars
  <2>2. \A p \in Prefixes : Taken(p)' = Taken(p) /\ Count(p)' = Count(p)
    BY <2>1 DEF Taken, Count
  <2>3. InUse = Work.cfg /\ InUse' = conn'.cfg
    BY <2>1 DEF InUse
  <2>4. CASE conn' = [cfg |-> Work.cfg, date |-> FALSE]
    <3>1. InUse' = InUse
      BY <2>3, <2>4
    <3>2. QED
      BY <1>4, <2>1, <2>2, <3>1
  <2>5. CASE UNCHANGED conn
    <3>1. conn'.cfg = Work.old /\ Work.old \in Configs /\ Work.cfg \in Configs
      BY <1>1, <2>1, <2>5 DEF Control
    <3>2. QED
      BY <2>1, <2>2, <2>3, <3>1 DEF Balanced, Falls, Settled
  <2>6. QED
    BY <1>14, <2>4, <2>5 DEF PeerGone
<1>15. QED
  BY <1>5, <1>6, <1>7, <1>8, <1>9, <1>10, <1>11, <1>12, <1>13, <1>14 DEF OneOf

\* With one client and a gateway that stays, for any configurations, with or
\* without prefix lengths, and however often the tunnel process or the service
\* dies: each activate, switchServer and deactivate exchanges references at one
\* of its steps, and all its other steps, waits and failures exchange none.
THEOREM DaemonIsLedger ==
  OneClient /\ MaxDrops = 0 => (Spec => ActsAsLedger)
<1> SUFFICES ASSUME OneClient, MaxDrops = 0 PROVE Spec => ActsAsLedger
  OBVIOUS
<1> DEFINE held == [p \in Prefixes |-> Count(p) - Uncommitted(p)]
<1>1. Init => Balanced /\ Ledger!Init
  <2> SUFFICES ASSUME Init PROVE Balanced /\ Ledger!Init
    OBVIOUS
  <2>1. Shape /\ Work.at = "status"
    BY InitIs DEF NoWork, Job
  <2>2. conn.cfg = NoConfig
    BY DEF Init, NoConn
  <2>3. Committed = NoConfig /\ \A p \in Prefixes : Uncommitted(p) = 0 /\ Taken(p) = 0 /\ Count(p) = 0
    BY <2>1, <2>2, MappingIs DEF Mapped, InUse, Taken, Init, Count
  <2>4. QED
    BY <2>3 DEF Balanced, Init, Ledger!Init, Ledger!Wanted
<1>2. TypeOK /\ Shape /\ Control /\ Balanced /\ [Next]_vars => Balanced' /\ [Ledger!Next]_(Ledger!vars)
  <2> SUFFICES ASSUME TypeOK, Shape, Control, Balanced, [Next]_vars
               PROVE  Balanced' /\ (Ledger!Next \/ (Committed' = Committed /\ held' = held))
    BY DEF Ledger!vars
  <2>1. Shape' /\ OneOf
    BY NextIs
  <2>2. Balanced' /\ (Stays \/ Frees \/ Uses \/ Falls)
    BY <2>1, LedgerNext
  <2>3. Committed = InUse /\ \A p \in Prefixes : held[p] = Settled(p)
    BY MappingIs DEF Mapped, Settled
  <2>4. Committed' = InUse' /\ \A p \in Prefixes : held'[p] = Settled(p)'
    BY <2>1, MappingNext DEF Mapped, Settled
  <2>5. CASE Stays
    BY <2>2, <2>3, <2>4, <2>5 DEF Stays
  <2>6. CASE Frees
    BY <2>2, <2>4, <2>6 DEF Frees, Ledger!Next, Ledger!Release, Ledger!Wanted
  <2>7. CASE Uses
    <3>1. PICK new \in Configs :
            /\ InUse' = new /\ InUse = conn.cfg
            /\ \A p \in Prefixes :
                 Settled(p)' = LET n == Settled(p) + Requested(new)[p] - Reads(p)
                               IN  IF n < 0 THEN 0 ELSE n
      BY <2>7 DEF Uses
    <3>2. \A p \in Prefixes : /\ Ledger!Wanted(new)[p] = Requested(new)[p]
                              /\ Ledger!Read(Committed)[p] = Reads(p)
      BY <2>3, <3>1, NullsAreFresh DEF Ledger!Wanted, Ledger!Read, Requested, HostOnly, Reads, TypeOK, NoConn
    <3>3. Ledger!Use(new)
      BY <2>3, <2>4, <3>1, <3>2 DEF Ledger!Use
    <3>4. QED
      BY <2>2, <3>1, <3>3 DEF Ledger!Next
  <2>8. CASE Falls
    <3>1. PICK old \in Configs : InUse \in Configs /\ InUse' = old
                                 /\ \A p \in Prefixes : Settled(p)' = Settled(p)
      BY <2>8 DEF Falls
    <3>2. Ledger!Revert(old)
      BY <2>3, <2>4, <3>1, NullsAreFresh DEF Ledger!Revert
    <3>3. QED
      BY <2>2, <3>1, <3>2 DEF Ledger!Next
  <2>9. QED
    BY <2>2, <2>5, <2>6, <2>7, <2>8
<1>3. QED
  BY <1>1, <1>2, DaemonControl, PTL DEF Spec, ActsAsLedger, Ledger!Spec
=============================================================================
