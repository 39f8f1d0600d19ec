---------------------------- MODULE DaemonProofs ----------------------------
(***************************************************************************)
(* Proofs about Daemon for every set of clients, configs and addresses and *)
(* every bound: the type invariant, that a connection without a handshake  *)
(* is always polled, and that the kill switch is never lifted under a      *)
(* recorded connection.                                                    *)
(***************************************************************************)
EXTENDS Daemon, SequenceTheorems, TLAPS

-----------------------------------------------------------------------------
(* The stack of suspended calls.                                           *)

\* Resuming the top call: it is a frame, and what is below is a stack that
\* keeps every other frame.
LEMMA TopAndBelow ==
  ASSUME stack \in Seq(Frame), stack # <<>>
  PROVE  /\ Top \in Frame
         /\ Below \in Seq(Frame)
         /\ Len(Below) = Len(stack) - 1
         /\ \A i \in 1 .. Len(stack) - 1 : Below[i] = stack[i]
<1>1. Len(stack) \in Nat \ {0}
  BY EmptySeq
<1>2. \A i \in 1 .. Len(stack) : stack[i] \in Frame
  BY ElementOfSeq
<1>3. Top \in Frame
  BY <1>1, <1>2 DEF Top
<1>4. \A i \in 1 .. Len(stack) - 1 : stack[i] \in Frame
  BY <1>1, <1>2
<1>5. /\ Below \in Seq(Frame)
      /\ Len(Below) = IF 1 <= Len(stack) - 1 THEN Len(stack) - 1 - 1 + 1 ELSE 0
      /\ \A i \in 1 .. Len(stack) - 1 - 1 + 1 : Below[i] = stack[1 + i - 1]
  BY <1>1, <1>4, SubSeqProperties DEF Below
<1>6. Len(Below) = Len(stack) - 1
  <2> DEFINE n == Len(stack)
  <2>1. n \in Nat \ {0} /\ (IF 1 <= n - 1 THEN n - 1 - 1 + 1 ELSE 0) = n - 1
    <3> HIDE DEF n
    <3>1. n \in Nat \ {0}
      BY <1>1 DEF n
    <3>2. QED
      BY <3>1
  <2>2. QED
    BY <1>5, <2>1
<1>7. \A i \in 1 .. Len(stack) - 1 : Below[i] = stack[i]
  <2> TAKE i \in 1 .. Len(stack) - 1
  <2>1. i \in 1 .. Len(stack) - 1 - 1 + 1
    BY <1>1
  <2>2. Below[i] = stack[1 + i - 1]
    BY <1>5, <2>1
  <2>3. 1 + i - 1 = i
    BY <1>1
  <2>4. QED
    BY <2>2, <2>3
<1>8. QED
  BY <1>3, <1>5, <1>6, <1>7

\* A call that starts to wait pushes a frame.
LEMMA AskIsTyped ==
  ASSUME NEW below \in Seq(Frame), NEW at \in Waits,
         NEW c \in Clients \cup {NoClient}, NEW cfg \in Configs \cup {NoConfig},
         NEW old \in Configs \cup {NoConfig}, NEW next \in Configs \cup {NoConfig},
         at \notin {"poll", "status"} => cfg \in Configs,
         at \in {"speer", "srestore", "sdel"} => old \in Configs,
         Ask(below, at, c, cfg, old, next)
  PROVE  stack' \in Seq(Frame)
<1> DEFINE f == [at |-> at, c |-> c, cfg |-> cfg, old |-> old,
                 next |-> next, seen |-> {},
                 rep |-> IF tunnel = "up" THEN "wait" ELSE "refused"]
<1>1. f \in FrameFields
  BY DEF FrameFields
<1>2. f \in Frame
  BY <1>1 DEF Frame
<1>3. stack' = Append(below, f)
  BY DEF Ask
<1> HIDE DEF f
<1>4. QED
  BY <1>2, <1>3

-----------------------------------------------------------------------------
(* Reference counts.                                                       *)

\* The prefixes a configuration asks to exclude are counted by naturals.
LEMMA RequestedIsTyped ==
  ASSUME NEW cfg \in Configs
  PROVE  /\ Requested(cfg) \in [Prefixes -> Nat]
         /\ HostOnly(cfg) \in [Prefixes -> Nat]
  BY ConfigsAreConfigs DEF Requested, HostOnly, InterfaceConfig

\* Taking references back keeps the reference table and the kernel routes typed.
LEMMA DelIsTyped ==
  ASSUME excl \in [Prefixes -> Nat \cup {Absent}], xroutes \subseteq Prefixes,
         NEW n \in [Prefixes -> Nat]
  PROVE  /\ ExclAfterDel(n) \in [Prefixes -> Nat \cup {Absent}]
         /\ RoutesAfterDel(n) \subseteq Prefixes
<1>1. \A p \in Prefixes : Count(p) \in Nat
  BY DEF Count, Absent
<1>2. \A p \in Prefixes : n[p] < Count(p) => Count(p) - n[p] \in Nat
  BY <1>1
<1>3. QED
  BY <1>1, <1>2 DEF ExclAfterDel, RoutesAfterDel

\* So does adding the exclusion routes of a configuration.
LEMMA AddIsTyped ==
  ASSUME excl \in [Prefixes -> Nat \cup {Absent}], xroutes \subseteq Prefixes,
         NEW cfg \in Configs, AddExclusionRoutes(cfg)
  PROVE  /\ excl' \in [Prefixes -> Nat \cup {Absent}]
         /\ xroutes' \subseteq Prefixes
<1>1. \A p \in Prefixes : Count(p) \in Nat
  BY DEF Count, Absent
<1>2. Requested(cfg) \in [Prefixes -> Nat]
  BY RequestedIsTyped
<1>3. cfg.host \in Prefixes
  BY ConfigsAreConfigs DEF InterfaceConfig
<1>4. \A p \in Prefixes : Count(p) + Requested(cfg)[p] \in Nat
  BY <1>1, <1>2
<1>5. excl' \in [Prefixes -> Nat \cup {Absent}]
  BY <1>4 DEF AddExclusionRoutes
<1>6. xroutes' \subseteq Prefixes
  BY <1>3 DEF AddExclusionRoutes, NewPrefixes
<1>7. QED
  BY <1>5, <1>6

-----------------------------------------------------------------------------
(* The type invariant, one lemma per group of actions.                     *)

ToldType == [Clients -> {"none", "connected", "disconnected"}]

\* A failed activation pops its frame and tells its client.
LEMMA FailIsTyped ==
  ASSUME NEW below \in Seq(Frame), NEW c, told \in ToldType, Fail(below, c)
  PROVE  stack' \in Seq(Frame) /\ told' \in ToldType
  BY DEF Fail, Return, ToldType

\* Deleting routes leaves a set of ranges.
LEMMA DeleteRoutesIsTyped ==
  ASSUME NEW routes \in SUBSET Ranges, NEW nets \in SUBSET Ranges
  PROVE  DeleteRoutes(routes, nets) \subseteq Ranges
  BY DEF DeleteRoutes

\* The fields of a configuration that the steps below use.
LEMMA ConfigIsTyped ==
  ASSUME NEW cfg \in Configs
  PROVE  cfg.ranges \subseteq Ranges /\ cfg.host \in Prefixes /\ cfg.pub \in PubKeys
  BY ConfigsAreConfigs DEF InterfaceConfig

\* The steps of activate after the interface exists keep the types.
LEMMA BringUpIsTyped ==
  ASSUME TypeOK, NEW below \in Seq(Frame), NEW c \in Clients \cup {NoClient},
         NEW cfg \in Configs, BringUp(below, c, cfg)
  PROVE  /\ stack' \in Seq(Frame)
         /\ excl' \in [Prefixes -> Nat \cup {Absent}]
         /\ xroutes' \subseteq Prefixes
         /\ told' \in ToldType
         /\ UNCHANGED <<conn, timer, dns, troutes, asserted>>
<1>1. CASE Fail(below, c) /\ UNCHANGED <<excl, xroutes, asserted>>
  BY <1>1, FailIsTyped DEF BringUp, TypeOK, ToldType
<1>2. CASE /\ AddExclusionRoutes(cfg)
           /\ Ask(below, "peer", c, cfg, NoConfig, NoConfig)
           /\ UNCHANGED <<told, asserted>>
  <2>1. stack' \in Seq(Frame)
    BY <1>2, AskIsTyped DEF Waits
  <2>2. excl' \in [Prefixes -> Nat \cup {Absent}] /\ xroutes' \subseteq Prefixes
    BY <1>2, AddIsTyped DEF TypeOK
  <2>3. QED
    BY <1>2, <2>1, <2>2 DEF BringUp, TypeOK, ToldType
<1>3. QED
  BY <1>1, <1>2 DEF BringUp

\* Starting the tunnel process keeps the types.
LEMMA StartTunnelIsTyped ==
  ASSUME TypeOK, NEW below \in Seq(Frame), NEW c \in Clients \cup {NoClient},
         NEW cfg \in Configs, StartTunnel(below, c, cfg)
  PROVE  /\ stack' \in Seq(Frame)
         /\ told' \in ToldType
         /\ tunnel' \in {"off", "up"}
<1>1. CASE tunnel' = "off" /\ Fail(below, c)
  BY <1>1, FailIsTyped DEF TypeOK, ToldType
<1>2. CASE tunnel' # "off"
  <2> DEFINE f == [at |-> "name", c |-> c, cfg |-> cfg, old |-> NoConfig,
                   next |-> NoConfig, rep |-> "wait", seen |-> {}]
  <2>1. f \in Frame
    BY DEF Frame, FrameFields, Waits
  <2>2. stack' = Append(below, f) /\ told' = told /\ tunnel' = "up"
    BY <1>2 DEF StartTunnel
  <2> HIDE DEF f
  <2>3. QED
    BY <2>1, <2>2 DEF TypeOK, ToldType
<1>3. QED
  BY <1>1, <1>2 DEF StartTunnel

\* activate without a connection keeps the types.
LEMMA ActivateFreshIsTyped ==
  ASSUME TypeOK, NEW c \in Clients, NEW cfg \in Configs, ActivateFresh(c, cfg)
  PROVE  TypeOK'
<1>1. CASE tunnel = "off" /\ StartTunnel(stack, c, cfg)
           /\ UNCHANGED <<conn, excl, timer, asserted, dns, xroutes, troutes>>
  <2>1. stack' \in Seq(Frame) /\ told' \in ToldType /\ tunnel' \in {"off", "up"}
    BY <1>1, StartTunnelIsTyped DEF TypeOK
  <2>2. QED
    BY <1>1, <2>1 DEF ActivateFresh, TypeOK, ToldType
<1>2. CASE tunnel # "off" /\ BringUp(stack, c, cfg) /\ UNCHANGED tunnel
  <2>1. /\ stack' \in Seq(Frame)
        /\ excl' \in [Prefixes -> Nat \cup {Absent}]
        /\ xroutes' \subseteq Prefixes
        /\ told' \in ToldType
        /\ UNCHANGED <<conn, timer, dns, troutes, asserted>>
    BY <1>2, BringUpIsTyped DEF TypeOK
  <2>2. QED
    BY <1>2, <2>1 DEF ActivateFresh, TypeOK, ToldType
<1>3. QED
  BY <1>1, <1>2 DEF ActivateFresh

\* The continuation of addInterface once the name is known.
LEMMA AfterNameIsTyped == ASSUME TypeOK, AfterName PROVE TypeOK'
<1>1. Top \in Frame /\ Below \in Seq(Frame)
  BY TopAndBelow DEF TypeOK, AfterName
<1>2. Top.c \in Clients \cup {NoClient} /\ Top.cfg \in Configs
  BY <1>1 DEF Frame, FrameFields, AfterName
<1>3. CASE tunnel = "up" /\ Ask(Below, "config", Top.c, Top.cfg, NoConfig, NoConfig)
           /\ rtmon' = TRUE /\ UNCHANGED <<told, tunnel>>
  <2>1. stack' \in Seq(Frame)
    BY <1>1, <1>2, <1>3, AskIsTyped DEF Waits
  <2>2. QED
    BY <1>3, <2>1 DEF AfterName, TypeOK
<1>4. CASE Fail(Below, Top.c) /\ UNCHANGED rtmon
           /\ tunnel' = IF tunnel = "up" THEN "killed" ELSE tunnel
  <2>1. stack' \in Seq(Frame) /\ told' \in ToldType
    BY <1>1, <1>4, FailIsTyped DEF TypeOK, ToldType
  <2>2. QED
    BY <1>4, <2>1 DEF AfterName, TypeOK, ToldType
<1>5. QED
  BY <1>3, <1>4 DEF AfterName

\* The continuation of addInterface once the configuration is answered.
LEMMA AfterConfigIsTyped == ASSUME TypeOK, AfterConfig PROVE TypeOK'
<1>1. Top \in Frame /\ Below \in Seq(Frame)
  BY TopAndBelow DEF TypeOK, AfterConfig
<1>2. Top.c \in Clients \cup {NoClient} /\ Top.cfg \in Configs
  BY <1>1 DEF Frame, FrameFields, AfterConfig
<1>3. CASE Top.rep = "ok"
  <2>1. BringUp(Below, Top.c, Top.cfg) /\ fw' \in Configs \cup {NoConfig}
    BY <1>2, <1>3 DEF AfterConfig, TypeOK
  <2>2. /\ stack' \in Seq(Frame)
        /\ excl' \in [Prefixes -> Nat \cup {Absent}]
        /\ xroutes' \subseteq Prefixes
        /\ told' \in ToldType
        /\ UNCHANGED <<conn, timer, dns, troutes, asserted>>
    BY <1>1, <1>2, <2>1, BringUpIsTyped
  <2>3. QED
    BY <2>1, <2>2 DEF AfterConfig, TypeOK, ToldType
<1>4. CASE Top.rep # "ok"
  <2>1. Fail(Below, Top.c)
    BY <1>4 DEF AfterConfig
  <2>2. stack' \in Seq(Frame) /\ told' \in ToldType
    BY <1>1, <2>1, FailIsTyped DEF TypeOK, ToldType
  <2>3. QED
    BY <1>4, <2>2 DEF AfterConfig, TypeOK, ToldType
<1>5. QED
  BY <1>3, <1>4

\* The exclusion routes taken back after a failed updatePeer.
LEMMA UndoIsTyped ==
  ASSUME TypeOK, NEW cfg \in Configs, DelExclusionRoutes(Requested(cfg))
  PROVE  /\ excl' \in [Prefixes -> Nat \cup {Absent}]
         /\ xroutes' \subseteq Prefixes
         /\ asserted' \subseteq {"unheld", "unread"}
<1>1. Requested(cfg) \in [Prefixes -> Nat]
  BY RequestedIsTyped
<1>2. QED
  BY <1>1, DelIsTyped DEF DelExclusionRoutes, TypeOK

\* The continuation of activate after updatePeer.
LEMMA AfterPeerIsTyped == ASSUME TypeOK, AfterPeer PROVE TypeOK'
<1>1. Top \in Frame /\ Below \in Seq(Frame)
  BY TopAndBelow DEF TypeOK, AfterPeer
<1>2. Top.c \in Clients \cup {NoClient} /\ Top.cfg \in Configs
  BY <1>1 DEF Frame, FrameFields, AfterPeer
<1>3. Top.cfg.ranges \subseteq Ranges
  BY <1>2, ConfigIsTyped
<1>4. CASE PeerReady
  BY <1>1, <1>2, <1>3, <1>4 DEF PeerReady, AfterPeer, TypeOK, Return
<1>5. CASE /\ PeerFailed \/ RouteFailed
           /\ DelExclusionRoutes(Requested(Top.cfg))
           /\ Fail(Below, Top.c)
           /\ UNCHANGED <<conn, timer>>
  <2>1. /\ excl' \in [Prefixes -> Nat \cup {Absent}]
        /\ xroutes' \subseteq Prefixes
        /\ asserted' \subseteq {"unheld", "unread"}
    BY <1>2, <1>5, UndoIsTyped
  <2>2. stack' \in Seq(Frame) /\ told' \in ToldType
    BY <1>1, <1>5, FailIsTyped DEF TypeOK, ToldType
  <2>3. dns' \in BOOLEAN /\ troutes' \subseteq Ranges
    BY <1>3, <1>5 DEF PeerFailed, RouteFailed, TypeOK
  <2>4. QED
    BY <1>5, <2>1, <2>2, <2>3 DEF AfterPeer, TypeOK, ToldType
<1>6. QED
  BY <1>4, <1>5 DEF AfterPeer

\* switchServer up to its first request to the tunnel.
LEMMA SwitchServerIsTyped ==
  ASSUME TypeOK, NEW c \in Clients, NEW cfg \in Configs, SwitchServer(c, cfg)
  PROVE  TypeOK'
<1>1. conn.cfg \in Configs
  BY DEF SwitchServer, SupportServerSwitching, TypeOK
<1>2. CASE /\ AddExclusionRoutes(cfg)
           /\ Ask(stack, "speer", c, cfg, conn.cfg, NoConfig)
           /\ UNCHANGED told
  <2>1. stack' \in Seq(Frame)
    BY <1>1, <1>2, AskIsTyped DEF Waits, TypeOK
  <2>2. excl' \in [Prefixes -> Nat \cup {Absent}] /\ xroutes' \subseteq Prefixes
    BY <1>2, AddIsTyped DEF TypeOK
  <2>3. QED
    BY <1>2, <2>1, <2>2 DEF SwitchServer, TypeOK
<1>3. CASE Fail(stack, c) /\ UNCHANGED <<excl, xroutes>>
  <2>1. stack' \in Seq(Frame) /\ told' \in ToldType
    BY <1>3, FailIsTyped DEF TypeOK, ToldType
  <2>2. QED
    BY <1>3, <2>1 DEF SwitchServer, TypeOK, ToldType
<1>4. QED
  BY <1>2, <1>3 DEF SwitchServer

\* The end of a switch records the new connection.
LEMMA CompleteSwitchIsTyped ==
  ASSUME TypeOK, NEW below \in Seq(Frame), NEW c, NEW cfg \in Configs,
         CompleteSwitch(below, c, cfg)
  PROVE  /\ stack' \in Seq(Frame)
         /\ conn' \in [cfg: Configs, date: BOOLEAN]
         /\ dns' \in BOOLEAN /\ timer' \in BOOLEAN
         /\ told' \in ToldType
<1>1. CASE tunnel = "up"
  BY <1>1 DEF CompleteSwitch, Return, TypeOK, ToldType
<1>2. CASE tunnel # "up"
  <2>1. Fail(below, c)
    BY <1>2 DEF CompleteSwitch
  <2>2. QED
    BY <1>2, <2>1, FailIsTyped DEF CompleteSwitch, TypeOK, ToldType
<1>3. QED
  BY <1>1, <1>2

\* The continuation of switchServer after updatePeer.
LEMMA AfterSwitchPeerIsTyped == ASSUME TypeOK, AfterSwitchPeer PROVE TypeOK'
<1> DEFINE cfg == Top.cfg
           old == Top.old
<1>1. Top \in Frame /\ Below \in Seq(Frame)
  BY TopAndBelow DEF TypeOK, AfterSwitchPeer
<1>2. Top.c \in Clients \cup {NoClient} /\ cfg \in Configs /\ old \in Configs
  BY <1>1 DEF Frame, FrameFields, AfterSwitchPeer
<1>3. cfg.ranges \subseteq Ranges /\ old.ranges \subseteq Ranges /\ old.host \in Prefixes
  BY <1>2, ConfigIsTyped
<1>4. CASE SwitchRoutesReady(cfg, old)
  <2>1. HostOnly(old) \in [Prefixes -> Nat]
    BY <1>2, RequestedIsTyped
  <2>2. /\ excl' \in [Prefixes -> Nat \cup {Absent}]
        /\ RoutesAfterDel(HostOnly(old)) \subseteq Prefixes
        /\ asserted' \subseteq {"unheld", "unread"}
    BY <1>4, <2>1, DelIsTyped DEF SwitchRoutesReady, TypeOK
  <2>3. troutes' \subseteq Ranges
    BY <1>3, <1>4, DeleteRoutesIsTyped DEF SwitchRoutesReady, TypeOK
  <2>4. CASE cfg.pub = old.pub
    <3>1. xroutes' \subseteq Prefixes /\ CompleteSwitch(Below, Top.c, cfg)
      BY <1>4, <2>2, <2>4 DEF SwitchRoutesReady
    <3>2. /\ stack' \in Seq(Frame)
          /\ conn' \in [cfg: Configs, date: BOOLEAN]
          /\ dns' \in BOOLEAN /\ timer' \in BOOLEAN
          /\ told' \in ToldType
      BY <1>1, <1>2, <3>1, CompleteSwitchIsTyped
    <3>3. QED
      BY <2>2, <2>3, <3>1, <3>2 DEF AfterSwitchPeer, TypeOK, ToldType
  <2>5. CASE cfg.pub # old.pub
    <3>1. /\ xroutes' \subseteq Prefixes
          /\ Ask(Below, "sdel", Top.c, cfg, old, NoConfig)
          /\ UNCHANGED <<conn, timer, dns, told>>
      BY <1>4, <2>2, <2>5 DEF SwitchRoutesReady
    <3>2. stack' \in Seq(Frame)
      BY <1>1, <1>2, <3>1, AskIsTyped DEF Waits
    <3>3. QED
      BY <2>2, <2>3, <3>1, <3>2 DEF AfterSwitchPeer, TypeOK
  <2>6. QED
    BY <2>4, <2>5
<1>5. CASE SwitchRouteFailed(cfg, old)
  <2>1. troutes' \subseteq Ranges
    BY <1>3, <1>5, DeleteRoutesIsTyped DEF SwitchRouteFailed, TypeOK
  <2>2. stack' \in Seq(Frame)
    BY <1>1, <1>2, <1>5, AskIsTyped DEF SwitchRouteFailed, Waits
  <2>3. xroutes' \subseteq Prefixes
    BY <1>3, <1>5 DEF SwitchRouteFailed, TypeOK
  <2>4. QED
    BY <1>5, <2>1, <2>2, <2>3 DEF AfterSwitchPeer, SwitchRouteFailed, TypeOK
<1>6. CASE /\ DelExclusionRoutes(Requested(cfg))
           /\ Fail(Below, Top.c)
           /\ UNCHANGED <<conn, timer, dns, troutes>>
  <2>1. /\ excl' \in [Prefixes -> Nat \cup {Absent}]
        /\ xroutes' \subseteq Prefixes
        /\ asserted' \subseteq {"unheld", "unread"}
    BY <1>2, <1>6, UndoIsTyped
  <2>2. stack' \in Seq(Frame) /\ told' \in ToldType
    BY <1>1, <1>6, FailIsTyped DEF TypeOK, ToldType
  <2>3. QED
    BY <1>6, <2>1, <2>2 DEF AfterSwitchPeer, TypeOK, ToldType
<1>7. QED
  BY <1>4, <1>5, <1>6 DEF AfterSwitchPeer

\* The continuation of switchServer after a failed route update.
LEMMA AfterSwitchRestoreIsTyped == ASSUME TypeOK, AfterSwitchRestore PROVE TypeOK'
<1>1. Top \in Frame /\ Below \in Seq(Frame)
  BY TopAndBelow DEF TypeOK, AfterSwitchRestore
<1>2. Top.cfg \in Configs
  BY <1>1 DEF Frame, FrameFields, AfterSwitchRestore
<1>3. /\ excl' \in [Prefixes -> Nat \cup {Absent}]
      /\ xroutes' \subseteq Prefixes
      /\ asserted' \subseteq {"unheld", "unread"}
  BY <1>2, UndoIsTyped DEF AfterSwitchRestore
<1>4. stack' \in Seq(Frame) /\ told' \in ToldType
  BY <1>1, FailIsTyped DEF AfterSwitchRestore, TypeOK, ToldType
<1>5. QED
  BY <1>3, <1>4 DEF AfterSwitchRestore, TypeOK, ToldType

\* The continuation of switchServer after deletePeer.
LEMMA AfterSwitchDeleteIsTyped == ASSUME TypeOK, AfterSwitchDelete PROVE TypeOK'
<1>1. Top \in Frame /\ Below \in Seq(Frame)
  BY TopAndBelow DEF TypeOK, AfterSwitchDelete
<1>2. Top.cfg \in Configs
  BY <1>1 DEF Frame, FrameFields, AfterSwitchDelete
<1>3. CASE Top.rep = "ok"
  <2>1. CompleteSwitch(Below, Top.c, Top.cfg)
    BY <1>3 DEF AfterSwitchDelete
  <2>2. /\ stack' \in Seq(Frame)
        /\ conn' \in [cfg: Configs, date: BOOLEAN]
        /\ dns' \in BOOLEAN /\ timer' \in BOOLEAN
        /\ told' \in ToldType
    BY <1>1, <1>2, <2>1, CompleteSwitchIsTyped
  <2>3. QED
    BY <2>2 DEF AfterSwitchDelete, TypeOK, ToldType
<1>4. CASE Top.rep # "ok"
  <2>1. Fail(Below, Top.c)
    BY <1>4 DEF AfterSwitchDelete
  <2>2. stack' \in Seq(Frame) /\ told' \in ToldType
    BY <1>1, <2>1, FailIsTyped DEF TypeOK, ToldType
  <2>3. QED
    BY <1>4, <2>2 DEF AfterSwitchDelete, TypeOK, ToldType
<1>5. QED
  BY <1>3, <1>4

\* deactivate with a connection asks the tunnel to drop the peer.
LEMMA DeactivatePeerIsTyped ==
  ASSUME TypeOK, NEW c \in Clients, NEW next \in Configs \cup {NoConfig},
         DeactivatePeer(c, next), told' \in ToldType
  PROVE  TypeOK'
<1>1. conn.cfg \in Configs
  BY DEF DeactivatePeer, TypeOK
<1>2. conn.cfg.ranges \subseteq Ranges
  BY <1>1, ConfigIsTyped
<1>3. stack' \in Seq(Frame)
  BY <1>1, AskIsTyped DEF DeactivatePeer, Waits, TypeOK
<1>4. troutes' \subseteq Ranges
  BY <1>2, DeleteRoutesIsTyped DEF DeactivatePeer, TypeOK
<1>5. QED
  BY <1>3, <1>4 DEF DeactivatePeer, TypeOK, ToldType

\* deactivate without a connection resets the exclusions.
LEMMA DeactivateIdleIsTyped ==
  ASSUME TypeOK, DeactivateIdle, told' \in ToldType
  PROVE  TypeOK'
<1>1. excl' \in [Prefixes -> Nat \cup {Absent}] /\ xroutes' \subseteq Prefixes
  BY DEF DeactivateIdle, DeactivateRest, TypeOK
<1>2. /\ fw' \in Configs \cup {NoConfig} /\ troutes' \subseteq Ranges
      /\ peers' \in [PubKeys -> {"none", "new", "shaken"}]
  BY DEF DeactivateIdle, DeleteInterface, TypeOK
<1>3. QED
  BY <1>1, <1>2 DEF DeactivateIdle, DeactivateRest, TypeOK, ToldType

\* The continuation of deactivate after deletePeer.
LEMMA AfterDeleteIsTyped == ASSUME TypeOK, AfterDelete PROVE TypeOK'
<1>1. Top \in Frame /\ Below \in Seq(Frame)
  BY TopAndBelow DEF TypeOK, AfterDelete
<1>2. Top.c \in Clients \cup {NoClient} /\ Top.next \in Configs \cup {NoConfig}
  BY <1>1 DEF Frame, FrameFields
<1>3. excl' \in [Prefixes -> Nat \cup {Absent}] /\ xroutes' \subseteq Prefixes
  BY DEF AfterDelete, DeactivateRest, TypeOK
<1>4. /\ fw' \in Configs \cup {NoConfig} /\ troutes' \subseteq Ranges
      /\ peers' \in [PubKeys -> {"none", "new", "shaken"}]
  BY DEF AfterDelete, DeleteInterface, TypeOK
<1>5. stack' \in Seq(Frame) /\ told' \in ToldType /\ tunnel' \in {"off", "up"}
  <2>1. CASE tunnel' = "off" /\ Return(Below) /\ UNCHANGED told
    BY <1>1, <2>1 DEF Return, TypeOK, ToldType
  <2>2. CASE tunnel' = "off" /\ Fail(Below, Top.c)
    BY <1>1, <2>2, FailIsTyped DEF TypeOK, ToldType
  <2>3. CASE Top.next # NoConfig /\ StartTunnel(Below, Top.c, Top.next)
    BY <1>1, <1>2, <2>3, StartTunnelIsTyped
  <2>4. QED
    BY <2>1, <2>2, <2>3 DEF AfterDelete
<1>6. QED
  BY <1>3, <1>4, <1>5 DEF AfterDelete, DeactivateRest, TypeOK, ToldType

\* Every command of a client keeps the types.
LEMMA CommandIsTyped ==
  ASSUME TypeOK, NEW c \in Clients, Command(c)
  PROVE  TypeOK'
<1>1. ASSUME NEW cfg \in Configs, Activate(c, cfg) PROVE TypeOK'
  <2>1. CASE ActivateFresh(c, cfg)
    BY <2>1, ActivateFreshIsTyped
  <2>2. CASE SwitchServer(c, cfg)
    BY <2>2, SwitchServerIsTyped
  <2>3. CASE DeactivatePeer(c, cfg) /\ UNCHANGED told
    <3>1. told' \in ToldType
      BY <2>3 DEF TypeOK, ToldType
    <3>2. QED
      BY <2>3, <3>1, DeactivatePeerIsTyped
  <2>4. QED
    BY <1>1, <2>1, <2>2, <2>3 DEF Activate
<1>2. CASE ActivateInvalid(c)
  <2>1. stack' \in Seq(Frame) /\ told' \in ToldType
    BY <1>2, FailIsTyped DEF ActivateInvalid, TypeOK, ToldType
  <2>2. QED
    BY <1>2, <2>1 DEF ActivateInvalid, hostVars, TypeOK, ToldType
<1>3. CASE Deactivate(c)
  <2>1. told' \in ToldType
    BY <1>3 DEF Deactivate, Broadcast, ToldType
  <2>2. QED
    BY <1>3, <2>1, DeactivateIdleIsTyped, DeactivatePeerIsTyped DEF Deactivate
<1>4. CASE GetStatus(c)
  <2>1. stack' \in Seq(Frame)
    BY <1>4, AskIsTyped DEF GetStatus, Waits, TypeOK
  <2>2. QED
    BY <1>4, <2>1 DEF GetStatus, daemonVars, hostVars, TypeOK
<1>5. QED
  BY <1>1, <1>2, <1>3, <1>4 DEF Command

\* checkHandshake, its continuation and the one of getStatus keep the types.
LEMMA PollIsTyped ==
  ASSUME TypeOK, CheckHandshake \/ AfterPoll \/ AfterStatus
  PROVE  TypeOK'
<1>1. CASE CheckHandshake
  <2>1. stack' \in Seq(Frame)
    BY <1>1, AskIsTyped DEF CheckHandshake, Waits, TypeOK
  <2>2. QED
    BY <1>1, <2>1 DEF CheckHandshake, hostVars, TypeOK
<1>2. CASE AfterPoll
  <2>1. stack' \in Seq(Frame)
    BY <1>2, TopAndBelow DEF AfterPoll, Return, TypeOK
  <2>2. CASE conn = NoConn \/ conn.date
    BY <1>2, <2>1, <2>2 DEF AfterPoll, hostVars, TypeOK
  <2>3. CASE ~(conn = NoConn \/ conn.date)
    <3>1. [conn EXCEPT !.date = TRUE] \in [cfg: Configs, date: BOOLEAN]
      BY <2>3 DEF TypeOK
    <3>2. /\ conn' \in [cfg: Configs, date: BOOLEAN] \cup {NoConn}
          /\ timer' \in BOOLEAN
          /\ told' \in [Clients -> {"none", "connected", "disconnected"}]
      <4>1. CASE conn.cfg.pub \in Top.seen
        <5>1. /\ conn' = [conn EXCEPT !.date = TRUE] /\ UNCHANGED timer
              /\ told' = [c \in Clients |-> "connected"]
          BY <1>2, <2>3, <4>1 DEF AfterPoll, Broadcast
        <5>2. QED
          BY <3>1, <5>1 DEF TypeOK
      <4>2. CASE conn.cfg.pub \notin Top.seen
        BY <1>2, <2>3, <4>2 DEF AfterPoll, TypeOK
      <4>3. QED
        BY <4>1, <4>2
    <3>3. UNCHANGED <<excl, asserted, tunnel, rtmon, fw, dns, peers, xroutes, troutes, gw, faults>>
      BY <1>2 DEF AfterPoll, hostVars
    <3>4. QED
      BY <2>1, <3>2, <3>3 DEF TypeOK
  <2>4. QED
    BY <2>2, <2>3
<1>3. CASE AfterStatus
  <2>1. stack' \in Seq(Frame)
    BY <1>3, TopAndBelow DEF AfterStatus, Return, TypeOK
  <2>2. QED
    BY <1>3, <2>1 DEF AfterStatus, daemonVars, hostVars, TypeOK
<1>4. QED
  BY <1>1, <1>2, <1>3

\* An answer of the tunnel process changes the frame that waits for it only.
LEMMA AnswerIsTyped ==
  ASSUME TypeOK, NEW i \in 1 .. Len(stack), AnswerOk(i) \/ AnswerErr(i)
  PROVE  TypeOK'
<1> DEFINE S == IF stack[i].at = "poll"
                THEN {k \in PubKeys : peers[k] = "shaken"} ELSE {}
           ok == [stack[i] EXCEPT !.rep = "ok", !.seen = S]
           err == [stack[i] EXCEPT !.rep = "err"]
<1>1. stack \in Seq(Frame) /\ stack[i] \in Frame
  BY ElementOfSeq DEF TypeOK
<1>2. ok \in Frame /\ err \in Frame
  <2>1. S \in SUBSET PubKeys
    OBVIOUS
  <2> HIDE DEF S
  <2>2. ok \in FrameFields /\ ok.at = stack[i].at /\ ok.cfg = stack[i].cfg
                           /\ ok.old = stack[i].old
    BY <1>1, <2>1 DEF Frame, FrameFields
  <2>3. err \in FrameFields /\ err.at = stack[i].at /\ err.cfg = stack[i].cfg
                            /\ err.old = stack[i].old
    BY <1>1 DEF Frame, FrameFields
  <2> HIDE DEF ok, err
  <2>4. QED
    BY <1>1, <2>2, <2>3 DEF Frame
<1>3. CASE AnswerOk(i)
  <2>1. stack' = [stack EXCEPT ![i] = ok]
    BY <1>3 DEF AnswerOk
  <2>2. stack' \in Seq(Frame)
    <3> HIDE DEF ok
    <3>1. QED
      BY <1>1, <1>2, <2>1, ExceptSeq
  <2>3. peers' \in [PubKeys -> {"none", "new", "shaken"}]
    BY <1>3 DEF AnswerOk, AddPeer, RemovePeer, TypeOK
  <2>4. QED
    BY <1>3, <2>2, <2>3 DEF AnswerOk, daemonVars, TypeOK
<1>4. CASE AnswerErr(i)
  <2>1. stack' = [stack EXCEPT ![i] = err]
    BY <1>4 DEF AnswerErr
  <2>2. stack' \in Seq(Frame)
    <3> HIDE DEF err
    <3>1. QED
      BY <1>1, <1>2, <2>1, ExceptSeq
  <2>3. QED
    BY <1>4, <2>2 DEF AnswerErr, daemonVars, hostVars, TypeOK
<1>5. QED
  BY <1>3, <1>4

\* What happens around the daemon, its crash included, keeps the types.
LEMMA EnvironmentIsTyped == ASSUME TypeOK, Environment PROVE TypeOK'
<1>1. CASE \E i \in 1 .. Len(stack) : AnswerOk(i) \/ AnswerErr(i)
  BY <1>1, AnswerIsTyped
<1>2. CASE \E k \in PubKeys : Handshake(k)
  BY <1>2 DEF Handshake, daemonVars, TypeOK
<1>3. CASE TunnelExits
  <2>1. faults' \in [deaths: 0 .. MaxDeaths, drops: 0 .. MaxDrops,
                     crashes: 0 .. MaxCrashes]
    BY <1>3, BoundsAreNaturals DEF TunnelExits, TypeOK
  <2>2. QED
    BY <1>3, <2>1 DEF TunnelExits, daemonVars, TypeOK
<1>4. CASE GatewayLost
  <2>1. faults' \in [deaths: 0 .. MaxDeaths, drops: 0 .. MaxDrops,
                     crashes: 0 .. MaxCrashes]
    BY <1>4, BoundsAreNaturals DEF GatewayLost, TypeOK
  <2>2. QED
    BY <1>4, <2>1 DEF GatewayLost, daemonVars, TypeOK
<1>5. CASE GatewayBack
  BY <1>5 DEF GatewayBack, daemonVars, TypeOK
<1>6. CASE Crash
  <2>1. faults' \in [deaths: 0 .. MaxDeaths, drops: 0 .. MaxDrops,
                     crashes: 0 .. MaxCrashes]
    BY <1>6, BoundsAreNaturals DEF Crash, TypeOK
  <2>2. stack' \in Seq(Frame)
    BY <1>6, EmptySeq DEF Crash
  <2>3. QED
    BY <1>6, <2>1, <2>2 DEF Crash, TypeOK
<1>7. QED
  BY <1>1, <1>2, <1>3, <1>4, <1>5, <1>6 DEF Environment

\* Every step keeps the types.
LEMMA NextIsTyped == ASSUME TypeOK, [Next]_vars PROVE TypeOK'
<1>1. CASE \E c \in Clients : Command(c)
  BY <1>1, CommandIsTyped
<1>2. CASE Resume
  BY <1>2, AfterNameIsTyped, AfterConfigIsTyped, AfterPeerIsTyped,
     AfterSwitchPeerIsTyped, AfterSwitchRestoreIsTyped, AfterSwitchDeleteIsTyped,
     AfterDeleteIsTyped, PollIsTyped
  DEF Resume
<1>3. CASE CheckHandshake
  BY <1>3, PollIsTyped
<1>4. CASE Environment
  BY <1>4, EnvironmentIsTyped
<1>5. CASE UNCHANGED vars
  BY <1>5 DEF vars, daemonVars, hostVars, TypeOK
<1>6. QED
  BY <1>1, <1>2, <1>3, <1>4, <1>5 DEF Next

\* Every reachable state of the daemon is well typed: whatever calls are nested,
\* a resumed call finds the config it was working on, and reference counts stay
\* counts.
THEOREM DaemonTypes == Spec => []TypeOK
<1>1. Init => TypeOK
  <2> SUFFICES ASSUME Init PROVE TypeOK
    OBVIOUS
  <2>1. stack \in Seq(Frame)
    BY EmptySeq DEF Init
  <2>2. faults \in [deaths: 0 .. MaxDeaths, drops: 0 .. MaxDrops,
                    crashes: 0 .. MaxCrashes]
    BY BoundsAreNaturals DEF Init
  <2>3. QED
    BY <2>1, <2>2 DEF Init, TypeOK
<1>2. TypeOK /\ [Next]_vars => TypeOK'
  BY NextIsTyped
<1>3. QED
  BY <1>1, <1>2, PTL DEF Spec

-----------------------------------------------------------------------------
(* A connection without a handshake is polled.                             *)

HasPoll(s) == \E i \in 1 .. Len(s) : s[i].at = "poll"

\* Resuming any other call keeps a suspended poll, and so does suspending one.
LEMMA PollStaysBelow ==
  ASSUME stack \in Seq(Frame), stack # <<>>, Top.at # "poll", HasPoll(stack)
  PROVE  HasPoll(Below)
<1>1. PICK i \in 1 .. Len(stack) : stack[i].at = "poll"
  BY DEF HasPoll
<1>2. Len(stack) \in Nat \ {0}
  BY EmptySeq
<1>3. i \in 1 .. Len(stack) - 1
  BY <1>1, <1>2 DEF Top
<1>4. Below[i] = stack[i] /\ i \in 1 .. Len(Below)
  BY <1>3, TopAndBelow
<1>5. QED
  BY <1>1, <1>4 DEF HasPoll

\* A poll that is under way is not lost when a frame is pushed.
LEMMA PollStaysUnder ==
  ASSUME NEW s \in Seq(Frame), NEW f, HasPoll(s)
  PROVE  HasPoll(Append(s, f))
<1>1. PICK i \in 1 .. Len(s) : s[i].at = "poll"
  BY DEF HasPoll
<1>2. Len(Append(s, f)) = Len(s) + 1 /\ Append(s, f)[i] = s[i] /\ Len(s) \in Nat
  BY <1>1
<1>3. QED
  BY <1>1, <1>2 DEF HasPoll

\* The shape of all steps but the timer's: at most one call is suspended on s,
\* the timer is not stopped, and a connection that is new or newly without a
\* handshake starts it.
KeepsPolling(s) ==
  /\ stack' = s \/ \E f : stack' = Append(s, f)
  /\ timer => timer'
  /\ conn' # NoConn /\ ~conn'.date /\ tunnel' = "up"
       => timer' \/ (conn' = conn /\ tunnel = "up")

\* A step that keeps the timer, or arms it, keeps a pending connection polled.
LEMMA PolledNext ==
  ASSUME TypeOK, PendingIsPolled, NEW s \in Seq(Frame), KeepsPolling(s),
         \/ s = stack
         \/ s = Below /\ stack # <<>> /\ Top.at # "poll"
  PROVE  PendingIsPolled'
<1>1. SUFFICES ASSUME conn' # NoConn, ~conn'.date, tunnel' = "up", ~timer'
               PROVE  HasPoll(stack')
  BY DEF PendingIsPolled, HasPoll
<1>2. conn' = conn /\ tunnel = "up" /\ ~timer
  BY <1>1 DEF KeepsPolling
<1>3. HasPoll(stack)
  BY <1>1, <1>2 DEF PendingIsPolled, HasPoll
<1>4. HasPoll(s)
  BY <1>3, PollStaysBelow DEF TypeOK
<1>5. QED
  BY <1>4, PollStaysUnder DEF KeepsPolling

\* No command of a client stops the handshake timer of a connection it keeps.
LEMMA CommandKeepsPolling ==
  ASSUME TypeOK, NEW c \in Clients, Command(c)
  PROVE  KeepsPolling(stack)
<1>1. ASSUME NEW cfg \in Configs, ActivateFresh(c, cfg) PROVE KeepsPolling(stack)
  BY <1>1 DEF ActivateFresh, BringUp, StartTunnel, Fail, Return, Ask, KeepsPolling
<1>2. ASSUME NEW cfg \in Configs, SwitchServer(c, cfg) PROVE KeepsPolling(stack)
  BY <1>2 DEF SwitchServer, Fail, Return, Ask, KeepsPolling
<1>3. ASSUME NEW next, DeactivatePeer(c, next) PROVE KeepsPolling(stack)
  BY <1>3 DEF DeactivatePeer, Ask, KeepsPolling
<1>4. ASSUME DeactivateIdle PROVE KeepsPolling(stack)
  BY <1>4 DEF DeactivateIdle, DeactivateRest, KeepsPolling
<1>5. ASSUME ActivateInvalid(c) \/ GetStatus(c) PROVE KeepsPolling(stack)
  BY <1>5 DEF ActivateInvalid, GetStatus, Fail, Return, Ask, daemonVars, hostVars,
              KeepsPolling
<1>6. QED
  BY <1>1, <1>2, <1>3, <1>4, <1>5 DEF Command, Activate, Deactivate

\* Nor does a continuation other than the one of the poll itself.
LEMMA ResumeKeepsPolling ==
  ASSUME TypeOK, Resume
  PROVE  AfterPoll \/ (stack # <<>> /\ Top.at # "poll" /\ KeepsPolling(Below))
<1>1. CASE AfterName
  BY <1>1 DEF AfterName, Fail, Return, Ask, KeepsPolling
<1>2. CASE AfterConfig
  BY <1>2 DEF AfterConfig, BringUp, Fail, Return, Ask, KeepsPolling
<1>3. CASE AfterPeer
  BY <1>3 DEF AfterPeer, PeerReady, Fail, Return, KeepsPolling
<1>4. CASE AfterSwitchPeer
  BY <1>4 DEF AfterSwitchPeer, SwitchRoutesReady, SwitchRouteFailed, CompleteSwitch,
              Fail, Return, Ask, KeepsPolling
<1>5. CASE AfterSwitchRestore
  BY <1>5 DEF AfterSwitchRestore, Fail, Return, KeepsPolling
<1>6. CASE AfterSwitchDelete
  BY <1>6 DEF AfterSwitchDelete, CompleteSwitch, Fail, Return, KeepsPolling
<1>7. CASE AfterDelete
  BY <1>7 DEF AfterDelete, DeactivateRest, StartTunnel, Fail, Return, KeepsPolling
<1>8. CASE AfterStatus
  BY <1>8 DEF AfterStatus, Return, daemonVars, hostVars, KeepsPolling
<1>9. QED
  BY <1>1, <1>2, <1>3, <1>4, <1>5, <1>6, <1>7, <1>8 DEF Resume

\* An answer leaves the polls under way where they are.
LEMMA AnswerKeepsPolls ==
  ASSUME TypeOK, NEW i \in 1 .. Len(stack), AnswerOk(i) \/ AnswerErr(i), HasPoll(stack)
  PROVE  HasPoll(stack')
<1>1. PICK j \in 1 .. Len(stack) : stack[j].at = "poll"
  BY DEF HasPoll
<1>2. PICK f : stack' = [stack EXCEPT ![i] = f] /\ f.at = stack[i].at /\ f \in Frame
  <2>1. stack[i] \in Frame
    BY ElementOfSeq DEF TypeOK
  <2> DEFINE S == IF stack[i].at = "poll"
                  THEN {k \in PubKeys : peers[k] = "shaken"} ELSE {}
  <2>2. CASE AnswerOk(i)
    <3>1. stack' = [stack EXCEPT ![i] = [stack[i] EXCEPT !.rep = "ok", !.seen = S]]
      BY <2>2 DEF AnswerOk
    <3>2. S \in SUBSET PubKeys
      OBVIOUS
    <3> HIDE DEF S
    <3>3. [stack[i] EXCEPT !.rep = "ok", !.seen = S] \in Frame
      BY <2>1, <3>2 DEF Frame, FrameFields
    <3>4. [stack[i] EXCEPT !.rep = "ok", !.seen = S].at = stack[i].at
      BY <2>1 DEF Frame, FrameFields
    <3>5. QED
      BY <3>1, <3>3, <3>4
  <2>3. CASE AnswerErr(i)
    <3>1. stack' = [stack EXCEPT ![i] = [stack[i] EXCEPT !.rep = "err"]]
      BY <2>3 DEF AnswerErr
    <3>2. [stack[i] EXCEPT !.rep = "err"] \in Frame
      BY <2>1 DEF Frame, FrameFields
    <3>3. [stack[i] EXCEPT !.rep = "err"].at = stack[i].at
      BY <2>1 DEF Frame, FrameFields
    <3>4. QED
      BY <3>1, <3>2, <3>3
  <2>4. QED
    BY <2>2, <2>3
<1>3. Len(stack') = Len(stack) /\ stack'[j] = IF j = i THEN f ELSE stack[j]
  BY <1>1, <1>2, ExceptSeq DEF TypeOK
<1>4. stack'[j].at = "poll" /\ j \in 1 .. Len(stack')
  BY <1>1, <1>2, <1>3
<1>5. QED
  BY <1>4 DEF HasPoll

\* What happens around the daemon keeps a pending connection polled.
LEMMA EnvironmentKeepsPolling ==
  ASSUME TypeOK, PendingIsPolled, Environment
  PROVE  PendingIsPolled'
<1>1. CASE \E i \in 1 .. Len(stack) : AnswerOk(i) \/ AnswerErr(i)
  <2>1. PICK i \in 1 .. Len(stack) : AnswerOk(i) \/ AnswerErr(i)
    BY <1>1
  <2>2. conn' = conn /\ timer' = timer /\ tunnel' = tunnel
    BY <2>1 DEF AnswerOk, AnswerErr, daemonVars, hostVars
  <2>3. HasPoll(stack) => HasPoll(stack')
    BY <2>1, AnswerKeepsPolls
  <2>4. QED
    BY <2>2, <2>3 DEF PendingIsPolled, HasPoll
<1>2. CASE (\E k \in PubKeys : Handshake(k)) \/ GatewayLost \/ GatewayBack
  BY <1>2 DEF Handshake, GatewayLost, GatewayBack, daemonVars, PendingIsPolled
<1>3. CASE TunnelExits \/ Crash
  BY <1>3 DEF TunnelExits, Crash, PendingIsPolled
<1>4. QED
  BY <1>1, <1>2, <1>3 DEF Environment

\* checkHandshake arms the timer again while a connection is pending.
LEMMA TimerKeepsPolling ==
  ASSUME TypeOK, PendingIsPolled, CheckHandshake \/ AfterPoll
  PROVE  PendingIsPolled'
<1>1. CASE CheckHandshake
  <2>1. PICK f : stack' = Append(stack, f) /\ f.at = "poll"
    BY <1>1 DEF CheckHandshake, Ask
  <2>2. Len(stack') = Len(stack) + 1 /\ stack'[Len(stack) + 1] = f /\ Len(stack) \in Nat
    BY <2>1 DEF TypeOK
  <2>3. HasPoll(stack')
    BY <2>1, <2>2 DEF HasPoll
  <2>4. QED
    BY <2>3 DEF PendingIsPolled, HasPoll
<1>2. CASE AfterPoll
  <2>1. conn' # NoConn /\ ~conn'.date => timer'
    <3>1. CASE conn = NoConn \/ conn.date
      BY <1>2, <3>1 DEF AfterPoll
    <3>2. CASE ~(conn = NoConn \/ conn.date)
      <4>1. [conn EXCEPT !.date = TRUE].date = TRUE
        BY <3>2 DEF TypeOK
      <4>2. QED
        BY <1>2, <3>2, <4>1 DEF AfterPoll
    <3>3. QED
      BY <3>1, <3>2
  <2>2. QED
    BY <2>1 DEF PendingIsPolled
<1>3. QED
  BY <1>1, <1>2

\* As long as the tunnel is up, a recorded connection whose handshake is not
\* confirmed is polled again: no nesting of commands, polls, time-outs and
\* failures makes the daemon forget it.
THEOREM DaemonPolls == Spec => []PendingIsPolled
<1>1. Init => PendingIsPolled
  BY DEF Init, PendingIsPolled
<1>2. TypeOK /\ PendingIsPolled /\ [Next]_vars => PendingIsPolled'
  <2> SUFFICES ASSUME TypeOK, PendingIsPolled, [Next]_vars PROVE PendingIsPolled'
    OBVIOUS
  <2>1. CASE \E c \in Clients : Command(c)
    BY <2>1, CommandKeepsPolling, PolledNext DEF TypeOK
  <2>2. CASE Resume
    BY <2>2, ResumeKeepsPolling, TimerKeepsPolling, PolledNext, TopAndBelow DEF TypeOK
  <2>3. CASE CheckHandshake
    BY <2>3, TimerKeepsPolling
  <2>4. CASE Environment
    BY <2>4, EnvironmentKeepsPolling
  <2>5. CASE UNCHANGED vars
    BY <2>5 DEF vars, daemonVars, hostVars, PendingIsPolled
  <2>6. QED
    BY <2>1, <2>2, <2>3, <2>4, <2>5 DEF Next
<1>3. QED
  BY <1>1, <1>2, DaemonTypes, PTL DEF Spec

-----------------------------------------------------------------------------
(* The kill switch.                                                        *)

\* No step lifts the kill switch rules and keeps a connection: the only code
\* that lifts them, deleteInterface, runs after m_connections.clear() without
\* a wait in between.
THEOREM DaemonKeepsKillSwitch == Spec => KillSwitchHolds
<1>1. TypeOK /\ [Next]_vars
        => [conn # NoConn /\ conn' # NoConn /\ fw # NoConfig => fw' # NoConfig]_vars
  <2> SUFFICES ASSUME TypeOK, Next, conn' # NoConn, fw # NoConfig
               PROVE  fw' # NoConfig
    OBVIOUS
  <2>1. ASSUME NEW c \in Clients, Command(c) PROVE fw' # NoConfig
    BY <2>1 DEF Command, Activate, ActivateFresh, SwitchServer, ActivateInvalid,
       Deactivate, DeactivatePeer, DeactivateIdle, DeactivateRest, GetStatus, hostVars
  <2>2. CASE AfterConfig
    <3>1. Top.cfg \in Configs
      BY <2>2, TopAndBelow DEF AfterConfig, TypeOK, Frame
    <3>2. QED
      BY <2>2, <3>1, NullsAreFresh DEF AfterConfig
  <2>3. CASE Resume /\ ~AfterConfig
    BY <2>3 DEF Resume, AfterName, AfterPeer, AfterSwitchPeer, AfterSwitchRestore,
       AfterSwitchDelete, AfterDelete, DeactivateRest, AfterStatus, AfterPoll, hostVars
  <2>4. CASE CheckHandshake \/ Environment
    BY <2>4 DEF CheckHandshake, Environment, AnswerOk, AnswerErr, Handshake,
       TunnelExits, GatewayLost, GatewayBack, Crash, hostVars
  <2>5. QED
    BY <2>1, <2>2, <2>3, <2>4 DEF Next
<1>2. QED
  BY <1>1, DaemonTypes, PTL DEF Spec, KillSwitchHolds
=============================================================================
