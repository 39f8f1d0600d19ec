------------------------------- MODULE Daemon -------------------------------
(***************************************************************************)
(* The WireGuard daemon of the privileged service, Linux build: class      *)
(* Daemon on top of WireguardUtilsLinux, LinuxRouteMonitor, DnsUtilsLinux  *)
(* and IPUtilsLinux, driven by one DaemonLocalServerConnection per client  *)
(* socket and by the handshake timer.                                      *)
(*                                                                         *)
(* Everything runs on ONE thread, but every request to the amneziawg-go    *)
(* process (uapiCommand, waitForTunnelName) spins the Qt event loop while  *)
(* it waits.  A second command or the timer may therefore start in the     *)
(* middle of a first one, and finishes before the first one goes on.  The  *)
(* thread is modelled as a stack of suspended calls: an action runs the    *)
(* code from one wait to the next, and only the top of the stack resumes.  *)
(***************************************************************************)
EXTENDS Integers, Sequences

CONSTANTS
  Clients,     \* sockets accepted by DaemonLocalServer
  Prefixes,    \* values of IPAddress that exclusion routes are made of
  Ranges,      \* allowed IP ranges routed into the tunnel
  DefaultNets, \* the ranges whose prefix length is 0
  Identities,  \* private key, device addresses and gateways of a config
  PubKeys,     \* public keys of servers
  Configs,     \* the InterfaceConfigs that clients may send
  MaxDepth,    \* bound: nested calls on the stack
  MaxRefs,     \* bound: reference count of an excluded address
  MaxDeaths,   \* bound: spontaneous exits of the tunnel process
  MaxDrops,    \* bound: losses of the default gateway
  MaxCrashes,  \* bound: crashes of the service process
  NoClient, NoConfig

(***************************************************************************)
(* A config, as far as the daemon tells configs apart.  The strings of     *)
(* m_excludedAddresses are counted per prefix they denote: plain[p] of     *)
(* them are bare addresses, cidr[p] carry a "/length".                     *)
(***************************************************************************)
InterfaceConfig ==
  [id: Identities, pub: PubKeys, host: Prefixes, ranges: SUBSET Ranges,
   plain: [Prefixes -> Nat], cidr: [Prefixes -> Nat], ks: BOOLEAN]

ASSUME ConfigsAreConfigs == Configs \subseteq InterfaceConfig
ASSUME BoundsAreNaturals ==
  /\ MaxDepth \in Nat /\ MaxRefs \in Nat
  /\ MaxDeaths \in Nat /\ MaxDrops \in Nat /\ MaxCrashes \in Nat
ASSUME NullsAreFresh == NoClient \notin Clients /\ NoConfig \notin Configs

VARIABLES
  stack,    \* suspended calls, the running one last
  conn,     \* m_connections (one hop): config and whether m_date is set
  excl,     \* m_excludedAddrSet: reference counts, Absent when no key
  timer,    \* m_handshakeTimer is active
  tunnel,   \* the amneziawg-go process: "off", "up" or "killed"
  rtmon,    \* m_rtmonitor # nullptr
  fw,       \* the config whose kill switch rules are installed
  dns,      \* the resolvers of the tunnel are set
  peers,    \* the device's peers: "none", "new" or "shaken"
  xroutes,  \* exclusion routes in the kernel
  troutes,  \* routes through the tunnel in the kernel
  gw,       \* a default gateway exists
  told,     \* last "connected"/"disconnected" written to each socket
  asserted, \* why Q_ASSERTs of delExclusionRoute were evaluated to false so far
  faults    \* how often the environment failed so far

daemonVars == <<conn, excl, timer, told, asserted>>
hostVars   == <<tunnel, rtmon, fw, dns, peers, xroutes, troutes, gw>>
vars       == <<stack, daemonVars, hostVars, faults>>

Absent == -1
NoConn == [cfg |-> NoConfig, date |-> FALSE]

-----------------------------------------------------------------------------
(* Calls suspended in a nested event loop.                                 *)

\* What a suspended call waits for.
Waits == {"name", "config", "peer",          \* activate
          "speer", "srestore", "sdel",       \* switchServer
          "del",                             \* deactivate
          "poll", "status"}                  \* checkHandshake, getStatus

FrameFields ==
  [at: Waits, c: Clients \cup {NoClient},
   cfg: Configs \cup {NoConfig},  \* the config being worked on
   old: Configs \cup {NoConfig},  \* switch: the previous config
   next: Configs \cup {NoConfig}, \* deactivate: activate this next
   rep: {"refused", "wait", "ok", "err"}, seen: SUBSET PubKeys]

Frame == {f \in FrameFields :
            /\ f.at \notin {"poll", "status"} => f.cfg \in Configs
            /\ f.at \in {"speer", "srestore", "sdel"} => f.old \in Configs}

Top   == stack[Len(stack)]
Below == SubSeq(stack, 1, Len(stack) - 1)

\* Events are dispatched by the outer loop, or by the loop of a call that
\* waits; a call whose socket was refused returns without dispatching any.
Dispatching == stack # <<>> => Top.rep # "refused"

\* readyRead is not emitted again from within its own slot: a socket has at
\* most one command in progress.
Idle(c) == \A i \in 1 .. Len(stack) : stack[i].c # c

\* Mutant: the arguments for the old and for the next config are swapped.
Ask_Swapped(below, at, c, cfg, old, next) ==
  stack' = Append(below, [at |-> at, c |-> c, cfg |-> cfg, old |-> next,
                          next |-> old, seen |-> {},
                          rep |-> IF tunnel = "up" THEN "wait" ELSE "refused"])

\* A call enters uapiCommand: without a tunnel the connection is refused.
Ask(below, at, c, cfg, old, next) ==
  stack' = Append(below, [at |-> at, c |-> c, cfg |-> cfg, old |-> old,
                          next |-> next, seen |-> {},
                          rep |-> IF tunnel = "up" THEN "wait" ELSE "refused"])

Return(below) == stack' = below

\* A failed activate: "disconnected" goes to the requesting socket only.
Fail(below, c) ==
  /\ Return(below)
  /\ told' = [told EXCEPT ![c] = "disconnected"]

Broadcast(what) == told' = [c \in Clients |-> what]

-----------------------------------------------------------------------------
(* Reference-counted exclusion routes.                                     *)

Count(p) == IF excl[p] = Absent THEN 0 ELSE excl[p]

\* requestedPrefixes: IPAddress(string) reads both forms of an address.
Requested(cfg) == [p \in Prefixes |-> cfg.plain[p] + cfg.cidr[p]]

\* Mutant: no string of the old config is recognised.
HostOnly_None(cfg) == [p \in Prefixes |-> 0]

\* What QHostAddress(string) reads of the same list: bare addresses only.
HostOnly(cfg) == cfg.plain

\* LinuxRouteMonitor needs to exist and to find a default gateway.
CanRouteAround == rtmon /\ gw

NewPrefixes(cfg) == {p \in Prefixes : Requested(cfg)[p] > 0 /\ excl[p] = Absent}

CanAddExclusionRoutes(cfg) == NewPrefixes(cfg) = {} \/ CanRouteAround

\* addExclusionRoutes followed by updatePeer's own route to the server.
AddExclusionRoutes(cfg) ==
  /\ CanAddExclusionRoutes(cfg)
  /\ \A p \in Prefixes : Count(p) + Requested(cfg)[p] <= MaxRefs
  /\ excl' = [p \in Prefixes |-> IF Requested(cfg)[p] = 0 THEN excl[p]
                                 ELSE Count(p) + Requested(cfg)[p]]
  /\ xroutes' = xroutes \cup NewPrefixes(cfg)
                        \cup (IF CanRouteAround THEN {cfg.host} ELSE {})

\* Mutant: the first deletion drops the key whatever its count is.
ExclAfterDel_Uncounted(n) ==
  [p \in Prefixes |-> IF n[p] = 0 THEN excl[p] ELSE Absent]

\* delExclusionRoute called n[p] times for every p.  A key that is missing
\* is inserted with 0 by operator[], and stays when its route cannot be
\* deleted.
ExclAfterDel(n) ==
  [p \in Prefixes |->
     IF n[p] = 0 THEN excl[p]
     ELSE IF n[p] < Count(p) THEN Count(p) - n[p]
     ELSE IF CanRouteAround THEN Absent
     ELSE IF Count(p) = 0 THEN 0 ELSE 1]

RoutesAfterDel(n) ==
  IF CanRouteAround
  THEN xroutes \ {p \in Prefixes : n[p] > 0 /\ n[p] >= Count(p)}
  ELSE xroutes

\* Q_ASSERT(m_excludedAddrSet.contains(prefix)) fails in one of the calls.
DelAsserts(n) ==
  \E p \in Prefixes :
     /\ n[p] > 0
     /\ \/ excl[p] = Absent
        \/ CanRouteAround /\ n[p] > Count(p) /\ n[p] > 1

DelExclusionRoutes(n) ==
  /\ excl' = ExclAfterDel(n)
  /\ xroutes' = RoutesAfterDel(n)
  /\ asserted' = asserted \cup (IF DelAsserts(n) THEN {"unheld"} ELSE {})

\* deleteRoutePrefix: only the two halves of a default route are deleted; any
\* other prefix is inserted again.
DeleteRoutes(routes, nets) ==
  IF rtmon /\ tunnel = "up"
  THEN (routes \ (nets \cap DefaultNets)) \cup (nets \ DefaultNets)
  ELSE routes

-----------------------------------------------------------------------------
(* activate, when no connection exists.                                    *)

\* After the interface exists: addresses and MTU, exclusion routes, and the
\* request that adds the peer.
BringUp(below, c, cfg) ==
  /\ UNCHANGED <<conn, timer, dns, troutes>>
  /\ \/ \* addInterfaceIPs or setMTUAndUp fails, or addExclusionRoutes does
        /\ Fail(below, c)
        /\ UNCHANGED <<excl, xroutes, asserted>>
     \/ /\ tunnel = "up"
        /\ AddExclusionRoutes(cfg)
        /\ Ask(below, "peer", c, cfg, NoConfig, NoConfig)
        /\ UNCHANGED <<told, asserted>>

\* addInterface starts the tunnel process and waits for its socket.
StartTunnel(below, c, cfg) ==
  \/ /\ tunnel' = "up"
     /\ stack' = Append(below, [at |-> "name", c |-> c, cfg |-> cfg,
                                old |-> NoConfig, next |-> NoConfig,
                                rep |-> "wait", seen |-> {}])
     /\ UNCHANGED told
  \/ /\ tunnel' = "off"
     /\ Fail(below, c)

ActivateFresh(c, cfg) ==
  /\ conn = NoConn
  /\ \/ /\ tunnel = "off"
        /\ StartTunnel(stack, c, cfg)
        /\ UNCHANGED <<conn, excl, timer, asserted, dns, xroutes, troutes>>
     \/ /\ tunnel # "off"
        /\ BringUp(stack, c, cfg)
        /\ UNCHANGED tunnel
  /\ UNCHANGED <<rtmon, fw, peers, gw, faults>>

\* waitForTunnelName returned; the interface is configured next.
AfterName ==
  /\ stack # <<>> /\ Top.at = "name"
  /\ \/ /\ tunnel = "up"
        /\ rtmon' = TRUE
        /\ Ask(Below, "config", Top.c, Top.cfg, NoConfig, NoConfig)
        /\ UNCHANGED <<told, tunnel>>
     \/ /\ Fail(Below, Top.c)
        /\ tunnel' = IF tunnel = "up" THEN "killed" ELSE tunnel
        /\ UNCHANGED rtmon
  /\ UNCHANGED <<conn, excl, timer, asserted, fw, dns, peers, xroutes, troutes,
                 gw, faults>>

\* The reply to the interface configuration: the firewall is set up, and on
\* an error the tunnel process is left running.
AfterConfig ==
  /\ stack # <<>> /\ Top.at = "config"
  /\ IF Top.rep = "ok"
     THEN /\ fw' = IF Top.cfg.ks THEN Top.cfg ELSE fw
          /\ BringUp(Below, Top.c, Top.cfg)
     ELSE /\ Fail(Below, Top.c)
          /\ UNCHANGED <<fw, conn, excl, timer, asserted, dns, xroutes, troutes>>
  /\ UNCHANGED <<tunnel, rtmon, peers, gw, faults>>

\* updatePeer, the resolvers and every route succeeded.
PeerReady ==
  /\ Top.rep = "ok" /\ tunnel = "up"
  /\ rtmon \/ Top.cfg.ranges = {}
  /\ dns' = TRUE
  /\ troutes' = troutes \cup Top.cfg.ranges
  /\ conn' = [cfg |-> Top.cfg, date |-> FALSE]
  /\ timer' = TRUE
  /\ Return(Below)
  /\ UNCHANGED <<excl, xroutes, asserted, told>>

\* updatePeer or the resolvers failed.
PeerFailed ==
  /\ Top.rep # "ok" \/ tunnel # "up"
  /\ UNCHANGED <<dns, troutes>>

\* updateRoutePrefix failed after the ranges in `done`.
RouteFailed ==
  /\ Top.rep = "ok" /\ tunnel = "up"
  /\ dns' = TRUE
  /\ \E done \in SUBSET Top.cfg.ranges :
       /\ done # Top.cfg.ranges
       /\ rtmon \/ done = {}
       /\ troutes' = troutes \cup done

\* The reply to updatePeer.  exclusionRoutesGuard undoes the exclusion routes
\* on any failure.
AfterPeer ==
  /\ stack # <<>> /\ Top.at = "peer"
  /\ \/ PeerReady
     \/ /\ PeerFailed \/ RouteFailed
        /\ DelExclusionRoutes(Requested(Top.cfg))
        /\ Fail(Below, Top.c)
        /\ UNCHANGED <<conn, timer>>
  /\ UNCHANGED <<tunnel, rtmon, fw, peers, gw, faults>>

-----------------------------------------------------------------------------
(* activate, when a connection exists: switchServer, or deactivate first.  *)

\* Identities stand for private key, device addresses and gateways.
SupportServerSwitching(cfg) == conn # NoConn /\ conn.cfg.id = cfg.id

SwitchServer(c, cfg) ==
  /\ SupportServerSwitching(cfg)
  /\ \/ /\ AddExclusionRoutes(cfg)
        /\ Ask(stack, "speer", c, cfg, conn.cfg, NoConfig)
        /\ UNCHANGED told
     \/ /\ ~CanAddExclusionRoutes(cfg)
        /\ Fail(stack, c)
        /\ UNCHANGED <<excl, xroutes>>
  /\ UNCHANGED <<conn, timer, asserted, tunnel, rtmon, fw, dns, peers, troutes,
                 gw, faults>>

\* Mutant: the handshake timer is not started after a switch.
CompleteSwitch_NoTimer(below, c, cfg) ==
  /\ conn' = [cfg |-> cfg, date |-> FALSE]
  /\ UNCHANGED timer
  /\ IF tunnel = "up"
     THEN dns' = TRUE /\ Return(below) /\ UNCHANGED told
     ELSE dns' = FALSE /\ Fail(below, c)

\* The end of switchServer and of activate's switch branch: the resolvers are
\* set again, which fails when the interface is gone.
CompleteSwitch(below, c, cfg) ==
  /\ conn' = [cfg |-> cfg, date |-> FALSE]
  /\ IF tunnel = "up"
     THEN dns' = TRUE /\ timer' = TRUE /\ Return(below) /\ UNCHANGED told
     ELSE dns' = FALSE /\ UNCHANGED timer /\ Fail(below, c)

\* The new peer and all its routes are in place: the old exclusions, routes
\* and (with another key) the old peer are removed.  A string with a length is
\* read as the null address, which is not in the set: its assertion fails, and
\* its reference stays.
SwitchRoutesReady(cfg, old) ==
  /\ (rtmon /\ tunnel = "up") \/ cfg.ranges = {}
  /\ excl' = ExclAfterDel(HostOnly(old))
  /\ asserted' = asserted \cup (IF DelAsserts(HostOnly(old)) THEN {"unheld"} ELSE {})
                        \cup (IF \E p \in Prefixes : old.cidr[p] > 0 THEN {"unread"} ELSE {})
  /\ troutes' = DeleteRoutes(troutes \cup cfg.ranges, old.ranges \ cfg.ranges)
  /\ IF cfg.pub = old.pub
     THEN /\ xroutes' = RoutesAfterDel(HostOnly(old))
          /\ CompleteSwitch(Below, Top.c, cfg)
     ELSE /\ xroutes' = RoutesAfterDel(HostOnly(old))
                          \ (IF CanRouteAround THEN {old.host} ELSE {})
          /\ Ask(Below, "sdel", Top.c, cfg, old, NoConfig)
          /\ UNCHANGED <<conn, timer, dns, told>>

\* A route failed after those in `done`: they are undone, and the old peer is
\* restored before the guard runs.
SwitchRouteFailed(cfg, old) ==
  /\ \E done \in SUBSET cfg.ranges :
       /\ done # cfg.ranges
       /\ (rtmon /\ tunnel = "up") \/ done = {}
       /\ troutes' = DeleteRoutes(troutes \cup done, done \ old.ranges)
  /\ xroutes' = xroutes \cup (IF CanRouteAround THEN {old.host} ELSE {})
  /\ Ask(Below, "srestore", Top.c, cfg, old, NoConfig)
  /\ UNCHANGED <<conn, excl, timer, asserted, dns, told>>

AfterSwitchPeer ==
  /\ stack # <<>> /\ Top.at = "speer"
  /\ \/ /\ Top.rep = "ok"
        /\ SwitchRoutesReady(Top.cfg, Top.old) \/ SwitchRouteFailed(Top.cfg, Top.old)
     \/ /\ Top.rep # "ok"
        /\ DelExclusionRoutes(Requested(Top.cfg))
        /\ Fail(Below, Top.c)
        /\ UNCHANGED <<conn, timer, dns, troutes>>
  /\ UNCHANGED <<tunnel, rtmon, fw, peers, gw, faults>>

AfterSwitchRestore ==
  /\ stack # <<>> /\ Top.at = "srestore"
  /\ DelExclusionRoutes(Requested(Top.cfg))
  /\ Fail(Below, Top.c)
  /\ UNCHANGED <<conn, timer, tunnel, rtmon, fw, dns, peers, troutes, gw, faults>>

\* The reply to deletePeer(old): on an error the old config stays recorded.
AfterSwitchDelete ==
  /\ stack # <<>> /\ Top.at = "sdel"
  /\ IF Top.rep = "ok"
     THEN CompleteSwitch(Below, Top.c, Top.cfg)
     ELSE Fail(Below, Top.c) /\ UNCHANGED <<conn, timer, dns>>
  /\ UNCHANGED <<excl, asserted, tunnel, rtmon, fw, peers, xroutes, troutes, gw,
                 faults>>

-----------------------------------------------------------------------------
(* deactivate.                                                             *)

\* Resolvers, routes and the peer of the connection; then wait for the peer's
\* deletion.  `next` is the config activate goes on with, if it was the caller.
DeactivatePeer(c, next) ==
  /\ conn # NoConn
  /\ dns' = FALSE
  /\ troutes' = DeleteRoutes(troutes, conn.cfg.ranges)
  /\ xroutes' = xroutes \ (IF CanRouteAround THEN {conn.cfg.host} ELSE {})
  /\ Ask(stack, "del", c, conn.cfg, NoConfig, next)
  /\ UNCHANGED <<conn, excl, timer, asserted, tunnel, rtmon, fw, peers, gw, faults>>

\* Mutant: the set is cleared without deleting the routes.
DeactivateRest_KeepsRoutes ==
  /\ excl' = [p \in Prefixes |-> Absent]
  /\ xroutes' = xroutes
  /\ conn' = NoConn
  /\ rtmon' = FALSE

\* Mutant: m_connections is not cleared.
DeactivateRest_KeepsConnection ==
  /\ excl' = [p \in Prefixes |-> Absent]
  /\ xroutes' = IF CanRouteAround
                THEN xroutes \ {p \in Prefixes : excl[p] # Absent} ELSE xroutes
  /\ conn' = conn
  /\ rtmon' = FALSE

\* Every excluded address, the connection and the route monitor go.
DeactivateRest ==
  /\ excl' = [p \in Prefixes |-> Absent]
  /\ xroutes' = IF CanRouteAround
                THEN xroutes \ {p \in Prefixes : excl[p] # Absent} ELSE xroutes
  /\ conn' = NoConn
  /\ rtmon' = FALSE

\* deleteInterface: without a tunnel process it returns false and never gets
\* to disableKillSwitch.
DeleteInterface ==
  IF tunnel = "off"
  THEN UNCHANGED <<fw, peers, troutes>>
  ELSE fw' = NoConfig /\ troutes' = {} /\ peers' = [k \in PubKeys |-> "none"]

\* deactivate(true) without a connection does not wait for anything.
DeactivateIdle ==
  /\ conn = NoConn
  /\ DeactivateRest
  /\ DeleteInterface
  /\ tunnel' = "off"
  /\ dns' = FALSE
  /\ UNCHANGED <<stack, timer, asserted, gw, faults>>

\* The reply to deletePeer, whatever it is.
AfterDelete ==
  /\ stack # <<>> /\ Top.at = "del"
  /\ DeactivateRest
  /\ DeleteInterface
  /\ \/ /\ Top.next = NoConfig
        /\ tunnel' = "off"
        /\ Return(Below)
        /\ UNCHANGED told
     \/ /\ Top.next # NoConfig /\ tunnel = "off"
        /\ tunnel' = "off"
        /\ Fail(Below, Top.c)
     \/ /\ Top.next # NoConfig /\ tunnel # "off"
        /\ StartTunnel(Below, Top.c, Top.next)
  /\ UNCHANGED <<timer, asserted, dns, gw, faults>>

-----------------------------------------------------------------------------
(* Commands of a socket (parseCommand).                                    *)

Accepts(c) == Dispatching /\ Idle(c) /\ Len(stack) < MaxDepth

Activate(c, cfg) ==
  /\ Accepts(c)
  /\ \/ ActivateFresh(c, cfg)
     \/ SwitchServer(c, cfg)
     \/ /\ conn # NoConn /\ ~SupportServerSwitching(cfg)
        /\ DeactivatePeer(c, cfg)
        /\ UNCHANGED told

\* An activate whose parseConfig fails.
ActivateInvalid(c) ==
  /\ Accepts(c)
  /\ Fail(stack, c)
  /\ UNCHANGED <<conn, excl, timer, asserted, hostVars, faults>>

Deactivate(c) ==
  /\ Accepts(c)
  /\ Broadcast("disconnected")
  /\ DeactivateIdle \/ DeactivatePeer(c, NoConfig)

\* getStatus asks the tunnel only when there is a connection to report on.
GetStatus(c) ==
  /\ Accepts(c)
  /\ tunnel # "off" /\ conn # NoConn
  /\ Ask(stack, "status", c, NoConfig, NoConfig, NoConfig)
  /\ UNCHANGED <<daemonVars, hostVars, faults>>

AfterStatus ==
  /\ stack # <<>> /\ Top.at = "status"
  /\ Return(Below)
  /\ UNCHANGED <<daemonVars, hostVars, faults>>

-----------------------------------------------------------------------------
(* The handshake timer.                                                    *)

CheckHandshake ==
  /\ timer /\ Dispatching /\ Len(stack) < MaxDepth
  /\ timer' = FALSE
  /\ Ask(stack, "poll", NoClient, NoConfig, NoConfig, NoConfig)
  /\ UNCHANGED <<conn, excl, told, asserted, hostVars, faults>>

\* The peers of the reply are compared with the connection of NOW.
AfterPoll ==
  /\ stack # <<>> /\ Top.at = "poll"
  /\ Return(Below)
  /\ IF conn = NoConn \/ conn.date
     THEN UNCHANGED <<conn, timer, told>>
     ELSE IF conn.cfg.pub \in Top.seen
     THEN /\ conn' = [conn EXCEPT !.date = TRUE]
          /\ Broadcast("connected")
          /\ UNCHANGED timer
     ELSE timer' = TRUE /\ UNCHANGED <<conn, told>>
  /\ UNCHANGED <<excl, asserted, hostVars, faults>>

-----------------------------------------------------------------------------
(* The environment: the tunnel process, the network, crashes.              *)

AddPeer(cfg) == [peers EXCEPT ![cfg.pub] = IF @ = "none" THEN "new" ELSE @]
RemovePeer(cfg) == [peers EXCEPT ![cfg.pub] = "none"]

\* amneziawg-go executes the request of a waiting call and replies; the call
\* reads the reply when it is on top again, or gives up after its timeout.
AnswerOk(i) ==
  /\ tunnel = "up" /\ stack[i].rep = "wait" /\ stack[i].at # "name"
  /\ stack' = [stack EXCEPT ![i] = [@ EXCEPT !.rep = "ok",
                 !.seen = IF stack[i].at = "poll"
                          THEN {k \in PubKeys : peers[k] = "shaken"} ELSE {}]]
  /\ peers' = CASE stack[i].at = "config" -> [k \in PubKeys |-> "none"]
                [] stack[i].at \in {"peer", "speer"} -> AddPeer(stack[i].cfg)
                [] stack[i].at = "srestore" -> AddPeer(stack[i].old)
                [] stack[i].at = "sdel" -> RemovePeer(stack[i].old)
                [] stack[i].at = "del" -> RemovePeer(stack[i].cfg)
                [] OTHER -> peers
  /\ UNCHANGED <<daemonVars, tunnel, rtmon, fw, dns, xroutes, troutes, gw, faults>>

AnswerErr(i) ==
  /\ tunnel = "up" /\ stack[i].rep = "wait" /\ stack[i].at # "name"
  /\ stack' = [stack EXCEPT ![i] = [@ EXCEPT !.rep = "err"]]
  /\ UNCHANGED <<daemonVars, hostVars, faults>>

\* A peer completes a handshake with its server.
Handshake(k) ==
  /\ tunnel = "up" /\ peers[k] = "new"
  /\ peers' = [peers EXCEPT ![k] = "shaken"]
  /\ UNCHANGED <<stack, daemonVars, tunnel, rtmon, fw, dns, xroutes, troutes, gw,
                 faults>>

\* The process ends by itself, or the kill sent to it takes effect; the
\* interface and its routes go with it.  No slot of the daemon is connected to
\* tunnelErrorOccurred's backendFailure.
TunnelExits ==
  /\ \/ tunnel = "killed" /\ UNCHANGED faults
     \/ /\ tunnel = "up" /\ faults.deaths < MaxDeaths
        /\ faults' = [faults EXCEPT !.deaths = @ + 1]
  /\ tunnel' = "off"
  /\ peers' = [k \in PubKeys |-> "none"]
  /\ troutes' = {}
  /\ UNCHANGED <<stack, daemonVars, rtmon, fw, dns, xroutes, gw>>

\* The default gateway goes away, and the routes through it.
GatewayLost ==
  /\ gw /\ faults.drops < MaxDrops
  /\ gw' = FALSE
  /\ xroutes' = {}
  /\ faults' = [faults EXCEPT !.drops = @ + 1]
  /\ UNCHANGED <<stack, daemonVars, tunnel, rtmon, fw, dns, peers, troutes>>

GatewayBack ==
  /\ ~gw /\ gw' = TRUE
  /\ UNCHANGED <<stack, daemonVars, tunnel, rtmon, fw, dns, peers, xroutes, troutes,
                 faults>>

\* The service dies and systemd restarts it (Restart=always); its control
\* group takes the tunnel process along.  Kernel routes and firewall stay.
Crash ==
  /\ faults.crashes < MaxCrashes
  /\ faults' = [faults EXCEPT !.crashes = @ + 1]
  /\ stack' = <<>> /\ conn' = NoConn /\ timer' = FALSE
  /\ excl' = [p \in Prefixes |-> Absent]
  /\ told' = [c \in Clients |-> "none"]
  /\ tunnel' = "off" /\ rtmon' = FALSE /\ dns' = FALSE /\ troutes' = {}
  /\ peers' = [k \in PubKeys |-> "none"]
  /\ UNCHANGED <<asserted, fw, xroutes, gw>>

-----------------------------------------------------------------------------
Init ==
  /\ stack = <<>> /\ conn = NoConn /\ timer = FALSE
  /\ excl = [p \in Prefixes |-> Absent]
  /\ told = [c \in Clients |-> "none"] /\ asserted = {}
  /\ tunnel = "off" /\ rtmon = FALSE /\ fw = NoConfig /\ dns = FALSE
  /\ peers = [k \in PubKeys |-> "none"]
  /\ xroutes = {} /\ troutes = {} /\ gw = TRUE
  /\ faults = [deaths |-> 0, drops |-> 0, crashes |-> 0]

\* The running call goes on.
Resume ==
  \/ AfterName \/ AfterConfig \/ AfterPeer
  \/ AfterSwitchPeer \/ AfterSwitchRestore \/ AfterSwitchDelete
  \/ AfterDelete \/ AfterStatus \/ AfterPoll

Command(c) ==
  \/ \E cfg \in Configs : Activate(c, cfg)
  \/ ActivateInvalid(c) \/ Deactivate(c) \/ GetStatus(c)

Environment ==
  \/ \E i \in 1 .. Len(stack) : AnswerOk(i) \/ AnswerErr(i)
  \/ \E k \in PubKeys : Handshake(k)
  \/ TunnelExits \/ GatewayLost \/ GatewayBack \/ Crash

Next ==
  \/ \E c \in Clients : Command(c)
  \/ CheckHandshake
  \/ Resume
  \/ Environment

Spec == Init /\ [][Next]_vars

\* A poll is answered, sooner or later, by a tunnel that stays up.
PollAnswered ==
  \E i \in 1 .. Len(stack) : stack[i].at = "poll" /\ AnswerOk(i)

\* Calls return (every wait has a timeout); the event loop serves the timer
\* and hands control back to a waiting poll however many commands arrive.
Fairness ==
  /\ WF_vars(Resume) /\ SF_vars(AfterPoll)
  /\ SF_vars(CheckHandshake) /\ SF_vars(PollAnswered)

FairSpec == Spec /\ Fairness

-----------------------------------------------------------------------------
(* Properties.                                                             *)

\* Every variable has its type.
TypeOK ==
  /\ stack \in Seq(Frame)
  /\ conn \in [cfg: Configs, date: BOOLEAN] \cup {NoConn}
  /\ excl \in [Prefixes -> Nat \cup {Absent}]
  /\ timer \in BOOLEAN /\ rtmon \in BOOLEAN /\ dns \in BOOLEAN
  /\ gw \in BOOLEAN /\ asserted \subseteq {"unheld", "unread"}
  /\ tunnel \in {"off", "up", "killed"}
  /\ fw \in Configs \cup {NoConfig}
  /\ peers \in [PubKeys -> {"none", "new", "shaken"}]
  /\ xroutes \subseteq Prefixes /\ troutes \subseteq Ranges
  /\ told \in [Clients -> {"none", "connected", "disconnected"}]
  /\ faults \in [deaths: 0 .. MaxDeaths, drops: 0 .. MaxDrops,
                 crashes: 0 .. MaxCrashes]

\* No command is suspended: at most the timer's poll or a status request is.
Quiet == \A i \in 1 .. Len(stack) : stack[i].at \in {"poll", "status"}

\* A connection without a handshake is polled: the timer is active or its
\* slot is waiting for the tunnel, whatever was nested into what.  Otherwise
\* `connected` would never be reported for it.
PendingIsPolled ==
  conn # NoConn /\ ~conn.date /\ tunnel = "up" =>
     timer \/ \E i \in 1 .. Len(stack) : stack[i].at = "poll"

\* An address that switchServer can read in every configuration that lists it.
Readable(p) == \A cfg \in Configs : cfg.cidr[p] = 0

\* Between commands exactly the counted prefixes are routed around the tunnel,
\* and without a connection none is.  With one, an address that is listed bare
\* is counted as often as the recorded config lists it: neither a failed
\* activation nor a server switch leaks or loses it.  One that some config lists
\* with a length is never lost, but each switch away from that config leaks its
\* reference and its route until the next deactivate (switchServer gives back
\* QHostAddress(i)).
ExclusionsMatchConnection ==
  Quiet =>
    /\ xroutes = {p \in Prefixes : excl[p] # Absent}
    /\ conn = NoConn => xroutes = {}
    /\ conn # NoConn => \A p \in Prefixes :
         /\ Count(p) >= Requested(conn.cfg)[p]
         /\ Readable(p) => excl[p] = IF Requested(conn.cfg)[p] = 0 THEN Absent
                                     ELSE Requested(conn.cfg)[p]

\* Once the tunnel process is gone nothing of it is left on the host: no kill
\* switch rule, resolver, route or route monitor.
CleanWhenOff ==
  Quiet /\ tunnel = "off" =>
    fw = NoConfig /\ ~dns /\ xroutes = {} /\ troutes = {} /\ ~rtmon

\* While a connection stays recorded no step lifts the kill switch, not even
\* the rest of a deactivate that another command was nested into.
KillSwitchHolds ==
  [][conn # NoConn /\ conn' # NoConn /\ fw # NoConfig => fw' # NoConfig]_vars

\* With one client, whatever fails in between, the addresses the recorded config
\* excludes stay referenced at least as often as it lists them, so that no later
\* command can drop a route the connection still relies on.
ExclusionsAreHeld ==
  Quiet /\ conn # NoConn =>
    \A p \in Prefixes : Count(p) >= Requested(conn.cfg)[p]

\* A completed handshake is reported: it does not stay pending for ever, no
\* matter how commands and polls are nested.
HandshakeIsReported ==
  \A k \in PubKeys :
    (conn # NoConn /\ conn.cfg.pub = k /\ ~conn.date /\ peers[k] = "shaken")
      ~> (conn = NoConn \/ conn.cfg.pub # k \/ conn.date \/ peers[k] # "shaken")

\* With one client, no sequence of activations, switches, failures and
\* deactivations gives back a reference that is not held: where delExclusionRoute
\* is called with an address of a list, Q_ASSERT(m_excludedAddrSet.contains(
\* prefix)) holds.  Strings that switchServer cannot read are not addresses of
\* the list; NeverAsserts is about them.
ExclusionIsKnown == "unheld" \notin asserted

-----------------------------------------------------------------------------
(* The daemon as a ledger of exclusions.                                   *)

\* References a suspended call has taken but may still give back.
Uncommitted(p) ==
  IF \E i \in 1 .. Len(stack) : stack[i].at \in {"peer", "speer", "srestore"}
  THEN LET i == CHOOSE i \in 1 .. Len(stack) : stack[i].at \in {"peer", "speer", "srestore"}
       IN Requested(stack[i].cfg)[p]
  ELSE 0

\* A switch is committed once the old references are given back, before the old
\* peer is deleted.
Committed ==
  IF \E i \in 1 .. Len(stack) : stack[i].at = "sdel"
  THEN stack[CHOOSE i \in 1 .. Len(stack) : stack[i].at = "sdel"].cfg
  ELSE conn.cfg

Ledger == INSTANCE ExclusionLedger WITH
            cfg <- Committed, held <- [p \in Prefixes |-> Count(p) - Uncommitted(p)]

\* With one client, the daemon's commands act on the exclusions as if each took
\* effect at once: whatever step fails, its references are exchanged or none is.
\* A switch keeps the references it cannot read of the configuration before, and
\* one whose old peer cannot be deleted ends with the old configuration and the
\* new references (switchServer returns false after deletePeer).
ActsAsLedger == Ledger!Spec

-----------------------------------------------------------------------------
(* What the repository says of the daemon, refuted by the code.            *)

\* daemon.cpp: delExclusionRoute asserts that the set contains what it is asked
\* to delete, whoever calls it.
NeverAsserts == asserted = {}
=============================================================================
