-------------------------- MODULE KillSwitchProofs --------------------------
(* Proofs about KillSwitch, for every set of hosts and configurations.     *)
EXTENDS KillSwitch, TLAPS

\* The firewall and m_allowedRanges are typed and exempt only named hosts, and no
\* caller links the tunnel's anchor without the two for DNS.
FirewallOK ==
  /\ installed \in BOOLEAN /\ on \subseteq Anchors
  /\ blockNets \subseteq Hosts /\ dnsServers \subseteq Hosts
  /\ allowNets \subseteq Named /\ ranges \subseteq Named
  /\ "allowVPN" \in on => {"allowDNS", "blockDNS"} \subseteq on

\* The anchors that the strict mode relies on.
Blocking ==
  installed /\ "blockIPv6" \in on /\ ("blockAll" \in on \/ "blockNets" \in on)

\* The rest of the type invariant.
ClientOK ==
  /\ appKs \in BOOLEAN /\ appStrict \in BOOLEAN /\ strict \in BOOLEAN
  /\ session \in {NoSession} \cup SessionRecord
  /\ faults \in 0 .. MaxFaults

\* The messages between the page and the thread of VpnConnection.
QueuesOK ==
  /\ pending \in Seq(BOOLEAN) /\ Len(pending) <= MaxQueued
  /\ behind \in 0 .. MaxQueued

\* What a session asks to exempt is remembered until an orderly stop, so that
\* nothing is remembered only if every session was stopped in order.
AskedOK ==
  /\ asked \subseteq Named
  /\ session # NoSession => Exempted(session.cfg) \subseteq asked

\* StrictBlocks speaks of packets; the inductive invariant speaks of the
\* anchors, and needs the chains of a strict service to exist: setAnchorEnabled
\* has no effect on a missing chain.
Inv == ClientOK /\ FirewallOK /\ (strict => Blocking)

Books == QueuesOK /\ AskedOK

\* Named hosts are hosts.
LEMMA NamedHosts ==
  Named \subseteq Hosts /\ Gateways \subseteq Named
BY HostsAreNamed, ConfigsAreTyped DEF Named, VpnConfig

\* What a configuration exempts is named.
LEMMA AllowedIsNamed ==
  ASSUME NEW cfg \in VpnConfigs
  PROVE  /\ AllowedBy(cfg) \subseteq Named /\ cfg.server \in Named
         /\ cfg.sites \subseteq Hosts /\ cfg.dns \subseteq Hosts
         /\ Exempted(cfg) \subseteq Named
<1>1. cfg \in VpnConfig
  BY ConfigsAreTyped
<1>2. cfg.split \in {0, 1, 2} /\ cfg.sites \subseteq Hosts /\ cfg.dns \subseteq Hosts
  BY <1>1 DEF VpnConfig
<1>3. {cfg.server} \cup cfg.sites \subseteq Named
  BY DEF Named
<1> QED BY <1>2, <1>3 DEF AllowedBy, Exempted

\* disableKillSwitch keeps the firewall in order, and a strict service closed.
LEMMA DisableIsSafe ==
  ASSUME FirewallOK, NEW s \in BOOLEAN, DisableKillSwitch(s)
  PROVE  FirewallOK' /\ (s /\ installed => Blocking')
<1>1. CASE ~s
  BY <1>1 DEF FirewallOK, DisableKillSwitch, Uninstall
<1>2. CASE s /\ ~installed
  BY <1>2 DEF FirewallOK, DisableKillSwitch, SetAnchors
<1>3. CASE s /\ installed
  <2>1. on' = (on \cup {"allowLoopback", "blockAll", "blockIPv6"})
                \ (Anchors \ {"allowLoopback", "blockAll", "blockIPv6"})
    BY <1>3 DEF DisableKillSwitch, SetAnchors
  <2>2. "allowVPN" \notin on' /\ "blockAll" \in on' /\ "blockIPv6" \in on'
        /\ on' \subseteq Anchors
    BY <2>1 DEF Anchors, FirewallOK
  <2> QED BY <1>3, <2>2 DEF FirewallOK, DisableKillSwitch, Blocking
<1> QED BY <1>1, <1>2, <1>3

\* disableAllTraffic closes the firewall from any state.
LEMMA DisableAllBlocks ==
  ASSUME FirewallOK, DisableAllTraffic
  PROVE  FirewallOK' /\ Blocking'
BY DEF FirewallOK, DisableAllTraffic, InstallAndSet, Blocking, Anchors

\* An exemption never opens a closed firewall.
LEMMA AddRangeIsSafe ==
  ASSUME FirewallOK, NEW S \in SUBSET Named, AddAllowedRange(S)
  PROVE  FirewallOK' /\ (Blocking => Blocking')
BY DEF FirewallOK, AddAllowedRange, ResetAllowedRange, SetAnchors, Blocking, Anchors

\* The rules of every session block all, or block its sites.
LEMMA RulesBlock ==
  ASSUME FirewallOK, NEW cfg \in VpnConfigs, NEW x \in SUBSET {"allowMarkedXray"},
         ApplyRules(cfg, x)
  PROVE  FirewallOK' /\ Blocking'
<1>1. installed' = TRUE /\ ranges' = ranges
  BY DEF ApplyRules, InstallAndSet
<1>2. /\ allowNets' = AllowedBy(cfg) /\ blockNets' \subseteq Hosts
      /\ dnsServers' \subseteq Hosts
  BY AllowedIsNamed DEF ApplyRules
<1>3. on' = (on \cup (SessionAnchors \cup SplitAnchors(cfg) \cup x))
              \ ({"blockNets", "blockAll", "allowNets"} \ SplitAnchors(cfg))
  BY DEF ApplyRules, InstallAndSet
<1>4. on' \subseteq Anchors
  BY <1>3 DEF FirewallOK, SessionAnchors, SplitAnchors, Anchors
<1>5. /\ "blockIPv6" \in on' /\ ("blockAll" \in on' \/ "blockNets" \in on')
      /\ {"allowDNS", "blockDNS"} \subseteq on'
  BY <1>3 DEF SessionAnchors, SplitAnchors
<1> QED BY <1>1, <1>2, <1>4, <1>5, AllowedIsNamed DEF FirewallOK, Blocking

\* refresh leaves a strict service closed.
LEMMA RefreshIsSafe ==
  ASSUME FirewallOK, NEW b \in BOOLEAN, Refresh(b)
  PROVE  FirewallOK' /\ strict' = b /\ (b => Blocking')
<1>1. CASE b
  BY <1>1, DisableAllBlocks DEF Refresh
<1>2. CASE ~b
  BY <1>2, DisableIsSafe DEF Refresh
<1> QED BY <1>1, <1>2

\* A session that advances keeps its type.
LEMMA AdvanceIsTyped ==
  ASSUME ClientOK, NEW from,
         NEW to \in {"cleaned", "launched", "ready", "up"}, Advance(from, to)
  PROVE  /\ session.cfg \in VpnConfigs
         /\ session' \in SessionRecord
BY DEF ClientOK, SessionRecord, Advance

\* Every step preserves the invariant.
LEMMA NextKeepsInv ==
  ASSUME Inv, QueuesOK, [Next]_vars
  PROVE  Inv'
<1> USE DEF Inv
<1>1. ASSUME OnKillSwitchModeChanged
      PROVE  Inv'
  <2>1. Head(pending) \in BOOLEAN
    BY <1>1 DEF OnKillSwitchModeChanged, QueuesOK
  <2>2. FirewallOK' /\ strict' = Head(pending) /\ (strict' => Blocking')
    BY <1>1, <2>1, RefreshIsSafe DEF OnKillSwitchModeChanged
  <2>3. ClientOK'
    BY <1>1, <2>1, <2>2 DEF OnKillSwitchModeChanged, ClientOK, settings
  <2> QED BY <2>2, <2>3
<1>2. ASSUME \/ \E b \in BOOLEAN : ToggleKillSwitch(b)
             \/ ToggleStrictKillSwitch(FALSE) \/ ShowState
      PROVE  Inv'
  <2>1. UNCHANGED <<strict, firewall, ranges, session, faults>>
    BY <1>2 DEF ToggleKillSwitch, ToggleStrictKillSwitch, ShowState, QueueRefresh
  <2>2. appKs' \in BOOLEAN /\ appStrict' \in BOOLEAN
    BY <1>2 DEF ToggleKillSwitch, ToggleStrictKillSwitch, ShowState, ClientOK, settings
  <2> QED BY <2>1, <2>2 DEF ClientOK, FirewallOK, Blocking, firewall, Named
<1>3. ASSUME NEW ks \in BOOLEAN, NEW s \in BOOLEAN, RestoreSettings(ks, s)
      PROVE  Inv'
  BY <1>3 DEF RestoreSettings, ClientOK, FirewallOK, Blocking, firewall, Named
<1>4. ASSUME NEW g \in Gateways, GatewayRequest(g)
      PROVE  Inv'
  <2>1. FirewallOK' /\ (Blocking => Blocking')
    BY <1>4, NamedHosts, AddRangeIsSafe, {g} \in SUBSET Named DEF GatewayRequest
  <2>2. ClientOK' /\ strict' = strict
    BY <1>4 DEF GatewayRequest, ClientOK, settings
  <2> QED BY <2>1, <2>2
<1>5. ASSUME NEW cfg \in VpnConfigs, StartWireguard(cfg)
      PROVE  Inv'
  <2>1. FirewallOK' /\ (Blocking => Blocking')
    <3>1. CASE appKs
      BY <1>5, <3>1, RulesBlock DEF StartWireguard, ApplyFirewallRules
    <3>2. CASE ~appKs
      BY <1>5, <3>2 DEF StartWireguard, firewall, FirewallOK, Blocking
    <3> QED BY <3>1, <3>2
  <2>2. ClientOK' /\ strict' = strict
    BY <1>5 DEF StartWireguard, Session, ClientOK, SessionRecord, settings
  <2> QED BY <2>1, <2>2
<1>6. ASSUME NEW cfg \in VpnConfigs, StartOpenVpn(cfg)
      PROVE  Inv'
  <2>1. FirewallOK' /\ (strict /\ installed => Blocking')
    BY <1>6, DisableIsSafe DEF StartOpenVpn, ClientOK
  <2>2. ClientOK' /\ strict' = strict
    BY <1>6 DEF StartOpenVpn, Session, ClientOK, SessionRecord, settings
  <2> QED BY <2>1, <2>2 DEF Blocking
<1>7. ASSUME NEW cfg \in VpnConfigs, StartXray(cfg)
      PROVE  Inv'
  BY <1>7 DEF StartXray, Session, ClientOK, SessionRecord, settings, firewall,
              FirewallOK, Blocking
<1>8. ASSUME AllowServer
      PROVE  Inv'
  <2>1. /\ session.cfg \in VpnConfigs
        /\ session' \in SessionRecord
    BY <1>8, AdvanceIsTyped DEF AllowServer
  <2>2. FirewallOK' /\ (Blocking => Blocking')
    BY <1>8, <2>1, AllowedIsNamed, AddRangeIsSafe DEF AllowServer
  <2>3. ClientOK' /\ strict' = strict
    BY <1>8, <2>1 DEF AllowServer, ClientOK, settings
  <2> QED BY <2>2, <2>3
<1>9. ASSUME EnableForSession
      PROVE  Inv'
  <2>1. /\ session.cfg \in VpnConfigs
        /\ session' \in SessionRecord
    BY <1>9, AdvanceIsTyped DEF EnableForSession
  <2>2. FirewallOK' /\ (Blocking => Blocking')
    <3>1. CASE session.ks
      BY <1>9, <2>1, <3>1, RulesBlock DEF EnableForSession, EnableKillSwitch
    <3>2. CASE ~session.ks
      BY <1>9, <3>2 DEF EnableForSession, firewall, FirewallOK, Blocking
    <3> QED BY <3>1, <3>2
  <2>3. ClientOK' /\ strict' = strict
    BY <1>9, <2>1 DEF EnableForSession, ClientOK, SessionRecord, settings
  <2> QED BY <2>2, <2>3
<1>10. ASSUME EnableRejected \/ Connected \/ Reconnecting
       PROVE  Inv'
  <2>1. session' \in SessionRecord
    BY <1>10, AdvanceIsTyped DEF EnableRejected, Connected, Reconnecting
  <2>2. faults' \in 0 .. MaxFaults
    BY <1>10, FaultsAreBounded DEF EnableRejected, Connected, Reconnecting, ClientOK
  <2>3. UNCHANGED <<settings, strict, firewall, ranges>>
    BY <1>10 DEF EnableRejected, Connected, Reconnecting
  <2> QED BY <2>1, <2>2, <2>3
          DEF ClientOK, settings, firewall, FirewallOK, Blocking
<1>11. ASSUME Stop
       PROVE  Inv'
  <2>1. FirewallOK' /\ (strict /\ installed => Blocking')
    BY <1>11, DisableIsSafe DEF Stop, ClientOK
  <2>2. ClientOK' /\ strict' = strict
    BY <1>11 DEF Stop, ClientOK, settings
  <2> QED BY <2>1, <2>2 DEF Blocking
<1>12. ASSUME ActivationFails
       PROVE  Inv'
  BY <1>12, FaultsAreBounded
     DEF ActivationFails, ClientOK, settings, firewall, FirewallOK, Blocking
<1>13. ASSUME ServiceRestart
       PROVE  Inv'
  <2>1. ClientOK' /\ strict' = strict
    BY <1>13, FaultsAreBounded DEF ServiceRestart, ClientOK, settings
  <2>2. CASE strict
    BY <1>13, <2>1, <2>2, DisableAllBlocks DEF ServiceRestart
  <2>3. CASE ~strict
    BY <1>13, <2>1, <2>3 DEF ServiceRestart, firewall, FirewallOK
  <2> QED BY <2>2, <2>3
<1>14. ASSUME Reboot
       PROVE  Inv'
  <2>1. ClientOK' /\ strict' = strict
    BY <1>14, FaultsAreBounded DEF Reboot, ClientOK, settings
  <2>2. FirewallOK' /\ (strict => Blocking')
    BY <1>14 DEF Reboot, FirewallOK, Blocking, Anchors, ClientOK
  <2> QED BY <2>1, <2>2
<1>15. CASE UNCHANGED vars
  BY <1>15 DEF vars, settings, firewall, ClientOK, FirewallOK, Blocking
<1> QED
  BY <1>1, <1>2, <1>3, <1>4, <1>5, <1>6, <1>7, <1>8, <1>9, <1>10, <1>11, <1>12,
     <1>13, <1>14, <1>15 DEF Next, Start

\* Every step keeps the queues within their bounds.
LEMMA NextKeepsQueues ==
  ASSUME QueuesOK, [Next]_vars
  PROVE  QueuesOK'
<1> USE FaultsAreBounded DEF QueuesOK
<1>1. ASSUME NEW b \in BOOLEAN, QueueRefresh(b)
      PROVE  QueuesOK'
  BY <1>1 DEF QueueRefresh
<1>2. CASE ShowState
  BY <1>2 DEF ShowState
<1>3. CASE OnKillSwitchModeChanged
  BY <1>3 DEF OnKillSwitchModeChanged
<1>4. ASSUME ReportState, UNCHANGED pending
      PROVE  QueuesOK'
  BY <1>4 DEF ReportState
<1>5. CASE Reboot
  BY <1>5 DEF Reboot
<1>6. CASE UNCHANGED queues
  BY <1>6 DEF queues
<1>7. CASE \/ \E b \in BOOLEAN : ToggleKillSwitch(b)
           \/ ToggleStrictKillSwitch(FALSE)
  <2>1. \E b \in BOOLEAN : QueueRefresh(b)
    BY <1>7 DEF ToggleKillSwitch, ToggleStrictKillSwitch
  <2> QED BY <1>1, <2>1
<1>8. CASE Connected \/ Reconnecting \/ Stop \/ ServiceRestart
  BY <1>4, <1>8 DEF Connected, Reconnecting, Stop, ServiceRestart
<1>9. CASE \/ \E ks, s \in BOOLEAN : RestoreSettings(ks, s)
           \/ \E g \in Gateways : GatewayRequest(g)
           \/ \E cfg \in VpnConfigs : Start(cfg)
           \/ AllowServer \/ EnableForSession \/ EnableRejected \/ ActivationFails
  BY <1>6, <1>9 DEF RestoreSettings, GatewayRequest, Start, StartWireguard, StartOpenVpn,
                    StartXray, AllowServer, EnableForSession, EnableRejected, ActivationFails
<1> QED BY <1>2, <1>3, <1>5, <1>6, <1>7, <1>8, <1>9 DEF Next, vars, queues

\* Every step keeps the history in line with the session.
LEMMA NextKeepsAsked ==
  ASSUME Inv, AskedOK, [Next]_vars
  PROVE  AskedOK'
<1>1. ASSUME NEW cfg \in VpnConfigs, NEW stage, Session(cfg, stage)
      PROVE  AskedOK'
  BY <1>1, AllowedIsNamed DEF Session, AskedOK, Named, Exempted, AllowedBy
<1>2. ASSUME UNCHANGED asked, session' = session \/ session' = NoSession
      PROVE  AskedOK'
  BY <1>2 DEF AskedOK, Named, Exempted, AllowedBy
<1>3. ASSUME NEW from, NEW to, Advance(from, to), UNCHANGED asked
      PROVE  AskedOK'
  <2>1. session # NoSession /\ session'.cfg = session.cfg
    BY <1>3 DEF Advance, Inv, ClientOK, SessionRecord
  <2> QED BY <1>3, <2>1 DEF AskedOK, Named, Exempted, AllowedBy
<1>4. CASE \E cfg \in VpnConfigs : Start(cfg)
  BY <1>1, <1>4 DEF Start, StartWireguard, StartOpenVpn, StartXray
<1>5. CASE AllowServer \/ EnableForSession \/ EnableRejected \/ Connected \/ Reconnecting
  BY <1>3, <1>5 DEF AllowServer, EnableForSession, EnableRejected, Connected, Reconnecting
<1>6. CASE Stop \/ Reboot
  BY <1>6 DEF Stop, Reboot, AskedOK
<1>7. CASE \/ \E ks, s \in BOOLEAN : RestoreSettings(ks, s)
           \/ \E g \in Gateways : GatewayRequest(g)
           \/ \E b \in BOOLEAN : ToggleKillSwitch(b)
           \/ ToggleStrictKillSwitch(FALSE) \/ ShowState \/ OnKillSwitchModeChanged
           \/ ActivationFails \/ ServiceRestart \/ UNCHANGED vars
  BY <1>2, <1>7 DEF RestoreSettings, GatewayRequest, ToggleKillSwitch, QueueRefresh,
       ToggleStrictKillSwitch, ShowState, OnKillSwitchModeChanged, ActivationFails,
       ServiceRestart, vars
<1> QED BY <1>4, <1>5, <1>6, <1>7 DEF Next

\* The invariant holds of every state.
LEMMA InvHolds == Spec => [](Inv /\ Books)
<1>1. ASSUME Init
      PROVE  Inv /\ Books
  <2>1. faults \in 0 .. MaxFaults
    BY <1>1, FaultsAreBounded DEF Init
  <2>2. ClientOK
    BY <1>1, <2>1 DEF Init, ClientOK
  <2>3. FirewallOK /\ ~strict
    BY <1>1 DEF Init, FirewallOK
  <2>4. Books
    BY <1>1, FaultsAreBounded DEF Init, Books, QueuesOK, AskedOK
  <2> QED BY <2>2, <2>3, <2>4 DEF Inv
<1>2. Inv /\ Books /\ [Next]_vars => (Inv /\ Books)'
  BY NextKeepsInv, NextKeepsQueues, NextKeepsAsked DEF Books
<1> QED BY <1>1, <1>2, PTL DEF Spec

\* Type correctness of the service's firewall state.
THEOREM KillSwitchTypes == Spec => []TypeOK
<1>1. Inv /\ Books => TypeOK
  BY NamedHosts DEF Inv, Books, QueuesOK, AskedOK, ClientOK, FirewallOK, TypeOK
<1> QED BY <1>1, InvHolds, PTL

\* IPv6: every accepting anchor before 250.blockIPv6 misses a clear packet.
LEMMA IPv6IsRejected ==
  ASSUME Blocking, NEW p \in Packet, Clear(p), p.v6
  PROVE  ~Accepted(p)
<1>1. Chain[6] = "blockIPv6" /\ 6 \in 1 .. Len(Chain)
  BY DEF Chain
<1>2. Matches("blockIPv6", p)
  BY DEF Matches, OnlyV4, OnlyV6, Clear
<1>3. ASSUME NEW j \in 1 .. 5, Chain[j] \in on \ Rejecting, Matches(Chain[j], p)
      PROVE  FALSE
  <2>1. Chain[j] \in {"allowLoopback", "allowDNS", "allowLAN", "allowDHCP"}
    BY <1>3 DEF Chain, Rejecting
  <2> QED BY <1>3, <2>1 DEF Matches, OnlyV4, Clear
<1> QED BY <1>1, <1>2, <1>3 DEF Accepted, Blocking, Rejecting

\* IPv4: no accepting anchor at all matches a clear packet to an unnamed host.
LEMMA UnnamedIsRejected ==
  ASSUME FirewallOK, "blockAll" \in on, NEW p \in Packet, Clear(p),
         p.dst \notin Named
  PROVE  ~Accepted(p)
<1>1. Chain[11] = "blockAll" /\ 11 \in 1 .. Len(Chain)
  BY DEF Chain
<1>2. Matches("blockAll", p)
  BY DEF Matches, OnlyV4, OnlyV6
<1>3. ASSUME NEW j \in 1 .. 10, Chain[j] \in on \ Rejecting, Matches(Chain[j], p)
      PROVE  FALSE
  <2>1. Chain[j] \in {"allowLoopback", "allowDNS", "allowLAN", "allowDHCP",
                      "allowVPN", "allowMarkedXray", "allowNets"}
    BY <1>3 DEF Chain, Rejecting
  <2> QED BY <1>3, <2>1 DEF Matches, Clear, FirewallOK
<1> QED BY <1>1, <1>2, <1>3 DEF Accepted, Rejecting

\* The strict mode blocks every unrelated host in every reachable state, but for
\* IPv4 under the rules of an only-these-sites session (120.blockNets).
THEOREM StrictModeBlocks == Spec => []StrictBlocks
<1>1. Inv => StrictBlocks
  <2> SUFFICES ASSUME Inv, strict, NEW p \in Packet, Clear(p), p.dst \notin Named,
                      Accepted(p)
               PROVE  ~p.v6 /\ "blockNets" \in on
    BY DEF StrictBlocks
  <2>1. ~p.v6
    BY IPv6IsRejected DEF Inv
  <2>2. "blockNets" \in on
    BY UnnamedIsRejected DEF Inv, Blocking
  <2> QED BY <2>1, <2>2
<1> QED BY <1>1, InvHolds, PTL

-----------------------------------------------------------------------------
(* What the rules of one session leave for the next one.                   *)

\* In soft mode no rejecting anchor is left once every session was stopped in
\* order.
SoftIsOpen ==
  ~strict /\ session = NoSession /\ asked = {} => on \cap Rejecting = {}

\* Without a failure every session is stopped in order.
NothingIsLeft == session = NoSession /\ faults = 0 => asked = {}

\* In soft mode, if nothing failed, the rejecting anchors are those of the
\* present session, with the exemption they need.
SoftRules ==
  ~strict /\ session # NoSession /\ faults = 0 =>
    /\ "blockAll" \in on =>
         /\ "allowNets" \in on
         /\ session.cfg.server \in allowNets \/ allowNets \cap Gateways # {}
    /\ "blockNets" \in on => blockNets \subseteq session.cfg.sites

\* What 110.allowNets exempts, and m_allowedRanges will exempt, is a gateway or
\* was asked for since the last orderly stop.  The chain keeps its contents
\* while the anchor is off.
RangesAreCurrent ==
  /\ ranges \subseteq Gateways \cup asked
  /\ "allowNets" \in on => allowNets \subseteq Gateways \cup asked

RulesInv == SoftIsOpen /\ NothingIsLeft /\ SoftRules /\ RangesAreCurrent

\* disableKillSwitch forgets all exemptions, and in soft mode all rules.
LEMMA DisableForgets ==
  ASSUME FirewallOK, NEW s \in BOOLEAN, s => installed, DisableKillSwitch(s)
  PROVE  /\ ranges' = {} /\ "allowNets" \notin on'
         /\ ~s => on' = {}
BY DEF FirewallOK, DisableKillSwitch, SetAnchors, Uninstall, Anchors

\* disableAllTraffic forgets m_allowedRanges and leaves 110.allowNets as it is.
LEMMA DisableAllKeeps ==
  ASSUME DisableAllTraffic
  PROVE  /\ ranges' = {} /\ allowNets' = allowNets
         /\ "allowNets" \in on' => "allowNets" \in on
BY DEF DisableAllTraffic, InstallAndSet

\* An exemption replaces 110.allowNets, if the chain exists, and touches no
\* other anchor.
LEMMA AddRangeReplaces ==
  ASSUME NEW S, AddAllowedRange(S)
  PROVE  /\ ranges' = ranges \cup S /\ blockNets' = blockNets
         /\ \A a : a # "allowNets" => (a \in on' <=> a \in on)
         /\ \/ installed /\ allowNets' = ranges \cup S /\ "allowNets" \in on'
            \/ ~installed /\ allowNets' = allowNets /\ on' = on
BY DEF AddAllowedRange, ResetAllowedRange, SetAnchors

\* The rules of a session exempt what it asks for, its server among it when
\* everything else is blocked, and block its sites only.
LEMMA RulesAreOwn ==
  ASSUME NEW cfg \in VpnConfigs, NEW x \in SUBSET {"allowMarkedXray"},
         ApplyRules(cfg, x)
  PROVE  /\ ranges' = ranges /\ allowNets' = AllowedBy(cfg)
         /\ "blockAll" \in on' => "allowNets" \in on' /\ cfg.server \in allowNets'
         /\ "blockNets" \in on' => blockNets' \subseteq cfg.sites
<1>1. cfg.split \in {0, 1, 2}
  BY ConfigsAreTyped DEF VpnConfig
<1>2. on' = (on \cup (SessionAnchors \cup SplitAnchors(cfg) \cup x))
              \ ({"blockNets", "blockAll", "allowNets"} \ SplitAnchors(cfg))
  BY DEF ApplyRules, InstallAndSet
<1>3. /\ "blockAll" \in on' => cfg.split # 1
      /\ "blockAll" \in on' => "allowNets" \in on'
  BY <1>2 DEF SplitAnchors, SessionAnchors
<1>4. cfg.split # 1 => cfg.server \in AllowedBy(cfg)
  BY <1>1 DEF AllowedBy
<1>5. blockNets' \subseteq cfg.sites /\ allowNets' = AllowedBy(cfg) /\ ranges' = ranges
  BY DEF ApplyRules
<1> QED BY <1>3, <1>4, <1>5

\* refresh, whatever the session.
LEMMA RefreshKeepsRules ==
  ASSUME Inv, RulesInv, NEW b \in BOOLEAN, Refresh(b), UNCHANGED <<session, asked, faults>>
  PROVE  RulesInv'
<1>1. CASE b
  <2>1. strict' = TRUE /\ ranges' = {} /\ allowNets' = allowNets
        /\ ("allowNets" \in on' => "allowNets" \in on)
    BY <1>1, DisableAllKeeps DEF Refresh
  <2> QED BY <2>1 DEF RulesInv, SoftIsOpen, NothingIsLeft, SoftRules, RangesAreCurrent
<1>2. CASE ~b
  <2>1. strict' = FALSE /\ ranges' = {} /\ on' = {}
    BY <1>2, DisableForgets DEF Refresh, Inv
  <2> QED BY <2>1 DEF RulesInv, SoftIsOpen, NothingIsLeft, SoftRules, RangesAreCurrent
<1> QED BY <1>1, <1>2

\* A session that advances is the same session.
LEMMA AdvanceIsSame ==
  ASSUME ClientOK, NEW from, NEW to \in {"cleaned", "launched", "ready", "up"},
         Advance(from, to)
  PROVE  /\ session # NoSession /\ session \in SessionRecord
         /\ session' # NoSession /\ session' \in SessionRecord
         /\ session.cfg \in VpnConfigs /\ session'.cfg = session.cfg
BY NoSessionIsFresh DEF ClientOK, SessionRecord, Advance

\* Every step preserves the invariant on the rules.
LEMMA NextKeepsRules ==
  ASSUME Inv, QueuesOK, AskedOK, RulesInv, [Next]_vars
  PROVE  RulesInv'
<1> USE DEF RulesInv
<1>1. ASSUME OnKillSwitchModeChanged
      PROVE  RulesInv'
  <2>1. Head(pending) \in BOOLEAN
    BY <1>1 DEF OnKillSwitchModeChanged, QueuesOK
  <2> QED BY <1>1, <2>1, RefreshKeepsRules DEF OnKillSwitchModeChanged
<1>2. ASSUME UNCHANGED <<strict, firewall, ranges, session, asked, faults>>
      PROVE  RulesInv'
  BY <1>2 DEF firewall, SoftIsOpen, NothingIsLeft, SoftRules, RangesAreCurrent
<1>3. CASE \/ \E b \in BOOLEAN : ToggleKillSwitch(b)
           \/ \E ks, s \in BOOLEAN : RestoreSettings(ks, s)
           \/ ToggleStrictKillSwitch(FALSE) \/ ShowState \/ UNCHANGED vars
  BY <1>2, <1>3 DEF ToggleKillSwitch, RestoreSettings, ToggleStrictKillSwitch, ShowState,
                    QueueRefresh, vars
<1>4. ASSUME NEW g \in Gateways, GatewayRequest(g)
      PROVE  RulesInv'
  <2>1. UNCHANGED <<strict, session, asked, faults>>
    BY <1>4 DEF GatewayRequest
  <2>2. /\ ranges' = ranges \cup {g} /\ blockNets' = blockNets
        /\ \A a : a # "allowNets" => (a \in on' <=> a \in on)
        /\ \/ installed /\ allowNets' = ranges \cup {g} /\ "allowNets" \in on'
           \/ ~installed /\ allowNets' = allowNets /\ on' = on
    BY <1>4, AddRangeReplaces DEF GatewayRequest
  <2>3. SoftIsOpen'
    BY <2>1, <2>2 DEF SoftIsOpen, Rejecting
  <2>4. SoftRules'
    BY <2>1, <2>2 DEF SoftRules
  <2>5. RangesAreCurrent'
    BY <2>1, <2>2 DEF RangesAreCurrent
  <2> QED BY <2>1, <2>3, <2>4, <2>5 DEF NothingIsLeft
<1>5. ASSUME NEW cfg \in VpnConfigs, Start(cfg)
      PROVE  RulesInv'
  <2>1. /\ session = NoSession /\ UNCHANGED <<strict, faults>>
        /\ \E st \in {"cleaned", "launched", "ready", "up"} : Session(cfg, st)
    BY <1>5 DEF Start, StartWireguard, StartOpenVpn, StartXray
  <2>2. session'.cfg = cfg /\ session' \in SessionRecord /\ session' # NoSession
    BY <2>1, NoSessionIsFresh DEF Session, SessionRecord, Inv, ClientOK
  <2>3. asked' = asked \cup Exempted(cfg) /\ AllowedBy(cfg) \subseteq asked'
    BY <2>1 DEF Session, Exempted
  <2>4. ~strict /\ faults = 0 => on \cap Rejecting = {}
    BY <2>1 DEF SoftIsOpen, NothingIsLeft
  <2>5. SoftIsOpen' /\ NothingIsLeft'
    BY <2>2 DEF SoftIsOpen, NothingIsLeft
  <2>6. CASE UNCHANGED <<firewall, ranges>>
    BY <2>1, <2>2, <2>3, <2>4, <2>5, <2>6
       DEF SoftRules, RangesAreCurrent, firewall, Rejecting
  <2>7. CASE ApplyFirewallRules(cfg)
    <3>1. /\ ranges' = ranges /\ allowNets' = AllowedBy(cfg)
          /\ "blockAll" \in on' => "allowNets" \in on' /\ cfg.server \in allowNets'
          /\ "blockNets" \in on' => blockNets' \subseteq cfg.sites
      BY <2>7, RulesAreOwn DEF ApplyFirewallRules
    <3> QED BY <2>2, <2>3, <2>5, <3>1 DEF SoftRules, RangesAreCurrent
  <2>8. CASE DisableKillSwitch(strict)
    <3>1. /\ ranges' = {} /\ "allowNets" \notin on'
          /\ ~strict => on' = {}
      BY <2>8, DisableForgets DEF Inv, ClientOK, Blocking
    <3> QED BY <2>1, <2>5, <3>1 DEF SoftRules, RangesAreCurrent
  <2> QED BY <1>5, <2>6, <2>7, <2>8 DEF Start, StartWireguard, StartOpenVpn, StartXray
<1>6. ASSUME NEW from, NEW to \in {"cleaned", "launched", "ready", "up"},
             Advance(from, to), UNCHANGED <<strict, firewall, ranges, asked>>,
             faults' = faults \/ faults' # 0
      PROVE  RulesInv'
  <2>1. session # NoSession /\ session' # NoSession /\ session'.cfg = session.cfg
    BY <1>6, AdvanceIsSame DEF Inv
  <2> QED BY <1>6, <2>1 DEF firewall, SoftIsOpen, NothingIsLeft, SoftRules, RangesAreCurrent
<1>7. ASSUME AllowServer
      PROVE  RulesInv'
  <2>1. session # NoSession /\ session' # NoSession /\ session'.cfg = session.cfg
    BY <1>7, AdvanceIsSame DEF AllowServer, Inv
  <2>2. /\ ranges' = ranges \cup {session.cfg.server} /\ blockNets' = blockNets
        /\ \A a : a # "allowNets" => (a \in on' <=> a \in on)
        /\ \/ /\ installed /\ allowNets' = ranges \cup {session.cfg.server}
              /\ "allowNets" \in on'
           \/ ~installed /\ allowNets' = allowNets /\ on' = on
    BY <1>7, AddRangeReplaces DEF AllowServer
  <2>3. session.cfg.server \in asked
    BY <2>1 DEF AskedOK, Exempted
  <2>4. UNCHANGED <<strict, asked, faults>>
    BY <1>7 DEF AllowServer
  <2>5. SoftRules'
    BY <2>1, <2>2, <2>4 DEF SoftRules
  <2>6. RangesAreCurrent'
    BY <2>2, <2>3, <2>4 DEF RangesAreCurrent
  <2> QED BY <2>1, <2>5, <2>6 DEF SoftIsOpen, NothingIsLeft
<1>8. ASSUME EnableForSession, session.ks
      PROVE  RulesInv'
  <2>1. /\ session # NoSession /\ session' # NoSession
        /\ session'.cfg = session.cfg /\ session.cfg \in VpnConfigs
    BY <1>8, AdvanceIsSame DEF EnableForSession, Inv
  <2>2. /\ ranges' = ranges /\ allowNets' = AllowedBy(session.cfg)
        /\ "blockAll" \in on' =>
             "allowNets" \in on' /\ session.cfg.server \in allowNets'
        /\ "blockNets" \in on' => blockNets' \subseteq session.cfg.sites
    BY <1>8, <2>1, RulesAreOwn DEF EnableForSession, EnableKillSwitch
  <2>3. AllowedBy(session.cfg) \subseteq asked
    BY <2>1 DEF AskedOK, Exempted
  <2>4. UNCHANGED <<strict, asked, faults>>
    BY <1>8 DEF EnableForSession
  <2> QED BY <2>1, <2>2, <2>3, <2>4 DEF SoftIsOpen, NothingIsLeft, SoftRules, RangesAreCurrent
<1>9. ASSUME EnableForSession, ~session.ks
      PROVE  RulesInv'
  BY <1>6, <1>9 DEF EnableForSession
<1>10. ASSUME EnableRejected \/ Connected \/ Reconnecting
       PROVE  RulesInv'
  <2>1. faults \in Nat
    BY FaultsAreBounded DEF Inv, ClientOK
  <2> QED BY <1>6, <1>10, <2>1 DEF EnableRejected, Connected, Reconnecting
<1>11. ASSUME Stop
       PROVE  RulesInv'
  <2>1. /\ ranges' = {} /\ "allowNets" \notin on'
        /\ ~strict => on' = {}
    BY <1>11, DisableForgets DEF Stop, Inv, ClientOK, Blocking
  <2> QED BY <1>11, <2>1 DEF Stop, SoftIsOpen, NothingIsLeft, SoftRules, RangesAreCurrent
<1>12. ASSUME ActivationFails \/ ServiceRestart
       PROVE  RulesInv'
  <2>1. faults' # 0 /\ UNCHANGED <<strict, asked>> /\ session' = NoSession
    BY <1>12, FaultsAreBounded DEF ActivationFails, ServiceRestart, Inv, ClientOK
  <2>2. asked = {} => session = NoSession
    BY DEF AskedOK, Exempted
  <2>3. \/ ~strict /\ UNCHANGED firewall /\ ranges' \subseteq ranges
        \/ strict /\ ranges' \subseteq ranges /\ allowNets' = allowNets
           /\ ("allowNets" \in on' => "allowNets" \in on)
    BY <1>12, DisableAllKeeps DEF ActivationFails, ServiceRestart, firewall, Inv, ClientOK
  <2> QED BY <2>1, <2>2, <2>3
          DEF firewall, SoftIsOpen, NothingIsLeft, SoftRules, RangesAreCurrent
<1>13. ASSUME Reboot
       PROVE  RulesInv'
  BY <1>13 DEF Reboot, SoftIsOpen, NothingIsLeft, SoftRules, RangesAreCurrent
<1> QED
  BY <1>1, <1>3, <1>4, <1>5, <1>7, <1>8, <1>9, <1>10, <1>11, <1>12, <1>13 DEF Next

\* The invariant on the rules holds of every state.
LEMMA RulesInvHolds == Spec => []RulesInv
<1>1. ASSUME Init
      PROVE  RulesInv
  BY <1>1 DEF Init, RulesInv, SoftIsOpen, NothingIsLeft, SoftRules, RangesAreCurrent
<1>2. Inv /\ Books /\ RulesInv /\ [Next]_vars => RulesInv'
  BY NextKeepsRules DEF Books
<1> QED BY <1>1, <1>2, InvHolds, PTL DEF Spec


\* The verdict over the chain: a packet that no enabled rejecting anchor matches
\* passes.
LEMMA PassesUnlessRejected ==
  ASSUME NEW p \in Packet,
         \A a \in on \cap Rejecting : ~Matches(a, p)
  PROVE  Accepted(p)
BY DEF Accepted

\* Without a session, and with no failed one since the last orderly stop, the
\* soft mode lets every packet pass, whatever happened before.
THEOREM SoftModeUnblocks == Spec => []SoftUnblocks
<1>1. RulesInv => SoftUnblocks
  BY PassesUnlessRejected DEF RulesInv, SoftIsOpen, SoftUnblocks
<1> QED BY <1>1, RulesInvHolds, PTL

\* 100.blockAll lets a clear packet pass for 110.allowNets only.
LEMMA OnlyAllowNetsExempts ==
  ASSUME "blockAll" \in on, NEW p \in Packet, Clear(p), Accepted(p)
  PROVE  "allowNets" \in on /\ p.dst \in allowNets
<1>1. Chain[11] = "blockAll" /\ 11 \in 1 .. Len(Chain)
  BY DEF Chain
<1>2. Matches("blockAll", p)
  BY DEF Matches, OnlyV4, OnlyV6
<1>3. PICK j \in 1 .. 10 : Chain[j] \in on \ Rejecting /\ Matches(Chain[j], p)
  BY <1>1, <1>2 DEF Accepted, Rejecting
<1>4. Chain[j] \in {"allowLoopback", "allowDNS", "allowLAN", "allowDHCP",
                    "allowVPN", "allowMarkedXray", "allowNets"}
  BY <1>3 DEF Chain, Rejecting
<1>5. Chain[j] = "allowNets"
  BY <1>3, <1>4 DEF Matches, Clear
<1> QED BY <1>3, <1>5 DEF Matches

\* No exemption outlives the next orderly stop, failures and restarts or not.
THEOREM ExemptionsStayCurrent == Spec => []ExemptionsAreCurrent
<1>1. RulesInv => ExemptionsAreCurrent
  BY OnlyAllowNetsExempts DEF RulesInv, RangesAreCurrent, ExemptionsAreCurrent
<1> QED BY <1>1, RulesInvHolds, PTL

\* 310.blockDNS precedes every anchor that could let a query out of the tunnel.
LEMMA DnsIsRejected ==
  ASSUME "blockDNS" \in on, NEW p \in Packet, p.kind = "dns", p.out = "phys", ~p.v6
  PROVE  ~Accepted(p)
<1>1. Chain[3] = "blockDNS" /\ 3 \in 1 .. Len(Chain)
  BY DEF Chain
<1>2. Matches("blockDNS", p)
  BY DEF Matches, OnlyV4, OnlyV6
<1>3. ASSUME NEW j \in 1 .. 2, Chain[j] \in on \ Rejecting, Matches(Chain[j], p)
      PROVE  FALSE
  <2>1. Chain[j] \in {"allowLoopback", "allowDNS"}
    BY <1>3 DEF Chain
  <2> QED BY <1>3, <2>1 DEF Matches
<1> QED BY <1>1, <1>2, <1>3 DEF Accepted, Rejecting

\* 320.allowDNS precedes every anchor that rejects a query to a listed server.
LEMMA ListedDnsIsAccepted ==
  ASSUME "allowDNS" \in on, NEW p \in Packet, p.kind = "dns", p.out = "vpn", ~p.v6,
         p.dst \in dnsServers
  PROVE  Accepted(p)
<1>1. Chain[2] = "allowDNS" /\ "allowDNS" \notin Rejecting /\ Len(Chain) = 11
  BY DEF Chain, Rejecting
<1>2. Matches("allowDNS", p)
  BY DEF Matches, OnlyV4, OnlyV6
<1>3. ASSUME NEW i \in 1 .. Len(Chain), Chain[i] \in Rejecting
      PROVE  2 \in 1 .. i - 1
  BY <1>1, <1>3 DEF Chain, Rejecting
<1> QED BY <1>1, <1>2, <1>3 DEF Accepted

\* While the rules let traffic into the tunnel, IPv4 queries reach the listed
\* servers by it, and leave outside it to no other.
THEOREM DnsIsInside == Spec => []DnsStaysInside
<1>1. Inv => DnsStaysInside
  <2> SUFFICES ASSUME Inv, "allowVPN" \in on, NEW p \in Packet, p.kind = "dns", ~p.v6
               PROVE  /\ p.out = "vpn" /\ p.dst \in dnsServers => Accepted(p)
                      /\ p.out = "phys" /\ p.dst \notin dnsServers => ~Accepted(p)
    BY DEF DnsStaysInside
  <2>1. "allowDNS" \in on /\ "blockDNS" \in on
    BY DEF Inv, FirewallOK
  <2> QED BY <2>1, DnsIsRejected, ListedDnsIsAccepted
<1> QED BY <1>1, InvHolds, PTL

\* A session's rules exempt its server: a clear IPv4 packet to it meets no
\* rejecting anchor, or 110.allowNets before it.
LEMMA ServerIsExempt ==
  ASSUME SoftRules, ~strict, session # NoSession, faults = 0,
         allowNets \cap Gateways = {},
         NEW p \in Packet, ~p.v6, p.kind = "data",
         p.dst = session.cfg.server, p.dst \notin session.cfg.sites
  PROVE  Accepted(p)
<1>1. ASSUME NEW a \in on \cap Rejecting, Matches(a, p)
      PROVE  a = "blockAll"
  <2>1. a \in {"blockDNS", "blockIPv6", "blockNets", "blockAll"}
    BY DEF Rejecting
  <2> QED BY <1>1, <2>1 DEF Matches, OnlyV6, SoftRules
<1>2. CASE "blockAll" \in on
  <2>1. "allowNets" \in on /\ p.dst \in allowNets
    BY <1>2 DEF SoftRules
  <2>2. Chain[10] = "allowNets" /\ \A i \in 1 .. 11 : Chain[i] = "blockAll" => i = 11
    BY DEF Chain
  <2>3. Matches("allowNets", p) /\ "allowNets" \notin Rejecting
    BY <2>1 DEF Matches, OnlyV4, OnlyV6, Rejecting
  <2>4. Len(Chain) = 11
    BY DEF Chain
  <2> QED BY <1>1, <2>1, <2>2, <2>3, <2>4 DEF Accepted
<1>3. CASE "blockAll" \notin on
  BY <1>1, <1>3, PassesUnlessRejected
<1> QED BY <1>2, <1>3

\* The server of a session that is up in soft mode stays reachable.
THEOREM ServerIsReachable == Spec => []ServerStaysReachable
<1>1. RulesInv => ServerStaysReachable
  BY ServerIsExempt DEF RulesInv, ServerStaysReachable, IsConnected
<1> QED BY <1>1, RulesInvHolds, PTL

\* An exemption of a named host does not open the firewall for another one.
LEMMA AddRangeKeepsClosed ==
  ASSUME FirewallOK, FirewallOK', NEW S, AddAllowedRange(S),
         NEW p \in Packet, p.dst \notin Named, ~Accepted(p)
  PROVE  ~Accepted(p)'
<1>1. /\ blockNets' = blockNets /\ dnsServers' = dnsServers
      /\ \A a : a # "allowNets" => (a \in on' <=> a \in on)
  BY AddRangeReplaces DEF AddAllowedRange, ResetAllowedRange
<1>2. p.dst \notin allowNets'
  BY DEF FirewallOK, Named
<1>3. \A a : a # "allowNets" => (Matches(a, p)' <=> Matches(a, p))
  BY <1>1 DEF Matches
<1>4. ~Matches("allowNets", p)'
  BY <1>2 DEF Matches
<1>5. PICK i \in 1 .. Len(Chain) :
        /\ Chain[i] \in on \cap Rejecting /\ Matches(Chain[i], p)
        /\ ~\E j \in 1 .. i - 1 : Chain[j] \in on \ Rejecting /\ Matches(Chain[j], p)
  BY DEF Accepted
<1>6. Chain[i] \in on' \cap Rejecting /\ Matches(Chain[i], p)'
  BY <1>1, <1>3, <1>5 DEF Rejecting
<1>7. ASSUME NEW j \in 1 .. i - 1, Chain[j] \in on' \ Rejecting, Matches(Chain[j], p)'
      PROVE  FALSE
  <2>1. Chain[j] # "allowNets"
    BY <1>4, <1>7
  <2>2. Chain[j] \in on \ Rejecting /\ Matches(Chain[j], p)
    BY <1>1, <1>3, <1>7, <2>1
  <2> QED BY <1>5, <2>2
<1> QED BY <1>6, <1>7 DEF Accepted

\* While a session stays up, only a refresh queued before the page showed it
\* opens the firewall for a host that no configuration names.
THEOREM UpSessionStaysClosed == Spec => UpStaysClosed
<1>1. Inv /\ Inv' /\ Books /\ [Next]_vars =>
        [IsConnected /\ IsConnected' =>
           /\ Settled => Settled'
           /\ Len(pending') >= Len(pending) =>
                \A p \in Packet :
                  Clear(p) /\ p.dst \notin Named /\ ~Accepted(p) => ~Accepted(p)']_vars
  <2> SUFFICES ASSUME Inv, Inv', Books, Next, IsConnected, IsConnected'
               PROVE  /\ Settled => Settled'
                      /\ Len(pending') >= Len(pending) =>
                           \A p \in Packet :
                             p.dst \notin Named /\ ~Accepted(p) => ~Accepted(p)'
    OBVIOUS
  <2>1. CASE \E g \in Gateways : GatewayRequest(g)
    <3>1. UNCHANGED queues
      BY <2>1 DEF GatewayRequest
    <3>2. ASSUME NEW p \in Packet, p.dst \notin Named, ~Accepted(p)
          PROVE  ~Accepted(p)'
      BY <2>1, <3>2, AddRangeKeepsClosed DEF GatewayRequest, Inv
    <3> QED BY <3>1, <3>2 DEF Settled, queues
  <2>2. ASSUME UNCHANGED firewall
        PROVE  \A p \in Packet : ~Accepted(p) => ~Accepted(p)'
    BY <2>2 DEF firewall, Accepted, Matches
  <2>3. CASE \E ks, s \in BOOLEAN : RestoreSettings(ks, s)
    BY <2>2, <2>3 DEF RestoreSettings, Settled, queues
  <2>4. CASE ShowState
    <3>1. ~Settled /\ UNCHANGED firewall
      BY <2>4 DEF ShowState, Settled
    <3> QED BY <2>2, <3>1
  <2>5. CASE OnKillSwitchModeChanged
    <3>1. ~Settled
      BY <2>5 DEF OnKillSwitchModeChanged, Settled
    <3>2. pending \in Seq(BOOLEAN) /\ pending # <<>> /\ pending' = Tail(pending)
      BY <2>5 DEF OnKillSwitchModeChanged, Books, QueuesOK
    <3>3. Len(pending') < Len(pending)
      BY <3>2
    <3>4. Len(pending) \in Nat /\ Len(pending') \in Nat
      BY <3>2
    <3> QED BY <3>1, <3>3, <3>4
  <2>6. CASE \/ \E b \in BOOLEAN : ToggleKillSwitch(b)
             \/ ToggleStrictKillSwitch(FALSE)
    <3>1. ~ShownConnected /\ UNCHANGED firewall
      BY <2>6 DEF ToggleKillSwitch, ToggleStrictKillSwitch, QueueRefresh
    <3>2. ~Settled
      BY <3>1 DEF Settled, ShownConnected
    <3> QED BY <2>2, <3>1, <3>2
  <2>7. ASSUME NEW from \in {"cleaned", "launched", "ready", "up"},
               NEW to \in {"cleaned", "launched", "ready", "up"},
               Advance(from, to), to # "up" \/ from # "up"
        PROVE  FALSE
    BY <2>7 DEF Advance, IsConnected, Inv, ClientOK, SessionRecord
  <2>8. CASE AllowServer \/ EnableForSession \/ EnableRejected \/ Connected \/ Reconnecting
    BY <2>7, <2>8 DEF AllowServer, EnableForSession, EnableRejected, Connected, Reconnecting
  <2>9. CASE Stop \/ ActivationFails \/ ServiceRestart \/ Reboot
    BY <2>9 DEF Stop, ActivationFails, ServiceRestart, Reboot, IsConnected
  <2>10. CASE \E cfg \in VpnConfigs : Start(cfg)
    BY <2>10 DEF Start, StartWireguard, StartOpenVpn, StartXray, IsConnected
  <2> QED BY <2>1, <2>3, <2>4, <2>5, <2>6, <2>8, <2>9, <2>10 DEF Next
<1> QED BY <1>1, InvHolds, PTL DEF Spec, UpStaysClosed
=============================================================================
