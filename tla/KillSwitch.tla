----------------------------- MODULE KillSwitch -----------------------------
(***************************************************************************)
(* The kill switch of the privileged service, Linux build: class           *)
(* KillSwitch on top of LinuxFirewall, with every caller that changes it:  *)
(* the settings page (refreshKillSwitch), the API gateway's exception, the *)
(* WireGuard daemon (applyFirewallRules), and the OpenVPN and Xray         *)
(* protocols of the client, whose calls arrive one by one over IPC.        *)
(*                                                                         *)
(* The firewall is a list of anchors in a fixed order; a packet meets the  *)
(* rules of the enabled anchors in that order and the first match decides. *)
(***************************************************************************)
EXTENDS Integers, Sequences

CONSTANTS
  Hosts,      \* destinations of packets
  LanHosts,   \* the ones in private, link-local or multicast ranges
  Gateways,   \* the ones API requests are made to
  VpnConfigs, \* the configurations sessions are started with
  MaxFaults,  \* bound: failed activations, crashes and reboots
  MaxQueued,  \* bound: refreshes, and reports to the page, under way at a time
  NoSession

\* A configuration, as far as the rules depend on it.  split is the type of
\* split tunneling: 0 none, 1 only the sites, 2 all except the sites.
VpnConfig == [proto: {"wg", "ovpn", "xray"}, split: 0 .. 2, server: Hosts,
              sites: SUBSET Hosts, dns: SUBSET Hosts]

ASSUME HostsAreNamed == LanHosts \subseteq Hosts /\ Gateways \subseteq Hosts
ASSUME ConfigsAreTyped == VpnConfigs \subseteq VpnConfig
ASSUME FaultsAreBounded == MaxFaults \in Nat /\ MaxQueued \in Nat

\* A session, with the setting of the kill switch it was started under.
SessionRecord ==
  [cfg: VpnConfigs, ks: BOOLEAN, stage: {"cleaned", "launched", "ready", "up"}]

ASSUME NoSessionIsFresh == NoSession \notin SessionRecord

VARIABLES
  appKs,     \* client setting Conf/killSwitchEnabled
  appStrict, \* client setting Conf/strictKillSwitchEnabled
  strict,    \* the service's own copy of the strict setting
  installed, \* the root chain is linked into OUTPUT
  on,        \* enabled anchors
  allowNets, blockNets, dnsServers, \* rules of the chains set at run time
  ranges,    \* m_allowedRanges
  session,   \* the client's session, if any
  pending,   \* refreshes on their way to the thread of VpnConnection
  behind,    \* state changes the page has not been told of yet
  asked,     \* history: exemptions asked for since the last orderly stop
  faults     \* how often something failed so far

settings == <<appKs, appStrict>>
queues   == <<pending, behind>>
firewall == <<installed, on, allowNets, blockNets, dnsServers>>
vars     == <<settings, strict, firewall, ranges, session, queues, asked, faults>>

-----------------------------------------------------------------------------
(* LinuxFirewall.                                                          *)

\* Mutant: the chain that allows the LAN is installed before the DNS chains.
Chain_LanFirst ==
  <<"allowLoopback", "allowLAN", "allowDNS", "blockDNS", "allowDHCP", "blockIPv6",
    "allowVPN", "allowMarkedXray", "blockNets", "allowNets", "blockAll">>

\* The anchors in the order install() links them.  400.allowPIA has no rules.
Chain ==
  <<"allowLoopback", "allowDNS", "blockDNS", "allowLAN", "allowDHCP", "blockIPv6",
    "allowVPN", "allowMarkedXray", "blockNets", "allowNets", "blockAll">>

Anchors == {"allowLoopback", "allowDNS", "blockDNS", "allowLAN", "allowDHCP",
            "blockIPv6", "allowVPN", "allowMarkedXray", "blockNets", "allowNets",
            "blockAll"}
Rejecting == {"blockDNS", "blockIPv6", "blockNets", "blockAll"}

\* The IP versions setAnchorEnabled is called for; the others do both.
OnlyV4 == {"allowDNS", "blockDNS", "allowVPN", "blockNets", "allowNets"}
OnlyV6 == {"blockIPv6"}

Packet == [out: {"lo", "vpn", "phys"}, v6: BOOLEAN, dst: Hosts,
           kind: {"data", "dns", "dhcp"}, marked: BOOLEAN]

\* A rule of the anchor matches the packet.
Matches(a, p) ==
  /\ a \in OnlyV4 => ~p.v6
  /\ a \in OnlyV6 => p.v6
  /\ a = "allowLoopback" => p.out = "lo"
  /\ a = "allowDNS" => p.out = "vpn" /\ p.kind = "dns" /\ p.dst \in dnsServers
  /\ a = "blockDNS" => p.kind = "dns"
  /\ a = "allowLAN" => p.dst \in LanHosts
  /\ a = "allowDHCP" => p.kind = "dhcp" /\ p.dst \in LanHosts
  /\ a = "blockIPv6" => p.out # "lo"
  /\ a = "allowVPN" => p.out = "vpn"
  /\ a = "allowMarkedXray" => p.marked
  /\ a = "blockNets" => p.dst \in blockNets
  /\ a = "allowNets" => p.dst \in allowNets

\* The first match decides: whatever rejects p comes after a rule accepting it.
Accepted(p) ==
  \A i \in 1 .. Len(Chain) :
    Chain[i] \in on \cap Rejecting /\ Matches(Chain[i], p) =>
      \E j \in 1 .. i - 1 :
        Chain[j] \in on \ Rejecting /\ Matches(Chain[j], p)

\* setAnchorEnabled: a chain that does not exist cannot be linked.
SetAnchors(enable, disable) ==
  on' = IF installed THEN (on \cup enable) \ disable ELSE on

\* install() when needed, then the anchors.
InstallAndSet(enable, disable) ==
  /\ installed' = TRUE
  /\ on' = (on \cup enable) \ disable

\* uninstall(): all chains are deleted, with their rules.
Uninstall ==
  /\ installed' = FALSE /\ on' = {}
  /\ allowNets' = {} /\ blockNets' = {} /\ dnsServers' = {}

-----------------------------------------------------------------------------
(* KillSwitch.                                                             *)

\* Mutant: the strict mode forgets to block.
DisableKillSwitch_NoBlock(isStrict) ==
  /\ IF isStrict
     THEN /\ SetAnchors({"allowLoopback", "blockIPv6"},
                        Anchors \ {"allowLoopback", "blockIPv6"})
          /\ UNCHANGED <<installed, allowNets, blockNets, dnsServers>>
     ELSE Uninstall
  /\ ranges' = {}

\* Mutant: the anchors are switched off but the chains stay.
DisableKillSwitch_Keeps(isStrict) ==
  /\ SetAnchors({"allowLoopback", "blockAll", "blockIPv6"},
                Anchors \ {"allowLoopback", "blockAll", "blockIPv6"})
  /\ UNCHANGED <<installed, allowNets, blockNets, dnsServers>>
  /\ ranges' = {}

\* Mutant: the strict mode only switches blocking on, like disableAllTraffic.
DisableKillSwitch_KeepsNets(isStrict) ==
  /\ IF isStrict
     THEN /\ SetAnchors({"allowLoopback", "blockAll", "blockIPv6"}, {})
          /\ UNCHANGED <<installed, allowNets, blockNets, dnsServers>>
     ELSE Uninstall
  /\ ranges' = {}

\* The setting decides between blocking everything and removing the chains.
DisableKillSwitch(isStrict) ==
  /\ IF isStrict
     THEN /\ SetAnchors({"allowLoopback", "blockAll", "blockIPv6"},
                        Anchors \ {"allowLoopback", "blockAll", "blockIPv6"})
          /\ UNCHANGED <<installed, allowNets, blockNets, dnsServers>>
     ELSE Uninstall
  /\ ranges' = {}

\* Anchors it does not name keep their state.
DisableAllTraffic ==
  /\ InstallAndSet({"allowLoopback", "blockAll", "blockIPv6"}, {"allowMarkedXray"})
  /\ ranges' = {}
  /\ UNCHANGED <<allowNets, blockNets, dnsServers>>

\* Works on chains that may not exist; replaces all of 110.allowNets.
ResetAllowedRange(new) ==
  /\ ranges' = new
  /\ SetAnchors({"allowNets"}, {})
  /\ allowNets' = IF installed THEN new ELSE allowNets
  /\ UNCHANGED <<installed, blockNets, dnsServers>>

AddAllowedRange(new) == ResetAllowedRange(ranges \cup new)

\* Mutant: the empty string of a missing server is kept.
AllowedBy_Empty(cfg) == IF cfg.split = 1 THEN {""} ELSE {cfg.server} \cup cfg.sites

\* Mutant: with excluded sites the server is not added.
AllowedBy_SitesOnly(cfg) == IF cfg.split = 0 THEN {cfg.server} ELSE cfg.sites

\* What enableKillSwitch and applyFirewallRules derive from a configuration.
AllowedBy(cfg) == CASE cfg.split = 0 -> {cfg.server}
                    [] cfg.split = 1 -> {}
                    [] cfg.split = 2 -> {cfg.server} \cup cfg.sites

SplitAnchors(cfg) == IF cfg.split = 1 THEN {"blockNets"} ELSE {"blockAll", "allowNets"}

SessionAnchors == {"allowLoopback", "allowVPN", "blockIPv6", "allowDHCP", "allowLAN",
                   "blockDNS", "allowDNS"}

\* The rules of a session; xray says whether 130.allowMarkedXray is touched.
ApplyRules(cfg, xray) ==
  /\ InstallAndSet(SessionAnchors \cup SplitAnchors(cfg) \cup xray,
                   {"blockNets", "blockAll", "allowNets"} \ SplitAnchors(cfg))
  /\ allowNets' = AllowedBy(cfg)
  /\ blockNets' = IF cfg.split = 1 THEN cfg.sites ELSE {}
  /\ dnsServers' = cfg.dns
  /\ UNCHANGED ranges

EnableKillSwitch(cfg) == ApplyRules(cfg, {"allowMarkedXray"})

ApplyFirewallRules(cfg) == ApplyRules(cfg, {})

\* refresh(): the setting is saved first and read back.
Refresh(b) ==
  /\ strict' = b
  /\ IF b THEN DisableAllTraffic ELSE DisableKillSwitch(b)

-----------------------------------------------------------------------------
(* The settings page.  It runs on the UI thread: it knows of a session what *)
(* the queued reports have told it, and its refreshes are queued in turn.  *)

IsConnected == session # NoSession /\ session.stage = "up"

\* ConnectionUiController's m_isConnected: every change not reported yet flips it.
ShownConnected == IF behind % 2 = 0 THEN IsConnected ELSE ~IsConnected

\* VpnConnection reports the state it is in after the step.
ReportState ==
  /\ behind' = IF IsConnected <=> IsConnected' THEN behind ELSE behind + 1
  /\ behind' <= MaxQueued

\* ConnectionUiController::onConnectionStateChanged.
ShowState ==
  /\ behind > 0
  /\ behind' = behind - 1
  /\ UNCHANGED <<settings, strict, firewall, ranges, session, pending, asked, faults>>

QueueRefresh(b) ==
  /\ Len(pending) < MaxQueued
  /\ pending' = Append(pending, b)
  /\ UNCHANGED <<strict, firewall, ranges, session, behind, asked, faults>>

\* Mutant: the switch works while the session is shown as up.
ToggleKillSwitch_Always(b) ==
  /\ appKs' = b
  /\ QueueRefresh(b /\ appStrict)
  /\ UNCHANGED appStrict

ToggleKillSwitch(b) ==
  /\ ~ShownConnected
  /\ appKs' = b
  /\ QueueRefresh(b /\ appStrict)
  /\ UNCHANGED appStrict

\* The page shows the button for FALSE only; the strict mode comes with a
\* restored backup and takes effect at the next toggle of the kill switch.
ToggleStrictKillSwitch(b) ==
  /\ appKs /\ ~ShownConnected
  /\ appStrict' = b
  /\ QueueRefresh(b)
  /\ UNCHANGED appKs

\* VpnConnection::onKillSwitchModeChanged, whatever the session is by now.
OnKillSwitchModeChanged ==
  /\ pending # <<>>
  /\ pending' = Tail(pending)
  /\ Refresh(Head(pending))
  /\ UNCHANGED <<settings, session, behind, asked, faults>>

\* Restoring a backup, or clearing the settings, does not tell the service.
RestoreSettings(ks, s) ==
  /\ appKs' = ks /\ appStrict' = s
  /\ UNCHANGED <<strict, firewall, ranges, session, queues, asked, faults>>

\* GatewayController::prepareRequest.
GatewayRequest(g) ==
  /\ appStrict
  /\ AddAllowedRange({g})
  /\ UNCHANGED <<settings, strict, session, queues, asked, faults>>

-----------------------------------------------------------------------------
(* Sessions.                                                               *)

\* The addresses a session needs outside the tunnel.
Exempted(cfg) == AllowedBy(cfg) \cup {cfg.server}

Session(cfg, stage) ==
  /\ session' = [cfg |-> cfg, ks |-> appKs, stage |-> stage]
  /\ asked' = asked \cup Exempted(cfg)
Advance(from, to) ==
  /\ session # NoSession /\ session.stage = from
  /\ session' = [session EXCEPT !.stage = to]

StartWireguard(cfg) ==
  /\ session = NoSession /\ cfg.proto = "wg"
  /\ Session(cfg, "ready")
  /\ IF appKs THEN ApplyFirewallRules(cfg) ELSE UNCHANGED <<firewall, ranges>>
  /\ UNCHANGED <<settings, strict, queues, faults>>

\* OpenVpnProtocol::start first runs cleanupResources.
StartOpenVpn(cfg) ==
  /\ session = NoSession /\ cfg.proto = "ovpn"
  /\ Session(cfg, "cleaned")
  /\ DisableKillSwitch(strict)
  /\ UNCHANGED <<settings, strict, queues, faults>>

AllowServer ==
  /\ Advance("cleaned", "launched")
  /\ AddAllowedRange({session.cfg.server})
  /\ UNCHANGED <<settings, strict, queues, asked, faults>>

StartXray(cfg) ==
  /\ session = NoSession /\ cfg.proto = "xray"
  /\ Session(cfg, "launched")
  /\ UNCHANGED <<settings, strict, firewall, ranges, queues, faults>>

\* updateVpnGateway on OpenVPN's push reply, setupRouting of Xray.
EnableForSession ==
  /\ Advance("launched", "ready")
  /\ IF session.ks THEN EnableKillSwitch(session.cfg)
     ELSE UNCHANGED <<firewall, ranges>>
  /\ UNCHANGED <<settings, strict, queues, asked, faults>>

\* The server's name no longer resolves: enableKillSwitch rejects the config
\* and OpenVPN goes on without it.
EnableRejected ==
  /\ faults < MaxFaults
  /\ Advance("launched", "ready") /\ session.cfg.proto = "ovpn" /\ session.ks
  /\ faults' = faults + 1
  /\ UNCHANGED <<settings, strict, firewall, ranges, queues, asked>>

Connected ==
  /\ Advance("ready", "up")
  /\ ReportState
  /\ UNCHANGED <<settings, strict, firewall, ranges, pending, asked, faults>>

\* OpenVPN reports RECONNECTING: the client is no longer connected.
Reconnecting ==
  /\ Advance("up", "launched") /\ session.cfg.proto = "ovpn"
  /\ ReportState
  /\ UNCHANGED <<settings, strict, firewall, ranges, pending, asked, faults>>

\* stop() of any protocol; for WireGuard the daemon's deleteInterface.
Stop ==
  /\ session # NoSession
  /\ session' = NoSession /\ asked' = {}
  /\ ReportState
  /\ DisableKillSwitch(strict)
  /\ UNCHANGED <<settings, strict, pending, faults>>

\* A WireGuard activation fails after applyFirewallRules: nobody undoes it.
ActivationFails ==
  /\ faults < MaxFaults
  /\ session # NoSession /\ session.cfg.proto = "wg" /\ session.stage = "ready"
  /\ session' = NoSession
  /\ faults' = faults + 1
  /\ UNCHANGED <<settings, strict, firewall, ranges, queues, asked>>

-----------------------------------------------------------------------------
(* The service starts: init().                                             *)

\* Restarted by systemd; the chains are still there.
ServiceRestart ==
  /\ faults < MaxFaults
  /\ faults' = faults + 1
  /\ session' = NoSession
  /\ ReportState
  /\ IF strict THEN DisableAllTraffic ELSE ranges' = {} /\ UNCHANGED firewall
  /\ UNCHANGED <<settings, strict, pending, asked>>

\* The machine boots: no chain exists.
Reboot ==
  /\ faults < MaxFaults
  /\ faults' = faults + 1
  /\ session' = NoSession /\ asked' = {}
  /\ pending' = <<>> /\ behind' = 0
  /\ ranges' = {}
  /\ allowNets' = {} /\ blockNets' = {} /\ dnsServers' = {}
  /\ installed' = strict
  /\ on' = IF strict THEN {"allowLoopback", "blockAll", "blockIPv6"} ELSE {}
  /\ UNCHANGED <<settings, strict>>

Init ==
  /\ appKs = TRUE /\ appStrict = FALSE /\ strict = FALSE
  /\ installed = FALSE /\ on = {}
  /\ allowNets = {} /\ blockNets = {} /\ dnsServers = {}
  /\ ranges = {} /\ session = NoSession /\ faults = 0
  /\ pending = <<>> /\ behind = 0 /\ asked = {}

Start(cfg) == StartWireguard(cfg) \/ StartOpenVpn(cfg) \/ StartXray(cfg)

Next ==
  \/ \E b \in BOOLEAN : ToggleKillSwitch(b)
  \/ ToggleStrictKillSwitch(FALSE)
  \/ ShowState \/ OnKillSwitchModeChanged
  \/ \E ks, s \in BOOLEAN : RestoreSettings(ks, s)
  \/ \E g \in Gateways : GatewayRequest(g)
  \/ \E cfg \in VpnConfigs : Start(cfg)
  \/ AllowServer \/ EnableForSession \/ EnableRejected
  \/ Connected \/ Reconnecting \/ Stop \/ ActivationFails
  \/ ServiceRestart \/ Reboot

Spec == Init /\ [][Next]_vars

-----------------------------------------------------------------------------
(* Properties.                                                             *)

\* Every variable has its type.
TypeOK ==
  /\ appKs \in BOOLEAN /\ appStrict \in BOOLEAN /\ strict \in BOOLEAN
  /\ installed \in BOOLEAN /\ on \subseteq Anchors
  /\ allowNets \subseteq Hosts /\ blockNets \subseteq Hosts /\ dnsServers \subseteq Hosts
  /\ ranges \subseteq Hosts
  /\ session \in {NoSession} \cup SessionRecord
  /\ pending \in Seq(BOOLEAN) /\ Len(pending) <= MaxQueued
  /\ behind \in 0 .. MaxQueued
  /\ asked \subseteq Hosts /\ (session # NoSession => Exempted(session.cfg) \subseteq asked)
  /\ faults \in 0 .. MaxFaults

\* Hosts that some configuration or request may rightly exempt.
Named == Gateways \cup UNION {{cfg.server} \cup cfg.sites : cfg \in VpnConfigs}

\* A packet that leaves outside the tunnel towards the internet.
Clear(p) == p.out = "phys" /\ ~p.marked /\ p.dst \notin LanHosts

\* In strict mode no packet to an unrelated host leaves outside the tunnel,
\* before, during and after sessions, through crashes and reboots; only the
\* rules of an only-these-sites session (120.blockNets) let IPv4 through.
StrictBlocks ==
  strict => \A p \in Packet :
    Clear(p) /\ p.dst \notin Named /\ Accepted(p) => ~p.v6 /\ "blockNets" \in on

\* The soft mode leaves nothing behind: without a session, and when each one
\* that failed was followed by one stopped in order, every packet passes.
SoftUnblocks ==
  ~strict /\ session = NoSession /\ asked = {} => \A p \in Packet : Accepted(p)

\* An orderly stop ends every exemption, those left by a failed activation, a
\* crash or a restart included: what leaves in the clear past a blocking firewall
\* goes to an API gateway, or to an address that a session started since the
\* last orderly stop asks to exempt.
ExemptionsAreCurrent ==
  "blockAll" \in on =>
    \A p \in Packet : Clear(p) /\ Accepted(p) => p.dst \in Gateways \cup asked

\* As long as rules let traffic into the tunnel (200.allowVPN), whoever edits the
\* firewall in the meantime, IPv4 queries to the listed DNS servers pass through
\* the tunnel, and no query to a server that is not listed leaves outside it,
\* one in the LAN or exempted as a site included.  (Listed servers stay
\* accessible "when KillSwitch is active", says the settings page: by the tunnel.)
DnsStaysInside ==
  "allowVPN" \in on =>
    \A p \in Packet : p.kind = "dns" /\ ~p.v6 =>
      /\ p.out = "vpn" /\ p.dst \in dnsServers => Accepted(p)
      /\ p.out = "phys" /\ p.dst \notin dnsServers => ~Accepted(p)

\* The session is up, the page shows it, and no refresh is on its way.
Settled == IsConnected /\ behind = 0 /\ pending = <<>>

\* While a session stays up, only a refresh that was queued before the page
\* showed it as up opens the firewall for an unrelated host; and once the page
\* shows it and the queue is empty, none is queued any more.
UpStaysClosed ==
  [][IsConnected /\ IsConnected' =>
       /\ Settled => Settled'
       /\ Len(pending') >= Len(pending) =>
            \A p \in Packet :
              Clear(p) /\ p.dst \notin Named /\ ~Accepted(p) => ~Accepted(p)']_vars

\* In soft mode, whatever was toggled while it was starting, the server of a
\* session that is up is reachable, unless an API request has replaced
\* 110.allowNets or something failed before.
ServerStaysReachable ==
  IsConnected /\ ~strict /\ allowNets \cap Gateways = {} /\ faults = 0 =>
    \A p \in Packet :
      Clear(p) /\ ~p.v6 /\ p.kind = "data" /\ p.dst = session.cfg.server
        /\ p.dst \notin session.cfg.sites => Accepted(p)
=============================================================================
