# TunnelCore VPN: a TLA+ development

TunnelCore VPN is a Qt client (`client/`) and a privileged service (`service/`,
`client/daemon/`, `client/platforms/<os>/daemon/`) that the client drives over
two local channels: a JSON protocol on a local socket for WireGuard/AmneziaWG,
and Qt Remote Objects (`ipc/`) for everything else; on Android a VPN service in
Kotlin (`client/android/`) takes the place of the privileged one.  These modules
model the core of the Linux build (the WireGuard daemon, the kill switch, the
client's session), the account session of the TunnelCore service, and the
Android service, with the orders of steps that a test hardly produces.

File names below are relative to the repository.

## 1. Inventory

| Component | State | Operations | Talks to |
|---|---|---|---|
| WireGuard daemon (`client/daemon/daemon.cpp`) | `m_connections`, `m_excludedAddrSet` (reference counts), `m_handshakeTimer` | `activate`, `switchServer`, `deactivate`, `getStatus`, `checkHandshake` | its sockets; WireGuard utilities, DNS and address utilities |
| WireGuard utilities (`client/platforms/linux/daemon/wireguardutilslinux.cpp`, `linuxroutemonitor.cpp`) | the `amneziawg-go` process, the route monitor, kernel routes | `addInterface`, `deleteInterface`, `updatePeer`, `deletePeer`, `getPeerStatus`, routes and exclusion routes | the tunnel process over its UAPI socket, the kernel over netlink, the kill switch |
| Daemon's local server (`client/daemon/daemonlocalserver*.cpp`) | one connection object per client socket | `activate`, `deactivate`, `status`, logs; broadcasts of `connected`/`disconnected` | daemon, client controllers |
| Kill switch (`service/server/killswitch.cpp`) | strict flag, `m_allowedRanges` | `init`, `refresh`, `enableKillSwitch`, `disableKillSwitch`, `disableAllTraffic`, allowed ranges | Linux firewall; called by the settings page, the gateway client, the daemon, OpenVPN and Xray |
| Linux firewall (`client/platforms/linux/daemon/linuxfirewall.cpp`) | iptables chains: anchors in a fixed order, enabled or not | `install`, `uninstall`, `setAnchorEnabled`, `updateAllowNets`, ... | the kernel |
| Client session (`client/vpnConnection.cpp`, `client/core/protocols/vpnProtocol.cpp`, `wireGuardProtocol.cpp`) | `VpnConnection::m_connectionState`, the protocol object and its own state | connect, disconnect, reconnect on a network change | controller of the daemon; UI |
| Client controller of the daemon (`client/mozilla/localsocketcontroller.cpp`) | `m_daemonState`, the socket, `m_initializingRetry` | initialize, retry, activate, deactivate, parse replies | the daemon's socket |
| OpenVPN, Xray protocols | process handles, management state | start, stop, state changes | IPC service, kill switch, router |
| Kill switch settings (`settingsUiController.cpp`, `settingsController.cpp`) | two flags in the client's settings, a copy of one in the service | toggles, restore of a backup, clearing | kill switch |
| Gateway client (`gatewayController.cpp`) | proxy list | request with fail-over | kill switch (exemption of the API host) |
| TunnelCore session (`client/ui/controllers/tunnelCoreController.cpp`) | token, device, `m_busy`, `m_generation`, `m_pendingConfigId`, account data, cache of routing rules | sign in, register, load the account (a chain of requests), select a country or configuration, refresh routing, sign out | the account server over HTTP; session storage; import of configurations |
| Android service (`client/android/src/org/amnezia/vpn/AmneziaVpnService.kt`, `client/android/wireguard/.../Wireguard.kt`) | `protocolState`, `connectionJob`, `disconnectionJob`, bound clients; backend handle, TUN interface, status job | connect, disconnect, reconnect on a network change, collector of the state, unbind, destroy | clients over messages; the WireGuard backend; the Android framework |
| IPC server, router, repositories, update controller, server management over SSH, other platforms, UI | see `PROJECT.json` | not modelled | |

What is hard in this code:

- **Nested event loops.**  The daemon has one thread, but every request to
  `amneziawg-go` spins the Qt event loop until the reply arrives
  (`uapiCommand`, `waitForTunnelName`).  A command of another socket, or the
  handshake timer, runs in the middle of a suspended one and finishes first.
  The client has the same hazard: `VpnConnection::setConnectionState` waits for
  `flushDns` and `clearSavedRoutes` before it stores a state
  (`vpnConnection.cpp:130`, `:169`, `:175`), and handles requests and replies
  meanwhile.
- **Partial failures.**  `activate` and `switchServer` have up to seven steps
  that change the host before they record the connection; each may fail.
- **Reference counts** of exclusion routes, taken by one parser and given back
  by another.
- **A firewall with state of its own** that survives the service and is edited
  by callers that do not know of each other; the first match decides.  The
  settings page checks on one thread whether a session is up and has the firewall
  changed on another, later.
- **Two state machines in the client that filter each other's changes**, with
  replies on a socket that may be from before the last request.
- **Crashes**: systemd restarts the service; routes and rules stay.
- **Chains of requests without a guard on signing out**: replies of an ended
  session arrive in the next one, a timed-out request may still be carried out,
  and a confirmed sign-out may overlap a chain.
- **Coroutines that meet in two unsynchronised fields** on Android: a connection
  job joins the disconnection job, which cancels and joins the connection job;
  cancelling takes effect only where a job suspends, and `onDestroy` blocks the
  main thread on one of them.

Each hazard, with its line and the properties aimed at it, is in
`PROJECT.json`.

What makes the components correct: counts and routes of the daemon belong to
the recorded configuration; a connection in progress is polled until it is
reported; the kill switch is not lifted under a connection; the strict mode
blocks in every state; the soft mode leaves nothing behind; DNS stays inside;
the two views of the client fit each other once its calls have returned; attempts
end; nothing of one account reaches the next; a busy client waits for something;
configurations are read with the rules of the chosen region in force; on Android no jobs wait for each other, no interface or tunnel is left
behind, and the state shown is the state there is.

## 2. Modules

| Module | Models |
|---|---|
| `Daemon` | `Daemon`, `WireguardUtilsLinux`, `LinuxRouteMonitor`, the daemon's sockets, the tunnel process |
| `MCDaemon` | small sets of configurations for `Daemon`, bare addresses and GeoIP entries |
| `DaemonProofs` | theorems about `Daemon` with any number of clients |
| `DaemonOneClientProofs` | theorems about `Daemon` with one client: exclusions, routes, what is left on the host, refinement of `ExclusionLedger` |
| `KillSwitch` | `KillSwitch` and `LinuxFirewall` with all their callers, the settings page and its queues |
| `MCKillSwitch` | small sets of configurations for `KillSwitch` |
| `KillSwitchProofs` | theorems about `KillSwitch` |
| `VpnClient` | `VpnConnection`, `WireguardProtocol`, `LocalSocketController`, the daemon reduced to its messages |
| `VpnClientProofs` | theorems about `VpnClient` |
| `ExclusionLedger` | what the daemon promises about excluded addresses: atomic commands; `Daemon` is shown to implement it |
| `TunnelCore` | `TunnelCoreController`, the split-tunnelling settings it writes and the user edits, the account server, restarts of the program |
| `MCTunnelCore` | locations, a region and their symmetry for `TunnelCore` |
| `TunnelCoreProofs` | theorems about `TunnelCore`: sessions, routing rules, types |
| `TunnelCoreOrderProofs` | theorems about `TunnelCore` that need its requests to come one at a time |
| `AndroidService` | `AmneziaVpnService` with the `Wireguard` protocol object |
| `AndroidServiceProofs` | theorems about `AndroidService` |
| `AndroidCrossingProofs` | theorems about `AndroidService` for requests that do not cross |

### Daemon

The thread is a **stack of suspended calls** (`stack`): an action runs the code
from one wait to the next, only the top of the stack resumes, and while the top
waits, a command (`Activate`, `Deactivate`, `GetStatus`, `ActivateInvalid`) or
`CheckHandshake` may be pushed on it.  A frame holds the locals the code keeps
across the wait: the configuration, the previous one (switch), the one to
activate next (a deactivate called by `activate`).  A socket has at most one
command in progress, because `readyRead` is not emitted from within its own
slot.

- `conn` is `m_connections` with its one hop (multihop is not offered by the
  client); `date` is whether `m_date` is set.
- `excl` is `m_excludedAddrSet`; `plain` and `cidr` of a configuration count the
  strings of `m_excludedAddresses` per prefix they denote, apart for bare
  addresses and `a.b.c.d/n`, because `switchServer` parses only the former.
- `tunnel`, `rtmon`, `fw`, `dns`, `peers`, `xroutes`, `troutes`, `gw` are the
  host: process, route monitor, kill switch rules, resolvers, device peers,
  kernel routes around and into the tunnel, default gateway.
- Every step that can fail in the code is a disjunct of its own
  (`PeerFailed`, `RouteFailed`, `SwitchRouteFailed`, `AnswerErr`, ...).
- The environment: replies (`AnswerOk`, `AnswerErr`; no reply is the timeout of
  a call that resumes while its reply is still `"wait"`), handshakes, the exit
  of the process, loss of the default gateway, a crash with restart.

`asserted` records why a `Q_ASSERT` of `delExclusionRoute` was evaluated to
false: the address was not held (`"unheld"`), or `switchServer` read an entry with
a prefix length as the null address (`"unread"`).  The model goes on as a release
build does; the entry for the null address that `operator[]` inserts then is
removed again by the same call, and has no further effect.

### ExclusionLedger

The abstract daemon knows the configuration in use and a number of references
per excluded address.  `Use` exchanges one configuration's references for
another's, `Release` gives all of them back.  A switch gives back what it can read
of the old list (`Read`: bare addresses); references to the other entries stay
until a `Release`.  The mapping in `Daemon` counts a
switch as done once it has given back the old references (`Committed`), and does
not count the references a suspended call has taken and may still give back
(`Uncommitted`).  `Revert` is the exception the code makes: when the old peer
cannot be deleted at the end of a switch, `switchServer` returns false with the
old configuration recorded and the new references held.

### KillSwitch

The firewall is the set `on` of enabled anchors of `Chain`, in the order of
`LinuxFirewall::install`; `Accepted(p)` is the verdict of the first match.
`allowNets`, `blockNets`, `dnsServers` are the contents of the chains that are
rewritten at run time, `ranges` is `m_allowedRanges`.  A session is started by
`StartWireguard` (one call of `applyFirewallRules` in the daemon),
`StartOpenVpn` or `StartXray` (several IPC calls, one action each, with other
callers in between).  Settings are the client's two flags and the service's
own copy of the strict one; `RestoreSettings` changes the former only.

The settings page runs on the UI thread.  What it knows of the session lags
behind (`behind` counts the reports it has not handled; `ShowState` handles one),
and a toggle queues a refresh (`pending`) that `OnKillSwitchModeChanged` carries
out on the thread of `VpnConnection`, whatever the session is by then.  The start
of a WireGuard session is one step with its `applyFirewallRules`: a queued refresh
comes before or after it.

`asked` is history: what the sessions started since the last orderly stop asked
to exempt, the ones that failed or crashed included.  `ExemptionsAreCurrent`
bounds by it what passes a blocking firewall in any state; an orderly stop or a
reboot empties it.  `DnsStaysInside` holds in every state with `200.allowVPN` on:
listed servers are reached through the tunnel, which is how
`PageSettingsKillSwitch.qml:124` ("DNS servers listed here will remain accessible
when KillSwitch is active.") is true of the code; they are not reached outside it.
Packets are abstracted to the interface they leave by, the IP version, the
destination, DNS/DHCP/other, and the mark of Xray's packets.

### VpnClient

`vpn` is `VpnConnection::m_connectionState`, `cur` is `m_vpnProtocol`, `objs` has
the protocol objects that exist, each with its own state, `m_daemonState`, socket
and retry counter.

The thread is a stack here too.  `setConnectionState` of Connected, Disconnected
or Error pushes a call on `stack` and waits in an event loop, in which requests of
the user, network changes, socket data and timers are handled and may wait in
turn; `Return` lets the innermost call store its state and its caller go on.
`todo` has what a slot does between two waits, one action per call: `stop()`,
`reset()`, the destructor's second `stop()`, the factory, `start()`.  The two
`stop()` of a disconnect thus see the controller at different moments.  A
handler whose object was destroyed while it waited, and `reconnectToVpn` calling
`start()` on a null pointer (`vpnConnection.cpp:576`), go on or crash (`Crash`: the
client starts anew).  `readyRead` of a socket is not emitted again while a handler
of it waits.  Left out: the status that "connected" asks for again, which only
refreshes addresses; `Written` drops what is written to a socket that is not open.

A socket has an `inbox` (not yet read by the daemon) and an `outbox` (not yet read
by the client); a closed socket's inbox is still read by the daemon, its outbox is
lost.  The daemon is reduced to `idle`, `pending`, `up` or `down` and to the
messages it sends; an activation succeeds, or fails with or without the previous
connection left.

Sockets are numbered and reused once nothing is left in them, so that
`MaxSockets` bounds the sockets alive at once and not the attempts.
`InOrder` chooses between a daemon that finishes closed sockets first and one
whose notifiers fire in any order.

### TunnelCore

`net` holds the requests in flight; a request remembers the generation it was
made in, its token, whether the client still listens (`heard`: not after a
timeout, an abort or a restart) and the server's answer.  A handler is one
action: it reads an answer of its own generation and sends the next request of
the chain in the same slot, or ends it (`Finish`, `Fail`, `Forget` =
`clearSession`).  `Lost` is every way a reply can fail, before or after the
server has acted; a request nobody listens to may still be served (`Serve`) or
not (`Drop`).  Tokens are numbered by session, and the data of an account carries
the token it was obtained with, so that a mix-up is visible.  `server` is
external: valid tokens, device slots, linked accounts, the revision of the
routing rules.  JSON, texts and subscriptions are left out; configurations are
named by their location, routing rules by their revision.

Rules in force are what `coreController.cpp:276-360` writes into the
split-tunnelling settings.  The user edits the same settings (`EditSites`), and
`m_lastAppliedRouting*` does not hear of it: `applyRouting` then skips rules that
are not in force any more.  A region is saved before its rules are read, so
`RulesFollowRegion` speaks of the requests that come after the rules in the chain.

`delivered`, `overlap` and `released` are history: the `configReady` of this
step, whether signing out met another request, and how sessions ended.

### AndroidService

The handlers of the main thread (requests, the collector, binding, `onDestroy`)
are atomic; the collector is two actions, as it suspends while the state is
stored.  Connection, reconnection and disconnection jobs and status jobs run on
other threads, one action from one access of shared state to the next.  `Cancelled` is
`Job.cancel`: a job that has not begun never runs, any other is marked, and only
`join` looks at the mark (`ConnectJoined`, `DisconnectJoined`).  `Throw` is the
exception handler of the scope.  A status job reads the handle, asks the backend
and writes the state in three steps, so that the backend may be stopped in
between.

`crossed` records that a request or a job that was not over has been
overwritten: a field lost such a job, a status job wrote after it was cancelled,
stopVpn reported the end of a tunnel to a newer request (the ordinary connect
during DISCONNECTING is one of these), or a connection was requested during a
reconnection.  It is forgotten when a request finds the service at rest (`AtRest`:
no job or status job under way, and a state that says what there is).  Properties
about what is left when all jobs have ended exclude the time in between; section
5 has what happens in it.  `lost` records that `start` has overwritten a descriptor
or a backend handle that was in use (`Wireguard.kt:199`, `:202`), which nothing
can close any more.
`"gone"` is final: the next instance of the service starts like the first one
provided nothing was left, which is `NoTunnelLeft`.  `Kill` (5 s after
`stopSelf` without `onDestroy`) starts a new process at once.

## 3. Runs

| Run | Instance | Shows |
|---|---|---|
| `daemon_sequential` | 1 socket, 3 configurations (all traffic; with an excluded site and a GeoIP entry; another server), depth 2 | `TypeOK`, `ExclusionsMatchConnection`, `CleanWhenOff`, `ExclusionIsKnown` |
| `daemon_concurrent` | 2 sockets (symmetric), 2 configurations, depth 3 | `PendingIsPolled`, `KillSwitchHolds` |
| `daemon_faults` | 1 socket, 3 configurations (one with a GeoIP entry), one process death, one loss of the gateway, one crash | `ExclusionsAreHeld` |
| `daemon_live` | 1 socket, 3 configurations of 2 keys, a GeoIP entry, fairness | `HandshakeIsReported`; refinement `ActsAsLedger` |
| `daemon_cidr` | as `daemon_sequential` | violation of `NeverAsserts` |
| `killswitch_modes` | 5 hosts, 6 configurations (WireGuard with each split type, OpenVPN, Xray), 2 faults, 2 refreshes and 2 reports under way | `TypeOK`, `StrictBlocks`, `SoftUnblocks`, `ExemptionsAreCurrent`, `DnsStaysInside`, `ServerStaysReachable`, `UpStaysClosed` |
| `client` | 2 sockets, 2 objects, 2 nested requests, calls nested twice, 1 network change, 1 crash, 2 retries, fairness | `TypeOK`, `ViewsSettle`, `AttemptEnds` |
| `client_shown` | the same with 1 nested request, no crash | violation of `ShowsLiveState` |
| `tunnelcore_session` | 2 requests in flight, 2 sessions, 2 locations (symmetric), restarts, overlapping sign-out | `TypeOK`, `SessionIsolation`, `SavedIsCurrent`, `BusyIsServed`, `ProfileMatches`, `SlotReleased` |
| `tunnelcore_routing` | 1 region and the default, 2 revisions of which one cannot be applied, 2 sessions, restarts, edits of the settings | `RulesFollowRegion`, `OneRefreshPerKey` |
| `tunnelcore_live` | 1 session, every kind of chain, fairness | `BusyEnds` |
| `android` | 3 requests and the one of `onDestroy`, network changes, clients that leave, failures | `TypeOK`, `NoTunnelLeft`, `ConnectedIsReal`, `DisconnectedIsDown`, `NoLeak`, `DisconnectionIsSettled`, `NoCircularWait` |

### Bounds

- `MaxDepth`: 2 lets a poll and a command nest both ways, 3 puts a command, a
  second socket's command and a poll on the stack, which is all that two
  sockets and one single-shot timer can produce without a fourth actor.
- `MaxRefs` caps a reference count; no configuration in use lists an address
  more than once, so a switch reaches 2 and a nested one 3.
- `MaxDeaths`, `MaxDrops`, `MaxCrashes` are 1 each in `daemon_faults`: every
  fault meets every suspended call.  Two of a kind only repeat a situation, as
  the state after a crash is the initial one but for the kernel's leftovers.
- `MaxFaults = 2` in `killswitch_modes`: a failed activation followed by a
  crash or reboot, or two of either.
- `MaxQueued = 2` there: a refresh behind another, and a page two changes behind
  the session.
- `MaxSockets = 2`: an old socket with unread commands next to the present one.
  `MaxObjects = 2`: an object whose destructor waits next to its successor.
- `MaxDepth = 2`, `MaxNested = 2` in `client`: a call waits in the event loop of
  another, and two requests are handled in nested loops, which is enough to store
  states in the wrong order, to replace the object under a call and to destroy it.
- `MaxRetry` stands for `MAX_CONNECTION_RETRY`; 2 lets a retry succeed, fail
  and run out.
- `MaxInFlight = 2`: signing out is the one operation that overlaps another.
  `MaxGeneration = 2`: a session with replies of the one before.  `MaxRevision =
  2` with the second revision inapplicable: a good cache that turns bad.  Three
  configuration forms occur in `tunnelcore_live`; the others fetch by id.
- `MaxRequests = 3`: connect, disconnect, connect again, with a reconnection in
  place of any; `onDestroy` adds a fourth job.  With two requests the ends of
  jobs and disconnections were explored as liveness properties too, and held.

`daemon_concurrent` identifies states that differ only in `told` (`VIEW`) or in
a permutation of the sockets (`SYMMETRY`): no guard reads `told`, its properties
do not mention it, and both are safety properties.

### Fairness

- `Daemon`: `WF(Resume)`, since every wait has a timeout; `SF(CheckHandshake)`
  and `SF(AfterPoll)`, since the Qt event loop serves an expired timer and a
  nested loop hands back to the waiting call even when commands keep arriving;
  `SF(PollAnswered)`, the assumption that a tunnel that stays up answers some
  poll.  No command is assumed to arrive, and no handshake is assumed to happen.
- `VpnClient`: `WF` on the steps of a slot that has begun, on the return of a
  waiting call (the service answers, or the wait for its reply times out; it ends
  at once when the service is down), on the client's socket and timer slots, on
  the daemon
  reading each socket, on its start by systemd, and on the completion of a
  handshake (a reachable server).  Users and networks are not fair.
- `TunnelCore`: `WF(Reply(i))` for each request, since `setTransferTimeout`
  ends a request the server does not answer.  The server is not fair.  `BusyEnds`
  excludes other devices that remove this one for ever: `refresh` and
  `registerDevice` call each other without a limit.
- `AndroidService`: none; its properties are safety properties.

## 4. What is proved

TLAPS checks these for every value of the constants that satisfies the named
assumptions, so without the bounds of section 3.

| Theorem | Statement | Argument |
|---|---|---|
| `DaemonTypes` | `Spec => []TypeOK` | `TypeOK` is inductive because `Frame` says which locals each suspended call has: a resumed switch or deactivate finds a configuration in its frame, never `NoConfig`.  One lemma per action. |
| `DaemonPolls` | `Spec => []PendingIsPolled` | Relative to `TypeOK`.  `KeepsPolling(s)` is the shape of every step but the timer's: at most one call is suspended on `s`, the timer is not stopped, and a connection that is new or newly without a handshake starts it; the property follows in `PolledNext`. |
| `DaemonKeepsKillSwitch` | `Spec => KillSwitchHolds` | An action property: only `deleteInterface` drops the rules, and it runs after `m_connections.clear()` with no wait in between. |
| `DaemonHoldsExclusions` | `OneClient /\ SwitchesKeepServer => (Spec => []ExclusionsAreHeld)` | `Holds`: every count is at least what the recorded configuration lists plus what the command in progress has taken.  All faults included. |
| `DaemonExclusionIsKnown` | `OneClient /\ SwitchesKeepServer /\ MaxDrops = 0 => (Spec => []ExclusionIsKnown)` | `Exact`: each entry covers that sum, *is* that sum for addresses that every list has bare, and is absent when nothing is counted; so what a failed command or a switch gives back is there.  Lists with prefix lengths, exits and crashes included. |
| `DaemonExclusionsMatch` | `Undisturbed => (Spec => []ExclusionsMatchConnection)` | `Exact` and `Routed`: the kernel routes are the counted prefixes, less the server's while a deactivate waits. |
| `DaemonLeavesHostClean` | `Undisturbed /\ MaxDeaths = 0 => (Spec => []CleanWhenOff)` | `Cleans`: the tunnel is up throughout a command, and each one starts a tunnel on a bare host. |
| `DaemonIsLedger` | `OneClient /\ MaxDrops = 0 => (Spec => ActsAsLedger)` | `Balanced`: counts cover what the command in progress has taken.  Each step is a `Use` (the end of an activate; a switch giving back the references it can read), a `Release` (the end of a deactivate; a crash), a `Revert`, or a stutter. |
| `KillSwitchTypes` | `Spec => []TypeOK` | part of the inductive invariant below |
| `StrictModeBlocks` | `Spec => []StrictBlocks` | The verdict over all packets is not inductive; `Inv` is: types, `allowNets` and `ranges` only hold named hosts, and in strict mode the chains are linked with `blockIPv6` on and `blockAll` on, or `blockNets` on instead.  `IPv6IsRejected` and `UnnamedIsRejected` walk the chain: no accepting anchor before the rejecting one matches. |
| `SoftModeUnblocks`, `ExemptionsStayCurrent`, `DnsIsInside`, `ServerIsReachable` | `Spec => []SoftUnblocks`, ... | `RulesInv`, relative to `Inv`: which anchors are on in each stage of a session and each mode, and what `110.allowNets` holds then: named by a gateway or in `asked`; each verdict follows by walking the chain. |
| `UpSessionStaysClosed` | `Spec => UpStaysClosed` | an action property: a toggle needs a page that shows no session, which `behind = 0` excludes while one is up; of the other steps that keep a session up, an API request exempts only named hosts, and the one that takes a refresh from the queue is the exception the property makes. |
| `ClientTypes` | `Spec => []TypeOK` | one step per action, lemmas about writing and delivering |
| `ClientViewsSettle` | `Spec => []ViewsSettle` | `Core` says what holds between the calls: `Owned` (the pointer is to an object that exists, and `stop()` has one), `Dying` and `Dropped` (which objects exist while destructors wait), `Progress` (with no call waiting, Connecting and Disconnecting belong to the slot that set them, which has its essential steps before it or has done them).  For any depth and any order of sockets. |
| `TunnelCoreSessionIsolation` | `Spec => []SessionIsolation` | `SessionInv`: a request whose reply will be read was made with the session's token, or is a sign-in; no request is of a later generation; a session's token is that of its generation.  `Forget` makes every request one of an earlier generation, `AuthDone` cannot meet a request of another token. |
| `TunnelCoreSavedIsCurrent` | `Spec => []SavedIsCurrent` | part of `SessionInv` (a restart needs it) |
| `TunnelCoreBusyIsServed` | `Spec => []BusyIsServed` | Relative to `SessionInv`: every step sends a request, clears `m_busy`, or changes no request that is listened to. |
| `TunnelCoreOneRefreshPerKey` | `Spec => []OneRefreshPerKey` | `RulesInv`: every refresh in flight is registered in `m_routingRefreshInFlight`, and no two are for one key; the latter alone is not inductive, as a reply unregisters its key. |
| `TunnelCoreTypeOK` | `Spec => []TypeOK` | `RequestsAreApt`: what a request in flight may ask and be told; replies are stored unseen, so `TypeOK` alone is not inductive. |
| `TunnelCoreProfileMatches` | `Spec => []ProfileMatches` | `OrderInv`: without an overlap at most one request of the session will call back, none when the client is not busy, and a configuration being fetched is the pending one. |
| `TunnelCoreSlotReleased` | `Spec => []SlotReleased` | `SlotInv`, relative to `OrderInv`: a session that was ended by a confirmed sign-out without an overlap has neither a slot nor a request that could still take one. |
| `TunnelCoreRulesFollowRegion` | `Spec => []RulesFollowRegion` | `RegionInv`, relative to `OrderInv`: without an overlap a request for rules is for the chosen region, and once one for configurations is in flight those rules, or the user's, are in force; no step changes the region in between, as choosing one starts a chain of its own. |
| `AndroidTypes` | `Spec => []TypeOK` | part of `Inv` below; the fields name jobs of the sequence |
| `AndroidNoCircularWait` | `Spec => []NoCircularWait` | `RefsAreApt`: a field names a job of its own kind; `WaitsAreApt`: a connection job waits for a disconnection job, and a disconnection job for one it has cancelled.  A cancelled job is not blocked, so a circle would need a disconnection job that waits for one that is not cancelled. |
| `AndroidDisconnectionIsSettled` | `Spec => []DisconnectionIsSettled` | `DisconnectingIsServed`: while the service runs and says DISCONNECTING, some disconnection job is not cancelled; only the exception handler and `onDestroy` cancel one. |
| `AndroidNoTunnelLeft`, `AndroidConnectedIsReal`, `AndroidDisconnectedIsDown` | `Spec => []NoTunnelLeft`, ... | `CrossInv`: as long as nothing crossed, `Tame` holds: the two fields name the jobs that are not over, `onDestroy` has a job that closes the tunnel, connections start from a tunnel that is down, and the state is one that a job or a status job will still correct.  A request that finds the service at rest makes it tame again. |
| `AndroidNoLeak` | `Spec => []NoLeak` | `TunIsServed`: an open interface has a backend, or a job at the step that starts it (cancelling does not stop that job).  `LossIsCrossing`, relative to `CrossInv`: a tame service starts only what is down. |

The proofs of `DaemonOneClientProofs` first remove the stack.  With one socket
at most one suspended call is not a poll (`Shape`); it is the command in progress
(`Work`).  `NextIs` shows that every step of `Daemon` is one of 16 steps over
`Work` and the other variables (`OneOf`); the invariants above are then proved
over these, each relative to `Control` (which commands can be in progress with
which connection).

Assumptions: configurations have the shape of `InterfaceConfig`/`VpnConfig`,
bounds are naturals, the null values differ from real ones, API gateways and
LAN addresses are hosts, and no location has the id that stands for none
(`m_pendingConfigId <= 0`) (`ConfigsAreConfigs`, `BoundsAreNaturals`,
`NullsAreFresh`, `HostsAreNamed`, `ConfigsAreTyped`, `FaultsAreBounded`,
`NoSessionIsFresh`, `ServiceAssumption`, `NoProtocolAssumption`,
`BoundsAssumption`, `LocationsAssumption`, `RequestsAreBounded`,
`EventsAreKnown`).  TLC evaluates them in the runs.

The theorems of `DaemonOneClientProofs` have hypotheses on the constants, which
the runs of the same properties satisfy; section 5 has what happens without
them.

- `OneClient`: the client's socket is the only one.  With two, none of the five
  holds: a `deactivate` nested into the other's `activate` clears the references
  that the `activate` then records a connection for.
- `SwitchesKeepServer`: the configurations of one client key are of one server.
  `DaemonIsLedger` does not need it: its `Revert` is the case it excludes.
- `ServerIsExcluded`: the client lists its server among the excluded addresses;
  otherwise `updatePeer` adds a route that has no reference.
- `Undisturbed`: these three, no loss of the gateway (`MaxDrops = 0`) and no
  crash of the service (`MaxCrashes = 0`), since both leave routes and counts
  that differ.  `MaxDeaths = 0` in `DaemonLeavesHostClean`: the process does not die
  by itself, since `deleteInterface` cleans up nothing after that.

Lists with prefix lengths are not excluded anywhere.

Only model-checked: liveness (`HandshakeIsReported`, `AttemptEnds`, `BusyEnds`),
which needs fairness and `ENABLED`.  Every safety property of a passing run has a
theorem.

## 5. Findings

Two runs refute what the repository says of itself; `PROJECT.json` quotes the
lines.

- `client_shown`: a disconnect handled while Connected waits for `flushDns`
  (`vpnConnection.cpp:130`) stores Disconnected and resets `m_vpnProtocol`; the
  outer call then stores and reports Connected (`:624`).  The client shows a
  connection that is gone until the user disconnects once more.
- `daemon_cidr`: `switchServer` gives back the old configuration's exclusions
  through `QHostAddress(i)` (`daemon.cpp:625`), which does not read `a.b.c.d/n`;
  the `Q_ASSERT` of `delExclusionRoute` (`:261`) is false, and in a release build
  the subnet keeps its reference and its route until the next deactivate.

### Other disagreements

Met while modelling; TLC found each as a counterexample to a stronger property
than the ones kept, and no run is kept for them.

Daemon:

- `deleteRoutePrefix` *inserts* any prefix but a default route
  (`wireguardutilslinux.cpp:373`), so that the routes of the previous
  configuration stay (against "Remove routing entries for the old peer.",
  `daemon.cpp:623`).
- After the tunnel process has died, `deleteInterface` returns before
  `disableKillSwitch` (`wireguardutilslinux.cpp:214`); a manual disconnect leaves
  the soft mode's rules (against `PageSettingsKillSwitch.qml:93`).
- A `deactivate` nested in an `activate` clears `m_excludedAddrSet`; when the
  `activate` then fails, its guard deletes prefixes that are gone
  (`daemon.cpp:261`, same assertion as above).
- An activation that fails after `addInterface` leaves firewall rules and
  process in place (`daemon.h:51-52`: "connected systems should rollback";
  nothing emits that signal there).
- A switch to the same server under a new key adds the new peer's exclusion and
  then deletes the old peer's, which is the same route
  (`wireguardutilslinux.cpp:290`, against the comment at `:269`).
- When the interface configuration fails, the next `activate` finds an
  interface and skips `applyFirewallRules`; the client hides this by
  deactivating before it reconnects.
- `checkHandshake` compares a reply from before a nested reconnect with the
  connection after it (`daemon.cpp:681-709`): the new connection is marked as
  connected by the old device's handshake.

Kill switch:

- The settings page disables the kill switch settings only while it shows the
  session as *connected* (`PageSettingsKillSwitch.qml:52`: "KillSwitch settings
  cannot be changed during an active connection"), and the refresh of a toggle is
  queued (`connectionController.cpp:102`): toggled while connecting, it removes
  the rules the session has just installed (`killswitch.cpp:85`), also after the
  session has come up.  `UpStaysClosed` excepts exactly these refreshes.
- DNS exceptions are accessible through the tunnel only; in the time a strict kill
  switch blocks without a session they are not (`PageSettingsKillSwitch.qml:124`).
- In strict mode an API request during a WireGuard session replaces the
  exemption of its server in `110.allowNets` (`killswitch.cpp:226`, against
  "To restore access, reconnect VPN", `PageSettingsKillSwitch.qml:97`).
- In strict mode a failed activation for only-these-sites leaves `100.blockAll`
  off (`PageSettingsKillSwitch.qml:93`).  `StrictBlocks` therefore exempts the
  states with `120.blockNets` on.

Client:

- A reactivation that fails leaves the client in Reconnecting, since the protocol
  is already Disconnected (`vpnConnection.cpp:621`, against
  `controllerimpl.h:38-40`).
- A disconnect handled while `reconnectToVpn` waits in `stop()` leaves a null
  pointer for its `start()` (`vpnConnection.cpp:576`); a disconnect handled in a
  slot of the controller destroys the object whose slot it is.
- When the first status reply takes longer than the two waits between the
  `stop()` of a disconnect and the one of the destructor, no `deactivate` is sent
  (`localsocketcontroller.cpp:270`), and an `activate` left in the closed socket
  brings a tunnel up behind a client that shows Disconnected.
- A connection attempt while the service is down writes `activate` to a socket
  that is not open (`wireGuardProtocol.cpp:76`); the retries connect, nothing
  repeats it, and the client stays in Connecting.  The run `client` therefore
  starts with a running service, and `AttemptEnds` excepts crashes.
- A disconnect during a reconnection stays in Disconnecting until the user asks
  again (`vpnConnection.cpp:595`, against `controllerimpl.h:43-44`).
- An `activate` left in a closed socket may be served after a newer socket's;
  its failure is reported to nobody.  The run `client` therefore assumes `InOrder`;
  the theorems about `VpnClient` do not.

TunnelCore session:

- A registration that times out and is served after a confirmed sign-out takes a
  device slot that nothing frees (`tunnelCoreController.cpp:710`, against
  `docs/tunnelcore-client-api.md:43`); `SlotReleased` exempts overlapping
  requests.
- Routing rules are stored before it is known whether they can be applied
  (`:1136`); a cached set that cannot be applied makes every later refresh fail
  before it asks the server (`:1121`).
- A sign-out that overlaps a download and fails clears `m_busy`; a second
  selection may then overtake the download, which is imported under the other
  profile key.
- `applyRouting` skips rules that it remembers as applied (`:1018`), also when the
  user has edited the settings since (`PageSettingsSplitTunneling.qml:382`): a
  refresh does not bring the region's rules back.
- A region is saved before its rules are read (`:1257-1285`): when that fails, the
  choice stays with the rules of the region before.
- A server without the list of regions clears the chosen region in memory only; a
  restart brings it back.  A server without default rules leaves the previous
  region's rules in force.

Android (each is a history with `crossed`, see section 2):

- Two starts that overlap, as after the next item, overwrite `tunFd` and
  `tunnelHandle` (`Wireguard.kt:199`, `:202`): the first descriptor and its backend
  stay open until the process ends.
- A connection job sets `disconnectionJob` to null after its join
  (`AmneziaVpnService.kt:523-524`), also when `disconnect` has stored a new job
  meanwhile: `onDestroy` then neither disconnects nor joins, and the tunnel
  outlives the service.
- A connection requested during DISCONNECTING: stopVpn's DISCONNECTED overwrites
  CONNECTING, the tunnel comes up under DISCONNECTED, and `onDestroy` skips it.
- A status job that ends sets `statusJob` to null (`Wireguard.kt:241`), also when
  a newer one is stored: the newer one is not cancelled, and a stopped backend,
  which has no configuration to report (-2), counts as connected.
- A network change before the configuration is kept makes `reconnectVpn` throw:
  the service says DISCONNECTED with the tunnel up.
- A connection requested during RECONNECTING finds the tunnel up and cancels the
  scope of its status job: the service stays in CONNECTING; if it fails, it says
  DISCONNECTED with the tunnel up.
- The 5 s after `stopSelf` are not called off by a later connection: the process
  is killed with the tunnel up.

## 6. Not modelled

- The OpenVPN and Xray protocol objects beyond their kill switch calls; the
  router and process handling of the IPC server.
- Multihop, excluded applications (cgroups), the netlink and UAPI encodings,
  iptables command lines, D-Bus: success or failure only.
- In `deactivate`, a nested command may clear `m_connections` under the
  iterator of the suspended one.  The model continues with the configuration
  the suspended call had; other outcomes of the invalid iterator are not
  enumerated.
- Of the TunnelCore session: subscription notices and purchases, error texts, the
  validation of JSON.  Of Android: notifications, statistics, the activity, the
  other protocols (they share the service's jobs).
- Of the client: site routes and their name lookups (`vpnConnection.cpp:208-297`),
  and the event loops other IPC calls spin; of the settings page only what
  touches the kill switch.
- Windows, macOS and iOS backends, other UI, updates, server management: no
  concurrency of their own, or the same interfaces as the modelled Linux ones.

## 7. Plan

1. Done: `Daemon`, `KillSwitch`, `VpnClient`, `TunnelCore`, `AndroidService`;
   `ExclusionLedger` and the refinement; the theorems of section 4 (every safety
   property of a passing run).
2. The client with a daemon in detail: `VpnClient` composed with `Daemon` instead
   of its messages.
3. OpenVPN and Xray: management interface, process exit, retries, composed with
   `KillSwitch` through the calls it already has.
4. Gateway fail-over; repositories (default server index under removal).
