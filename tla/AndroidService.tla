--------------------------- MODULE AndroidService ---------------------------
(***************************************************************************)
(* AmneziaVpnService, the VPN service of the Android client, with the      *)
(* WireGuard protocol object it drives.                                    *)
(*                                                                         *)
(* Requests, the collector of protocolState and the life cycle of the      *)
(* service run on the main thread, one handler at a time.  The jobs they   *)
(* launch (connect, reconnect, disconnect) and the status job that waits   *)
(* for a handshake run on threads of their own; they meet in the fields    *)
(* connectionJob and disconnectionJob, in protocolState, and in the        *)
(* protocol object.  Cancelling a job takes effect only where it suspends. *)
(***************************************************************************)
EXTENDS Integers, Sequences

CONSTANTS
  MaxRequests, \* bound: connection and disconnection jobs requested of a process
  Events       \* what the surroundings of an instance do

ASSUME RequestsAreBounded == MaxRequests \in Nat
ASSUME EventsAreKnown == Events \subseteq {"network", "unbind", "fail"}

VARIABLES
  state,     \* protocolState.value
  shown,     \* the value the collector passed to the clients last
  reacting,  \* the collector is suspended in VpnStateStore.store
  listener,  \* the network listener is bound
  bound,     \* isServiceBound
  service,   \* "running", "stopping" (stopSelf), "destroying" (onDestroy), "gone"
  joining,   \* the job onDestroy waits for
  jobs, connectionJob, disconnectionJob,
  crossed,   \* history: a job or a request that was not over has been overwritten
             \* since the service was last at rest
  handle,    \* a WireGuard backend runs (tunnelHandle # -1)
  tun,       \* tunFd # null
  lost,      \* history: a backend or an interface in use has been overwritten
  config,    \* the protocol object knows a configuration (for reconnectVpn)
  statusJobs, statusJob

main  == <<shown, reacting, listener, bound, service, joining>>
refs  == <<connectionJob, disconnectionJob>>
jobVars == <<jobs, refs, crossed>>
wg    == <<handle, tun, lost, config>>
status == <<statusJobs, statusJob>>
vars  == <<state, main, jobVars, wg, status>>

States == {"UNKNOWN", "CONNECTING", "CONNECTED", "DISCONNECTED", "DISCONNECTING",
           "RECONNECTING"}
JobIds == 1 .. MaxRequests + 1  \* onDestroy may launch one more
StatusIds == 1 .. MaxRequests
NoJob == 0

\* A job that is over.
Done == [kind |-> "none", at |-> "done", waits |-> NoJob, cancelled |-> FALSE]
Over == [at |-> "done", seen |-> "DISCONNECTED", cancelled |-> FALSE]

Job == [kind: {"none", "connect", "reconnect", "disconnect"},
        at: {"launched", "join", "init", "on", "config", "stop", "tell", "wait", "done"},
        waits: Nat, cancelled: BOOLEAN]

Status == [at: {"poll", "query", "write", "clear", "done"},
           seen: {"CONNECTED", "DISCONNECTED"}, cancelled: BOOLEAN]

Init ==
  /\ state = "UNKNOWN"
  /\ shown = "UNKNOWN" /\ reacting = FALSE /\ listener = FALSE
  /\ bound \in BOOLEAN /\ service = "running" /\ joining = NoJob
  /\ jobs = <<>> /\ connectionJob = NoJob /\ disconnectionJob = NoJob
  /\ crossed = FALSE
  /\ handle = FALSE /\ tun = FALSE /\ lost = FALSE /\ config = FALSE
  /\ statusJobs = <<>> /\ statusJob = NoJob

-----------------------------------------------------------------------------
(* Jobs.                                                                   *)

\* protocolState.value = s
Set(s) == state' = s

IsOver(j) == j # NoJob => jobs[j] = Done

\* The field that held job j is overwritten.
Forget(j) == crossed' = (crossed \/ ~IsOver(j))

\* No job is under way.
Quiet == \A j \in DOMAIN jobs : jobs[j] = Done

\* Nor any status job, and the state says whether a backend runs.
AtRest ==
  /\ Quiet /\ \A s \in DOMAIN statusJobs : statusJobs[s] = Over
  /\ ~lost
  /\ IF handle THEN state = "CONNECTED" /\ config ELSE state \in {"UNKNOWN", "DISCONNECTED"}

\* A new request: what crossed before the service came to rest is forgotten.
Request(crosses) == crossed' = ((crossed /\ ~AtRest) \/ crosses)

\* connectionScope.launch: the job is number Launched.
Launch(kind) ==
  jobs' = Append(jobs, [kind |-> kind, at |-> "launched", waits |-> NoJob, cancelled |-> FALSE])

Launched == Len(jobs) + 1

\* Job.cancel; a job that has not begun to run never will.
Cancelled(js, j) ==
  IF j = NoJob \/ js[j] = Done THEN js
  ELSE IF js[j].at = "launched" THEN [js EXCEPT ![j] = Done]
  ELSE [js EXCEPT ![j] = [@ EXCEPT !.cancelled = TRUE]]

At(j, kinds, at) == j \in DOMAIN jobs /\ jobs[j].kind \in kinds /\ jobs[j].at = at

\* Job j goes on at the given place, or ends.
Goto(j, at) ==
  jobs' = [jobs EXCEPT ![j] = IF at = "done" THEN Done
                              ELSE [@ EXCEPT !.at = at, !.waits = NoJob]]

\* connectionExceptionHandler, for an exception in job j.
Throw(j) ==
  /\ Set("DISCONNECTED")
  /\ jobs' = [Cancelled(Cancelled(jobs, connectionJob), disconnectionJob) EXCEPT ![j] = Done]
  /\ connectionJob' = NoJob /\ disconnectionJob' = NoJob /\ UNCHANGED crossed

\* statusJob?.cancel(), as far as the job still polls.
WithStatusCancelled(S) ==
  [s \in DOMAIN statusJobs |-> IF s \in S /\ statusJobs[s] # Over
                       THEN [statusJobs[s] EXCEPT !.cancelled = TRUE] ELSE statusJobs[s]]

\* Mutant: the status job goes on polling.
TurnOff_KeepsPolling == handle' = FALSE /\ statusJob' = NoJob /\ UNCHANGED statusJobs

\* turnOffBackend: the handle is forgotten before the backend is stopped.
TurnOff ==
  /\ handle' = FALSE
  /\ statusJobs' = WithStatusCancelled({statusJob}) /\ statusJob' = NoJob

\* launchStatusJob.
LaunchStatus ==
  /\ statusJobs' = Append(statusJobs, [at |-> "poll", seen |-> "DISCONNECTED",
                                      cancelled |-> FALSE])
  /\ statusJob' = Len(statusJobs) + 1

\* stopService: the process is killed unless onDestroy comes within 5 s.
StopService == service' = IF service = "running" THEN "stopping" ELSE service

-----------------------------------------------------------------------------
(* The main thread.                                                        *)

MainIsFree == service \in {"running", "stopping"}

MayRequest == MainIsFree /\ Len(jobs) < MaxRequests

\* connect and connectToVpn, for a client, the tile, or an always-on start.
Connect ==
  /\ MayRequest
  /\ state \notin {"CONNECTED", "CONNECTING"}
  /\ \/ /\ Set("CONNECTING")
        /\ Launch("connect") /\ connectionJob' = Launched
     \/ \* no valid configuration, or no permission yet
        /\ "fail" \in Events
        /\ Set("DISCONNECTED")
        /\ UNCHANGED <<jobs, connectionJob>>
  /\ Request(~IsOver(connectionJob) \/ state = "RECONNECTING")
  /\ UNCHANGED <<main, disconnectionJob, wg, status>>

CanDisconnect == state \notin {"UNKNOWN", "DISCONNECTED", "DISCONNECTING"}

\* disconnect, of a client, of the notification, or of onRevoke.
Disconnect ==
  /\ MayRequest /\ CanDisconnect
  /\ Set("DISCONNECTING")
  /\ Launch("disconnect") /\ disconnectionJob' = Launched /\ Request(~IsOver(disconnectionJob))
  /\ UNCHANGED <<main, connectionJob, wg, status>>

\* NetworkState calls reconnect when another network has been validated.
Reconnect ==
  /\ MayRequest /\ "network" \in Events /\ listener
  /\ state = "CONNECTED"
  /\ Set("RECONNECTING")
  /\ Launch("reconnect") /\ connectionJob' = Launched /\ Request(~IsOver(connectionJob))
  /\ UNCHANGED <<main, disconnectionJob, wg, status>>

\* The collector takes the newest value, tells the clients, and suspends while
\* the value is stored.
Collect ==
  /\ MainIsFree /\ ~reacting /\ shown # state
  /\ shown' = state /\ reacting' = TRUE
  /\ UNCHANGED <<state, listener, bound, service, joining, jobVars, wg, status>>

\* The rest of the collector, for the value it took.
React ==
  /\ MainIsFree /\ reacting
  /\ reacting' = FALSE
  /\ listener' = CASE shown = "CONNECTED" -> TRUE
                   [] shown \in {"DISCONNECTED", "DISCONNECTING"} -> FALSE
                   [] OTHER -> listener
  /\ IF shown = "DISCONNECTED" /\ ~bound THEN StopService ELSE UNCHANGED service
  /\ UNCHANGED <<state, shown, bound, joining, jobVars, wg, status>>

\* onBind, onRebind; the last client leaves (onUnbind).
Bind ==
  /\ MainIsFree /\ "unbind" \in Events /\ ~bound
  /\ bound' = TRUE
  /\ UNCHANGED <<state, shown, reacting, listener, service, joining, jobVars, wg, status>>

Unbind ==
  /\ MainIsFree /\ "unbind" \in Events /\ bound
  /\ bound' = FALSE
  /\ IF state \in {"UNKNOWN", "DISCONNECTED"} THEN StopService ELSE UNCHANGED service
  /\ UNCHANGED <<state, shown, reacting, listener, joining, jobVars, wg, status>>

\* Mutant: onDestroy does not wait for the disconnection.
Destroy_NoJoin ==
  /\ service = "stopping"
  /\ service' = "destroying"
  /\ IF CanDisconnect
     THEN /\ Set("DISCONNECTING")
          /\ Launch("disconnect") /\ disconnectionJob' = Launched
          /\ Request(~IsOver(disconnectionJob))
     ELSE UNCHANGED <<state, jobs, disconnectionJob>> /\ Request(FALSE)
  /\ UNCHANGED <<shown, reacting, listener, bound, joining, connectionJob, wg, status>>

\* onDestroy disconnects and blocks the main thread until that job is over.
Destroy ==
  /\ service = "stopping"
  /\ service' = "destroying"
  /\ IF CanDisconnect
     THEN /\ Set("DISCONNECTING")
          /\ Launch("disconnect") /\ disconnectionJob' = Launched /\ joining' = Launched
          /\ Request(~IsOver(disconnectionJob))
     ELSE /\ joining' = disconnectionJob /\ Request(FALSE)
          /\ UNCHANGED <<state, jobs, disconnectionJob>>
  /\ UNCHANGED <<shown, reacting, listener, bound, connectionJob, wg, status>>

\* connectionScope.cancel and mainScope.cancel.
Destroyed ==
  /\ service = "destroying" /\ IsOver(joining)
  /\ service' = "gone" /\ joining' = NoJob
  /\ jobs' = [j \in DOMAIN jobs |-> Cancelled(jobs, j)[j]]
  /\ UNCHANGED <<state, shown, reacting, listener, bound, refs, crossed,
                 wg, status>>

\* The 5 s of stopService have passed before onDestroy: the process is killed,
\* and the next instance begins with nothing.
Kill ==
  /\ service = "stopping"
  /\ state' = "UNKNOWN"
  /\ shown' = "UNKNOWN" /\ reacting' = FALSE /\ listener' = FALSE
  /\ bound' \in BOOLEAN /\ service' = "running" /\ joining' = NoJob
  /\ jobs' = <<>> /\ connectionJob' = NoJob /\ disconnectionJob' = NoJob /\ crossed' = FALSE
  /\ handle' = FALSE /\ tun' = FALSE /\ lost' = FALSE /\ config' = FALSE
  /\ statusJobs' = <<>> /\ statusJob' = NoJob

-----------------------------------------------------------------------------
(* The jobs that connect.                                                  *)

\* A connect job first waits for the disconnection job there is now.
ConnectBegins(j) ==
  /\ At(j, {"connect"}, "launched")
  /\ jobs' = [jobs EXCEPT ![j] = [@ EXCEPT !.at = "join", !.waits = disconnectionJob]]
  /\ UNCHANGED <<state, main, refs, crossed, wg, status>>

\* join returns, or throws in a cancelled job; joining null is no suspension.
ConnectJoined(j) ==
  /\ At(j, {"connect"}, "join")
  /\ \/ /\ jobs[j].cancelled /\ jobs[j].waits # NoJob
        /\ Goto(j, "done")
        /\ UNCHANGED <<disconnectionJob, crossed>>
     \/ /\ ~jobs[j].cancelled \/ jobs[j].waits = NoJob
        /\ IsOver(jobs[j].waits)
        /\ Goto(j, "init")
        /\ disconnectionJob' = NoJob /\ Forget(disconnectionJob)
  /\ UNCHANGED <<state, main, connectionJob, wg, status>>

\* tunFd = establishedTunFd: a descriptor that is still open is never closed.
Establish == tun' = TRUE /\ lost' = (lost \/ tun)

\* initialize, with a new scope for status jobs; then startVpn: a tunnel that is
\* up is left alone, else the interface is established.
Initialize(j) ==
  /\ At(j, {"connect"}, "init")
  /\ statusJobs' = WithStatusCancelled(DOMAIN statusJobs)
  /\ \/ /\ handle
        /\ Goto(j, "config")
        /\ UNCHANGED <<state, refs, crossed, tun, lost>>
     \/ /\ ~handle
        /\ Goto(j, "on") /\ Establish
        /\ UNCHANGED <<state, refs, crossed>>
     \/ \* parseConfig or establish throws
        /\ "fail" \in Events
        /\ Throw(j)
        /\ UNCHANGED <<tun, lost>>
  /\ UNCHANGED <<main, handle, config, statusJob>>

\* reconnectVpn: the backend is stopped and the interface kept, or, without a
\* backend, a new interface is established.
ReconnectBegins(j) ==
  /\ At(j, {"reconnect"}, "launched")
  /\ \/ /\ config /\ handle
        /\ TurnOff
        /\ Goto(j, "on")
        /\ UNCHANGED <<state, refs, crossed, tun, lost, config>>
     \/ /\ config /\ ~handle
        /\ Goto(j, "on") /\ Establish
        /\ UNCHANGED <<state, refs, crossed, handle, config, status>>
     \/ /\ ~config \/ (~handle /\ "fail" \in Events)
        /\ Throw(j)
        /\ UNCHANGED <<wg, status>>
  /\ UNCHANGED main

\* Mutant: a socket that cannot be protected leaves the tunnel up.
TurnOn_LeavesTunnel(j) ==
  /\ At(j, {"connect", "reconnect"}, "on")
  /\ \/ /\ handle' = TRUE
        /\ LaunchStatus
        /\ Goto(j, IF jobs[j].kind = "connect" THEN "config" ELSE "done")
        /\ UNCHANGED <<state, refs, crossed, tun>>
     \/ /\ "fail" \in Events
        /\ handle' = TRUE /\ UNCHANGED <<tun, status>>
        /\ Throw(j)
  /\ lost' = (lost \/ handle)
  /\ UNCHANGED <<main, config>>

\* Mutant: a backend that cannot be started leaves the interface open.
TurnOn_LeavesInterface(j) ==
  /\ At(j, {"connect", "reconnect"}, "on")
  /\ \/ /\ handle' = TRUE
        /\ LaunchStatus
        /\ Goto(j, IF jobs[j].kind = "connect" THEN "config" ELSE "done")
        /\ UNCHANGED <<state, refs, crossed, tun>>
     \/ /\ "fail" \in Events
        /\ TurnOff /\ UNCHANGED tun
        /\ Throw(j)
  /\ lost' = (lost \/ handle)
  /\ UNCHANGED <<main, config>>

\* turnOnBackend, protect, launchStatusJob.  A handle that another start has set
\* meanwhile is overwritten, and its backend never stopped.
TurnOn(j) ==
  /\ At(j, {"connect", "reconnect"}, "on")
  /\ \/ /\ handle' = TRUE
        /\ LaunchStatus
        /\ Goto(j, IF jobs[j].kind = "connect" THEN "config" ELSE "done")
        /\ UNCHANGED <<state, refs, crossed, tun>>
     \/ /\ "fail" \in Events
        /\ TurnOff /\ tun' = FALSE
        /\ Throw(j)
  /\ lost' = (lost \/ handle)
  /\ UNCHANGED <<main, config>>

\* startVpn returns: the configuration is kept for reconnectVpn.
ConfigKept(j) ==
  /\ At(j, {"connect"}, "config")
  /\ config' = TRUE
  /\ Goto(j, "done")
  /\ UNCHANGED <<state, main, refs, crossed, handle, tun, lost, status>>

-----------------------------------------------------------------------------
(* The job that disconnects.                                               *)

\* Mutant: the connection job is joined without being cancelled.
DisconnectBegins_JoinOnly(j) ==
  /\ At(j, {"disconnect"}, "launched")
  /\ jobs' = [jobs EXCEPT ![j] = [@ EXCEPT !.at = "join", !.waits = connectionJob]]
  /\ UNCHANGED <<state, main, refs, crossed, wg, status>>

\* connectionJob?.cancelAndJoin(), for the job there is now.
DisconnectBegins(j) ==
  /\ At(j, {"disconnect"}, "launched")
  /\ jobs' = [Cancelled(jobs, connectionJob) EXCEPT
                ![j] = [@ EXCEPT !.at = "join", !.waits = connectionJob]]
  /\ UNCHANGED <<state, main, refs, crossed, wg, status>>

DisconnectJoined(j) ==
  /\ At(j, {"disconnect"}, "join")
  /\ \/ /\ jobs[j].cancelled /\ jobs[j].waits # NoJob
        /\ Goto(j, "done")
        /\ UNCHANGED <<connectionJob, crossed>>
     \/ /\ ~jobs[j].cancelled \/ jobs[j].waits = NoJob
        /\ IsOver(jobs[j].waits)
        /\ Goto(j, "stop")
        /\ connectionJob' = NoJob /\ Forget(connectionJob)
  /\ UNCHANGED <<state, main, disconnectionJob, wg, status>>

\* stopVpn: without a tunnel nothing happens, and no state is reported.
StopVpn(j) ==
  /\ At(j, {"disconnect"}, "stop")
  /\ IF handle
     THEN TurnOff /\ tun' = FALSE /\ Goto(j, "tell")
     ELSE Goto(j, "wait") /\ UNCHANGED <<handle, tun, status>>
  /\ UNCHANGED <<state, main, refs, crossed, lost, config>>

StopTold(j) ==
  /\ At(j, {"disconnect"}, "tell")
  /\ Set("DISCONNECTED")
  /\ Goto(j, "wait")
  /\ crossed' = (crossed \/ state # "DISCONNECTING")
  /\ UNCHANGED <<main, refs, wg, status>>

\* Mutant: the timeout is only logged.
DisconnectDone_LogsOnly(j) ==
  /\ At(j, {"disconnect"}, "wait")
  /\ Goto(j, "done")
  /\ UNCHANGED <<state, main, refs, crossed, wg, status>>

\* The job waits until it sees DISCONNECTED; after 5 s it stops the service.
DisconnectDone(j) ==
  /\ At(j, {"disconnect"}, "wait")
  /\ Goto(j, "done")
  /\ IF jobs[j].cancelled \/ state = "DISCONNECTED" THEN UNCHANGED service ELSE StopService
  /\ UNCHANGED <<state, shown, reacting, listener, bound, joining, refs, crossed, wg, status>>

-----------------------------------------------------------------------------
(* The status job and the network.                                         *)

StatusAt(s, at) == s \in DOMAIN statusJobs /\ statusJobs[s].at = at

\* A cancelled job ends at its delay, unless it is past it already.
StatusStops(s) ==
  /\ StatusAt(s, "poll") /\ statusJobs[s].cancelled
  /\ statusJobs' = [statusJobs EXCEPT ![s] = Over]
  /\ UNCHANGED <<state, main, jobVars, wg, statusJob>>

\* Mutant: without a tunnel the state is not known.
StatusPolls_Unknown(s) ==
  /\ StatusAt(s, "poll")
  /\ statusJobs' = [statusJobs EXCEPT ![s] =
       IF handle THEN [@ EXCEPT !.at = "query"]
       ELSE [@ EXCEPT !.at = "write", !.seen = "UNKNOWN"]]
  /\ UNCHANGED <<state, main, jobVars, wg, statusJob>>

\* getLastHandshake looks at the handle, then asks the backend.
StatusPolls(s) ==
  /\ StatusAt(s, "poll")
  /\ statusJobs' = [statusJobs EXCEPT ![s] =
       IF handle THEN [@ EXCEPT !.at = "query"]
       ELSE [@ EXCEPT !.at = "write", !.seen = "DISCONNECTED"]]
  /\ UNCHANGED <<state, main, jobVars, wg, statusJob>>

\* The backend has completed a handshake (external), or has not.  A backend that
\* is gone has no configuration to report, which counts as connected.
StatusQueries(s) ==
  /\ StatusAt(s, "query")
  /\ \/ statusJobs' = [statusJobs EXCEPT ![s] = [@ EXCEPT !.at = "write", !.seen = "CONNECTED"]]
     \/ handle /\ statusJobs' = [statusJobs EXCEPT ![s] = [@ EXCEPT !.at = "poll"]]
  /\ UNCHANGED <<state, main, jobVars, wg, statusJob>>

StatusWrites(s) ==
  /\ StatusAt(s, "write")
  /\ statusJobs' = [statusJobs EXCEPT ![s] = [@ EXCEPT !.at = "clear"]]
  /\ Set(statusJobs[s].seen)
  /\ crossed' = (crossed \/ statusJobs[s].cancelled)
  /\ UNCHANGED <<main, jobs, refs, wg, statusJob>>

StatusEnds(s) ==
  /\ StatusAt(s, "clear")
  /\ statusJobs' = [statusJobs EXCEPT ![s] = Over]
  /\ statusJob' = NoJob
  /\ crossed' = (crossed \/ (statusJob \notin {s, NoJob} /\ statusJobs[statusJob] # Over))
  /\ UNCHANGED <<state, main, jobs, refs, wg>>

-----------------------------------------------------------------------------
Requests == Connect \/ Disconnect \/ Reconnect \/ Bind \/ Unbind

JobStep(j) ==
  \/ ConnectBegins(j) \/ ConnectJoined(j) \/ Initialize(j) \/ TurnOn(j) \/ ConfigKept(j)
  \/ ReconnectBegins(j)
  \/ DisconnectBegins(j) \/ DisconnectJoined(j) \/ StopVpn(j) \/ StopTold(j)
  \/ DisconnectDone(j)

StatusStep(s) == StatusStops(s) \/ StatusPolls(s) \/ StatusQueries(s) \/ StatusWrites(s) \/ StatusEnds(s)

MainStep == Collect \/ React \/ Destroy \/ Destroyed

Next ==
  \/ Requests \/ MainStep \/ Kill
  \/ \E j \in JobIds : JobStep(j)
  \/ \E s \in StatusIds : StatusStep(s)

Spec == Init /\ [][Next]_vars

-----------------------------------------------------------------------------
(* Properties.                                                             *)

\* Every variable has its type; a field names a job that was launched, and a
\* status job reports CONNECTED or DISCONNECTED.
TypeOK ==
  /\ state \in States /\ crossed \in BOOLEAN
  /\ shown \in States /\ reacting \in BOOLEAN /\ listener \in BOOLEAN /\ bound \in BOOLEAN
  /\ service \in {"running", "stopping", "destroying", "gone"}
  /\ jobs \in Seq(Job)
  /\ {joining, connectionJob, disconnectionJob} \subseteq 0 .. Len(jobs)
  /\ handle \in BOOLEAN /\ tun \in BOOLEAN /\ lost \in BOOLEAN /\ config \in BOOLEAN
  /\ statusJobs \in Seq(Status) /\ statusJob \in 0 .. Len(statusJobs)

\* onDestroy leaves no tunnel behind: the protocol object outlives the service,
\* and the next instance would find a tunnel it did not start.  Whatever job the
\* service was destroyed in, once the jobs have ended the backend is stopped and
\* the interface closed, unless requests crossed.
NoTunnelLeft == service = "gone" /\ Quiet /\ ~crossed => ~handle /\ ~tun

\* The service says CONNECTED only while a backend runs: a status job that asks
\* a backend being stopped for its handshake is cancelled with it
\* (launchStatusJob, turnOffBackend), unless it was past its delay.
ConnectedIsReal == Quiet /\ state = "CONNECTED" /\ ~crossed => handle

\* The service says DISCONNECTED only when the backend is stopped, whether
\* stopVpn said so, a failed request, or the exception handler for a failure in
\* the middle of starting.  It may not be true from the moment requests cross
\* until the service has come to rest: a connect request that fails while the
\* service is RECONNECTING, or one that stopVpn's report overtakes.
DisconnectedIsDown == Quiet /\ state = "DISCONNECTED" /\ ~crossed => ~handle

\* The TUN interface is never left open without a backend behind it: every path
\* out of start, stopVpn and a failed reuse of the interface closes it.  And no
\* start overwrites a descriptor or a backend of another one that is in use
\* (start: tunFd, tunnelHandle), unless requests crossed.
NoLeak == (tun => handle \/ ~Quiet) /\ (lost => crossed)

\* No disconnection is left hanging: when the jobs have ended and the state is
\* still DISCONNECTING (there was no tunnel, so stopVpn reported nothing), the
\* timeout of the disconnection job has stopped the service.
DisconnectionIsSettled == Quiet /\ state = "DISCONNECTING" => service # "running"

\* Job j waits for another one, and cancellation will not wake it up.
Blocked(j) == jobs[j].at = "join" /\ ~jobs[j].cancelled /\ ~IsOver(jobs[j].waits)

\* No jobs wait for each other for ever: a connection job joins the disconnection
\* job there is when it begins, and that one cancels and joins the connection
\* job there is then.  onDestroy blocks the main thread on such a job.
NoCircularWait ==
  \A S \in (SUBSET DOMAIN jobs) \ {{}} : \E j \in S : ~(Blocked(j) /\ jobs[j].waits \in S)
=============================================================================
