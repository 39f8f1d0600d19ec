------------------------ MODULE AndroidCrossingProofs ------------------------
(***************************************************************************)
(* For any number of requests that do not cross: what the service says of  *)
(* the tunnel is true, onDestroy leaves no tunnel behind, and no interface *)
(* or backend is lost.  A service that comes to rest is as good as new.    *)
(*                                                                         *)
(* While no request has overwritten one that was not over, at most one     *)
(* connection job and one disconnection job are under way, and whatever    *)
(* ends the session has a disconnection job that will see the backend      *)
(* stopped.                                                                *)
(***************************************************************************)
EXTENDS AndroidServiceProofs

\* A job that connects; one that disconnects and will not be woken up; one that
\* will still stop the backend; one that will see the end of job c.
Conn(a) == a.kind \in {"connect", "reconnect"}
Quits(a) == a.kind = "disconnect" /\ a.cancelled = FALSE
Stops(a) == Quits(a) /\ a.at \in {"launched", "join", "stop"}
Outlives(a, c) == Quits(a) /\ (a.at = "launched" \/ (a.at = "join" /\ a.waits = c))

AptPlace(a) ==
  /\ a.at \in {"init", "config"} => a.kind = "connect"
  /\ a.at = "on" => Conn(a)
  /\ a.at = "launched" => a.cancelled = FALSE

\* A place of a job tells its kind, and a job that is cancelled has begun.
PlacesAreApt == \A k \in 1 .. Len(jobs) : AptPlace(jobs[k])

\* The fields name every job that is under way, and onDestroy waits for the one
\* that disconnects.
FieldsNameJobs ==
  \A k \in 1 .. Len(jobs) :
    /\ Conn(jobs[k]) => k = connectionJob
    /\ Quits(jobs[k]) => k = disconnectionJob
    /\ Quits(jobs[k]) /\ service = "destroying" => k = joining

Stopper == \E d \in 1 .. Len(jobs) : Stops(jobs[d])

Closing ==
  state \in {"UNKNOWN", "DISCONNECTED", "DISCONNECTING"} \/ service \in {"destroying", "gone"}

\* While the session is ending or over, a backend that runs will be stopped, and
\* a connection job will be waited for before that.
ClosingIsServed ==
  Closing => /\ handle => Stopper
             /\ \A c \in 1 .. Len(jobs) : Conn(jobs[c]) =>
                  \E d \in 1 .. Len(jobs) : Outlives(jobs[d], c)

\* A destroyed service has no backend, and no job but cancelled disconnections.
GoneIsOver ==
  service = "gone" =>
    /\ ~handle
    /\ \A k \in 1 .. Len(jobs) : ~Conn(jobs[k]) /\ ~Quits(jobs[k])

\* A connection starts when no backend runs, or one that will be stopped first.
StartsFromDown ==
  \A k \in 1 .. Len(jobs) :
    /\ jobs[k].kind = "connect" /\ jobs[k].at \in {"launched", "join"} /\ handle => Stopper
    /\ jobs[k].at \in {"init", "on"} => ~handle

\* reconnectVpn finds the configuration of the backend that runs.
ConfigIsKnown ==
  /\ handle /\ (\A k \in 1 .. Len(jobs) : jobs[k].at # "config") => config
  /\ \A k \in 1 .. Len(jobs) : jobs[k].kind = "reconnect" /\ jobs[k].at = "on" => config

\* Only the status job of the running backend is not cancelled, and it does not
\* see DISCONNECTED.
StatusIsServed ==
  \A s \in 1 .. Len(statusJobs) :
    /\ statusJobs[s] # Over /\ statusJobs[s].cancelled = FALSE => s = statusJob /\ handle
    /\ statusJobs[s].at = "write" /\ statusJobs[s].seen = "DISCONNECTED"
         => statusJobs[s].cancelled = TRUE

\* CONNECTED means a backend, or a job about to start one or to say that it is
\* stopped.
ConnectedIsServed ==
  state = "CONNECTED" => handle \/ \E k \in 1 .. Len(jobs) : jobs[k].at \in {"on", "tell"}

Tame ==
  /\ FieldsNameJobs /\ ClosingIsServed /\ GoneIsOver /\ StartsFromDown
  /\ ConfigIsKnown /\ StatusIsServed /\ ConnectedIsServed

\* The inductive invariant.
CrossInv == Inv /\ PlacesAreApt /\ (crossed = FALSE => Tame)

-----------------------------------------------------------------------------
(* What a step does to the jobs and the status jobs, field by field.       *)

\* Cancelling ends a job that has not begun and marks one that has.
LEMMA CancelledJobIs ==
  ASSUME NEW a \in Job
  PROVE  /\ ~Quits(CancelledJob(a))
         /\ Conn(CancelledJob(a)) => Conn(a)
         /\ a.at \notin {"launched", "done"} =>
              /\ CancelledJob(a).at = a.at /\ CancelledJob(a).kind = a.kind
              /\ CancelledJob(a).waits = a.waits
         /\ CancelledJob(a).at \in {a.at, "done"}
         /\ CancelledJob(a).kind \in {a.kind, "none"}
         /\ CancelledJob(a).at = "done" \/ CancelledJob(a).kind = a.kind
         /\ AptPlace(a) => AptPlace(CancelledJob(a))
  BY DEF CancelledJob, Job, Done, NoJob, Quits, Conn, AptPlace

\* A job that is over connects nothing and disconnects nothing.
LEMMA DoneIsIdle == ~Conn(Done) /\ ~Quits(Done) /\ AptPlace(Done) /\ Done.at = "done"
  BY DEF Done, Conn, Quits, AptPlace

\* The types, as the steps below use them.
LEMMA CrossTyped ==
  ASSUME Inv
  PROVE  /\ Len(jobs) \in Nat /\ \A k \in 1 .. Len(jobs) : jobs[k] \in Job
         /\ connectionJob \in 0 .. Len(jobs) /\ disconnectionJob \in 0 .. Len(jobs)
         /\ joining \in 0 .. Len(jobs)
         /\ handle \in BOOLEAN /\ config \in BOOLEAN /\ crossed \in BOOLEAN
         /\ Len(statusJobs) \in Nat /\ \A s \in 1 .. Len(statusJobs) : statusJobs[s] \in Status
         /\ statusJob \in 0 .. Len(statusJobs)
  <1>1. TypeOK BY DEF Inv
  <1>2. jobs \in Seq(Job) /\ statusJobs \in Seq(Status) BY <1>1 DEF TypeOK
  <1>3. \A k \in 1 .. Len(jobs) : jobs[k] \in Job BY <1>2, ElementOfSeq
  <1>4. \A s \in 1 .. Len(statusJobs) : statusJobs[s] \in Status BY <1>2, ElementOfSeq
  <1> QED BY <1>1, <1>3, <1>4 DEF TypeOK

\* A job goes on or ends, and the others stay as they are.
LEMMA GotoIs ==
  ASSUME Inv, NEW j \in 1 .. Len(jobs), NEW at \in Places, Goto(j, at)
  PROVE  /\ Len(jobs') = Len(jobs)
         /\ \A k \in 1 .. Len(jobs) : k # j => jobs'[k] = jobs[k]
         /\ at = "done" => jobs'[j] = Done
         /\ at # "done" => /\ jobs'[j].kind = jobs[j].kind /\ jobs'[j].at = at
                           /\ jobs'[j].cancelled = jobs[j].cancelled
  <1>1. TypeOK /\ jobs[j] \in Job /\ j \in DOMAIN jobs
    <2>1. TypeOK /\ jobs \in Seq(Job) BY DEF Inv, TypeOK
    <2> QED BY <2>1, CrossTyped
  <1>2. Moves(j, MovedJob(jobs[j], at)) /\ \A k \in 1 .. Len(jobs) \ {j} : jobs'[k] = jobs[k]
    BY <1>1, GotoMoves
  <1>3. jobs'[j] = MovedJob(jobs[j], at) /\ Len(jobs') = Len(jobs) BY <1>2 DEF Moves
  <1>4. /\ at = "done" => MovedJob(jobs[j], at) = Done
        /\ at # "done" => /\ MovedJob(jobs[j], at).kind = jobs[j].kind
                          /\ MovedJob(jobs[j], at).at = at
                          /\ MovedJob(jobs[j], at).cancelled = jobs[j].cancelled
    BY <1>1 DEF MovedJob, Job
  <1> QED BY <1>2, <1>3, <1>4

\* A job that begins to wait.
LEMMA BeginsIs ==
  ASSUME Inv, NEW j \in 1 .. Len(jobs), NEW c \in 0 .. Len(jobs), NEW w \in 0 .. Len(jobs),
         c # j,
         jobs' = [Cancelled(jobs, c) EXCEPT ![j] = [@ EXCEPT !.at = "join", !.waits = w]]
  PROVE  /\ Len(jobs') = Len(jobs)
         /\ \A k \in 1 .. Len(jobs) :
              k # j => jobs'[k] = IF k = c THEN CancelledJob(jobs[k]) ELSE jobs[k]
         /\ jobs'[j].kind = jobs[j].kind /\ jobs'[j].at = "join" /\ jobs'[j].waits = w
         /\ jobs'[j].cancelled = jobs[j].cancelled
  <1>1. jobs \in Seq(Job) /\ jobs[j] \in Job /\ w \in Nat
    BY CrossTyped DEF Inv, TypeOK
  <1> DEFINE js == Cancelled(jobs, c)
             b == [jobs[j] EXCEPT !.at = "join", !.waits = w]
  <1>2. /\ js \in Seq(Job) /\ Len(js) = Len(jobs)
        /\ \A k \in 1 .. Len(jobs) : js[k] = IF k = c THEN CancelledJob(jobs[k]) ELSE jobs[k]
    BY <1>1, CancelledIs
  <1>3. js[j] = jobs[j] BY <1>2
  <1>4. jobs' = [js EXCEPT ![j] = b] BY <1>3
  <1>5. /\ b \in Job /\ b.at = "join" /\ b.waits = w /\ b.kind = jobs[j].kind
        /\ b.cancelled = jobs[j].cancelled
    BY <1>1, WaitingIsJob
  <1> HIDE DEF js, b
  <1>6. /\ Len(jobs') = Len(jobs)
        /\ \A k \in 1 .. Len(jobs) : jobs'[k] = IF k = j THEN b ELSE js[k]
    BY <1>2, <1>4, <1>5, ExceptSeq
  <1> QED BY <1>2, <1>5, <1>6

\* A job that is launched.
LEMMA LaunchIs ==
  ASSUME Inv, NEW kind \in {"connect", "reconnect", "disconnect"}, Launch(kind)
  PROVE  /\ Len(jobs') = Len(jobs) + 1 /\ Launched = Len(jobs')
         /\ \A k \in 1 .. Len(jobs) : jobs'[k] = jobs[k]
         /\ jobs'[Len(jobs')].kind = kind /\ jobs'[Len(jobs')].at = "launched"
         /\ jobs'[Len(jobs')].cancelled = FALSE
  <1>1. Grows(NewJob(kind)) BY LaunchGrows DEF Inv
  <1>2. /\ NewJob(kind).kind = kind /\ NewJob(kind).at = "launched"
        /\ NewJob(kind).cancelled = FALSE
    BY DEF NewJob
  <1> QED BY <1>1, <1>2, CrossTyped DEF Grows, Launched

\* An exception in a connection job leaves no job under way but cancelled ones.
LEMMA ThrowIs ==
  ASSUME Inv, FieldsNameJobs, NEW j \in 1 .. Len(jobs), Conn(jobs[j]), Throw(j)
  PROVE  /\ Len(jobs') = Len(jobs)
         /\ jobs'[j] = Done
         /\ \A k \in 1 .. Len(jobs) : k # j => jobs'[k] \in {jobs[k], CancelledJob(jobs[k])}
         /\ \A k \in 1 .. Len(jobs) : ~Quits(jobs'[k]) /\ ~Conn(jobs'[k])
         /\ state' = "DISCONNECTED" /\ crossed' = crossed
  <1>1. jobs \in Seq(Job) /\ \A k \in 1 .. Len(jobs) : jobs[k] \in Job
    BY CrossTyped DEF Inv, TypeOK
  <1>2. Moves(j, Done)
    <2>1. TypeOK /\ j \in DOMAIN jobs BY <1>1 DEF Inv
    <2> QED BY <2>1, ThrowMoves
  <1>3. \A k \in 1 .. Len(jobs) : ~Conn(jobs'[k])
    <2> TAKE k \in 1 .. Len(jobs)
    <2>1. CASE k = j BY <2>1, <1>2, DoneIsIdle DEF Moves
    <2>2. CASE k # j
      <3>1. ~Conn(jobs[k]) BY <2>2 DEF FieldsNameJobs
      <3>2. jobs'[k] \in {jobs[k], CancelledJob(jobs[k])} BY <2>2, <1>2 DEF Moves
      <3> QED BY <1>1, <3>1, <3>2, CancelledJobIs
    <2> QED BY <2>1, <2>2
  <1> DEFINE one == Cancelled(jobs, connectionJob)
             two == Cancelled(one, disconnectionJob)
             d == disconnectionJob
  <1>4. /\ one \in Seq(Job) /\ Len(one) = Len(jobs)
        /\ \A k \in 1 .. Len(jobs) : one[k] \in {jobs[k], CancelledJob(jobs[k])}
    BY <1>1, CrossTyped, CancelledIs
  <1> HIDE DEF one
  <1>5. /\ two \in Seq(Job) /\ Len(two) = Len(jobs)
        /\ \A k \in 1 .. Len(jobs) : two[k] = IF k = d THEN CancelledJob(one[k]) ELSE one[k]
    BY <1>4, CrossTyped, CancelledIs
  <1>6. jobs' = [two EXCEPT ![j] = Done] BY DEF Throw, one
  <1> HIDE DEF two
  <1>7. \A k \in 1 .. Len(jobs) : jobs'[k] = IF k = j THEN Done ELSE two[k]
    BY <1>5, <1>6, DoneIs, ExceptSeq
  <1>8. \A k \in 1 .. Len(jobs) : ~Quits(jobs'[k])
    <2> TAKE k \in 1 .. Len(jobs)
    <2>1. CASE k = j BY <2>1, <1>7, DoneIsIdle
    <2>2. CASE k # j /\ k = d
      <3>1. jobs'[k] = CancelledJob(one[k]) /\ one[k] \in Job
        BY <2>2, <1>4, <1>5, <1>7, ElementOfSeq
      <3> QED BY <3>1, CancelledJobIs
    <2>3. CASE k # j /\ k # d
      <3>1. ~Quits(jobs[k]) BY <2>3 DEF FieldsNameJobs
      <3>2. jobs'[k] \in {jobs[k], CancelledJob(jobs[k])} BY <2>3, <1>4, <1>5, <1>7
      <3> QED BY <1>1, <3>1, <3>2, CancelledJobIs
    <2> QED BY <2>1, <2>2, <2>3
  <1> QED BY <1>2, <1>3, <1>8 DEF Moves, Throw, Set

\* No connection job is under way when the field names none; nor a disconnection
\* job that is not cancelled.
LEMMA NoneUnderWay ==
  ASSUME FieldsNameJobs
  PROVE  /\ IsOver(connectionJob) => \A k \in 1 .. Len(jobs) : ~Conn(jobs[k])
         /\ IsOver(disconnectionJob) => \A k \in 1 .. Len(jobs) : ~Quits(jobs[k])
         /\ service = "destroying" /\ IsOver(joining) =>
              \A k \in 1 .. Len(jobs) : ~Quits(jobs[k])
  BY DoneIsIdle DEF FieldsNameJobs, IsOver, NoJob

\* The status jobs after some of them are cancelled.
LEMMA StatusCancelledIs ==
  ASSUME Inv, NEW S, statusJobs' = WithStatusCancelled(S)
  PROVE  /\ Len(statusJobs') = Len(statusJobs)
         /\ \A s \in 1 .. Len(statusJobs) :
              /\ statusJobs'[s] = Over <=> statusJobs[s] = Over
              /\ statusJobs'[s].at = statusJobs[s].at /\ statusJobs'[s].seen = statusJobs[s].seen
              /\ statusJobs[s].cancelled = TRUE => statusJobs'[s].cancelled = TRUE
              /\ s \in S /\ statusJobs[s] # Over => statusJobs'[s].cancelled = TRUE
  <1>1. TypeOK /\ statusJobs \in Seq(Status) BY DEF Inv, TypeOK
  <1>2. Len(statusJobs') = Len(statusJobs) BY <1>1, StatusCancelledIsTyped
  <1>3. DOMAIN statusJobs = 1 .. Len(statusJobs) BY <1>1, LenProperties
  <1>4. \A s \in 1 .. Len(statusJobs) :
          statusJobs'[s] = IF s \in S /\ statusJobs[s] # Over
                           THEN [statusJobs[s] EXCEPT !.cancelled = TRUE] ELSE statusJobs[s]
    BY <1>3 DEF WithStatusCancelled
  <1>5. \A a \in Status : a # Over =>
          /\ [a EXCEPT !.cancelled = TRUE].at = a.at /\ [a EXCEPT !.cancelled = TRUE].seen = a.seen
          /\ [a EXCEPT !.cancelled = TRUE].cancelled = TRUE
          /\ [a EXCEPT !.cancelled = TRUE] # Over
    BY DEF Status, Over
  <1> QED BY <1>2, <1>4, <1>5, CrossTyped

\* turnOffBackend cancels the one status job that was not.
LEMMA TurnOffServes ==
  ASSUME Inv, StatusIsServed, TurnOff PROVE handle' = FALSE /\ StatusIsServed'
  <1>1. /\ handle' = FALSE /\ statusJobs' = WithStatusCancelled({statusJob})
    BY DEF TurnOff
  <1>2. /\ Len(statusJobs') = Len(statusJobs)
        /\ \A s \in 1 .. Len(statusJobs) :
              /\ statusJobs'[s] = Over <=> statusJobs[s] = Over
              /\ statusJobs'[s].at = statusJobs[s].at /\ statusJobs'[s].seen = statusJobs[s].seen
              /\ statusJobs[s].cancelled = TRUE => statusJobs'[s].cancelled = TRUE
              /\ s = statusJob /\ statusJobs[s] # Over => statusJobs'[s].cancelled = TRUE
    BY <1>1, StatusCancelledIs
  <1>3. \A s \in 1 .. Len(statusJobs) : statusJobs[s].cancelled \in BOOLEAN
    BY CrossTyped DEF Status
  <1> QED BY <1>1, <1>2, <1>3 DEF StatusIsServed

\* An exception in a connection job that leaves no backend.
LEMMA ThrowTames ==
  ASSUME Inv, PlacesAreApt, crossed = FALSE => Tame, NEW j \in 1 .. Len(jobs), Conn(jobs[j]),
         Throw(j), UNCHANGED <<main, config>>,
         crossed = FALSE => ~handle' /\ StatusIsServed'
  PROVE  PlacesAreApt' /\ (crossed' = FALSE => Tame')
  <1>1. PlacesAreApt'
    <2>1. TypeOK /\ j \in DOMAIN jobs
      <3>1. jobs \in Seq(Job) BY DEF Inv, TypeOK
      <3> QED BY <3>1 DEF Inv
    <2>2. Moves(j, Done) BY <2>1, ThrowMoves
    <2> QED BY <2>2, CrossTyped, CancelledJobIs, DoneIsIdle DEF Moves, PlacesAreApt
  <1>2. ASSUME crossed' = FALSE PROVE Tame'
    <2>1. crossed = FALSE BY <1>2 DEF Throw
    <2>2. Tame /\ FieldsNameJobs /\ ~handle' /\ StatusIsServed' BY <2>1 DEF Tame
    <2>3. /\ Len(jobs') = Len(jobs)
          /\ \A k \in 1 .. Len(jobs) : ~Quits(jobs'[k]) /\ ~Conn(jobs'[k])
          /\ state' = "DISCONNECTED"
      BY <2>2, ThrowIs
    <2>4. PlacesAreApt' BY <1>1
    <2>5. FieldsNameJobs' /\ ClosingIsServed' /\ GoneIsOver' /\ StartsFromDown' /\ ConnectedIsServed'
      BY <2>2, <2>3 DEF FieldsNameJobs, ClosingIsServed, GoneIsOver, StartsFromDown, ConnectedIsServed
    <2>6. ConfigIsKnown' BY <2>2, <2>3 DEF ConfigIsKnown, Conn
    <2> QED BY <2>2, <2>5, <2>6 DEF Tame
  <1> QED BY <1>1, <1>2

-----------------------------------------------------------------------------
(* The main thread.                                                        *)

\* A service at rest has no job whose order could matter.
LEMMA AtRestIsTame ==
  ASSUME Inv, AtRest, service \in {"running", "stopping"} PROVE Tame
  <1>1. DOMAIN jobs = 1 .. Len(jobs) /\ DOMAIN statusJobs = 1 .. Len(statusJobs)
    BY LenProperties DEF Inv, TypeOK
  <1>2. \A k \in 1 .. Len(jobs) : /\ jobs[k].at = "done" /\ ~Conn(jobs[k]) /\ ~Quits(jobs[k])
                                  /\ jobs[k].kind = "none"
    BY <1>1, DoneIsIdle, DoneIs DEF AtRest, Quiet
  <1>3. \A s \in 1 .. Len(statusJobs) : statusJobs[s] = Over BY <1>1 DEF AtRest
  <1>4. /\ handle => state = "CONNECTED" /\ config
        /\ ~handle => state # "CONNECTED"
    BY DEF AtRest
  <1>5. FieldsNameJobs /\ GoneIsOver /\ StartsFromDown
    BY <1>2 DEF FieldsNameJobs, GoneIsOver, StartsFromDown
  <1>6. ClosingIsServed BY <1>2, <1>4 DEF ClosingIsServed, Closing
  <1>7. ConfigIsKnown /\ ConnectedIsServed BY <1>2, <1>4 DEF ConfigIsKnown, ConnectedIsServed
  <1>8. StatusIsServed BY <1>3 DEF StatusIsServed, Over
  <1> QED BY <1>5, <1>6, <1>7, <1>8 DEF Tame

\* A request that does not cross, after none that did since the service was at
\* rest, is made of a tame service.
LEMMA RequestTames ==
  ASSUME Inv, crossed = FALSE => Tame, service \in {"running", "stopping"},
         NEW crosses \in BOOLEAN, Request(crosses), crossed' = FALSE
  PROVE  Tame /\ ~crosses
  <1>1. ~crosses /\ (crossed = FALSE \/ AtRest) BY CrossTyped DEF Request
  <1> QED BY <1>1, AtRestIsTame

\* Requests that do not cross find no job of their kind under way.
LEMMA ConnectTames ==
  ASSUME Inv, PlacesAreApt, crossed = FALSE => Tame, Connect
  PROVE  PlacesAreApt' /\ (crossed' = FALSE => Tame')
  <1>1. /\ UNCHANGED <<main, disconnectionJob, wg, status>> /\ MainIsFree
        /\ state \notin {"CONNECTED", "CONNECTING"}
        /\ crossed' = FALSE => Tame /\ IsOver(connectionJob) /\ state # "RECONNECTING"
    <2>1. /\ service \in {"running", "stopping"}
          /\ Request(~IsOver(connectionJob) \/ state = "RECONNECTING")
      BY DEF Connect, MayRequest, MainIsFree
    <2>2. (~IsOver(connectionJob) \/ state = "RECONNECTING") \in BOOLEAN OBVIOUS
    <2> QED BY <2>1, <2>2, RequestTames DEF Connect, MayRequest
  <1>2. state \in States BY Typed
  <1>3. CASE Launch("connect") /\ connectionJob' = Launched /\ state' = "CONNECTING"
    <2>1. /\ Len(jobs') = Len(jobs) + 1 /\ connectionJob' = Len(jobs')
          /\ \A k \in 1 .. Len(jobs) : jobs'[k] = jobs[k]
          /\ jobs'[Len(jobs')].kind = "connect" /\ jobs'[Len(jobs')].at = "launched"
          /\ jobs'[Len(jobs')].cancelled = FALSE
      BY <1>3, LaunchIs
    <2>2. PlacesAreApt' BY <2>1, CrossTyped DEF PlacesAreApt, AptPlace, Conn
    <2>3. ASSUME crossed' = FALSE PROVE Tame'
      <3>1. /\ Tame /\ state \in {"UNKNOWN", "DISCONNECTED", "DISCONNECTING"}
            /\ IsOver(connectionJob) /\ service \in {"running", "stopping"}
        BY <1>1, <1>2, <2>3 DEF States, MainIsFree
      <3>2. \A k \in 1 .. Len(jobs) : ~Conn(jobs[k]) BY <3>1, NoneUnderWay DEF Tame
      <3>3. FieldsNameJobs'
        BY <1>1, <2>1, <3>1, <3>2, CrossTyped DEF Tame, FieldsNameJobs, Conn, Quits, main
      <3>4. handle' => Stopper'
        BY <1>1, <2>1, <3>1, CrossTyped DEF Tame, ClosingIsServed, Closing, Stopper, wg
      <3>5. ClosingIsServed' /\ GoneIsOver' /\ ConnectedIsServed'
        BY <1>1, <1>3, <3>1 DEF ClosingIsServed, Closing, GoneIsOver, ConnectedIsServed, main
      <3>6. StartsFromDown'
        BY <1>1, <2>1, <3>1, <3>4, CrossTyped DEF Tame, StartsFromDown, wg
      <3>7. ConfigIsKnown'
        <4>1. handle' = handle /\ config' = config BY <1>1 DEF wg
        <4>2. /\ \A k \in 1 .. Len(jobs) : k \in 1 .. Len(jobs') /\ jobs'[k].at = jobs[k].at
              /\ \A k \in 1 .. Len(jobs') :
                   jobs'[k].at = "on" => k \in 1 .. Len(jobs) /\ jobs'[k] = jobs[k]
          BY <2>1, CrossTyped
        <4> QED BY <3>1, <4>1, <4>2 DEF Tame, ConfigIsKnown
      <3>8. StatusIsServed' BY <1>1, <3>1 DEF Tame, StatusIsServed, wg, status
      <3> QED BY <3>3, <3>5, <3>6, <3>7, <3>8 DEF Tame
    <2> QED BY <2>2, <2>3
  <1>4. CASE UNCHANGED <<jobs, connectionJob>> /\ state' = "DISCONNECTED"
    <2>1. PlacesAreApt' BY <1>4 DEF PlacesAreApt
    <2>2. ASSUME crossed' = FALSE PROVE Tame'
      <3>1. Tame /\ state \in {"UNKNOWN", "DISCONNECTED", "DISCONNECTING"}
        BY <1>1, <1>2, <2>2 DEF States
      <3> QED BY <1>1, <1>4, <3>1
              DEF Tame, FieldsNameJobs, ClosingIsServed, Closing, Stopper, GoneIsOver,
                  StartsFromDown, ConfigIsKnown, StatusIsServed, ConnectedIsServed,
                  main, wg, status
    <2> QED BY <2>1, <2>2
  <1> QED BY <1>3, <1>4 DEF Connect, Set

\* The job of a request to disconnect stops whatever runs.
LEMMA LaunchToDisconnectTames ==
  ASSUME Inv, Tame, Launch("disconnect"), disconnectionJob' = Launched,
         IsOver(disconnectionJob), CanDisconnect, state' = "DISCONNECTING",
         UNCHANGED <<connectionJob, wg, status>>,
         \/ service \in {"running", "stopping"} /\ UNCHANGED service
         \/ service' = "destroying" /\ joining' = Launched
  PROVE  Tame'
  <1>1. /\ Len(jobs') = Len(jobs) + 1 /\ disconnectionJob' = Len(jobs') /\ Launched = Len(jobs')
        /\ \A k \in 1 .. Len(jobs) : jobs'[k] = jobs[k]
        /\ jobs'[Len(jobs')].kind = "disconnect" /\ jobs'[Len(jobs')].at = "launched"
        /\ jobs'[Len(jobs')].cancelled = FALSE
    BY LaunchIs
  <1>2. \A k \in 1 .. Len(jobs) : ~Quits(jobs[k]) BY NoneUnderWay DEF Tame
  <1>3. FieldsNameJobs'
    BY <1>1, <1>2, CrossTyped DEF Tame, FieldsNameJobs, Conn, Quits
  <1>4. /\ Len(jobs') \in 1 .. Len(jobs') /\ Stops(jobs'[Len(jobs')])
        /\ \A c \in 1 .. Len(jobs') : Outlives(jobs'[Len(jobs')], c)
    BY <1>1, CrossTyped DEF Stops, Outlives, Quits
  <1>5. ClosingIsServed' BY <1>4 DEF ClosingIsServed, Stopper
  <1>6. GoneIsOver' /\ ConnectedIsServed' BY DEF GoneIsOver, ConnectedIsServed
  <1>7. Stopper' BY <1>4 DEF Stopper
  <1>8. StartsFromDown' BY <1>1, <1>7, CrossTyped DEF Tame, StartsFromDown, wg
  <1>9. ConfigIsKnown' BY <1>1, CrossTyped DEF Tame, ConfigIsKnown, wg
  <1>10. StatusIsServed' BY DEF Tame, StatusIsServed, wg, status
  <1> QED BY <1>3, <1>5, <1>6, <1>8, <1>9, <1>10 DEF Tame

\* A new job is in an apt place.
LEMMA LaunchPlaces ==
  ASSUME Inv, PlacesAreApt, NEW kind \in {"connect", "reconnect", "disconnect"}, Launch(kind)
  PROVE  PlacesAreApt'
  <1>1. /\ Len(jobs') = Len(jobs) + 1
        /\ \A k \in 1 .. Len(jobs) : jobs'[k] = jobs[k]
        /\ jobs'[Len(jobs')].at = "launched" /\ jobs'[Len(jobs')].cancelled = FALSE
    BY LaunchIs
  <1> QED BY <1>1, CrossTyped DEF PlacesAreApt, AptPlace

LEMMA DisconnectTames ==
  ASSUME Inv, PlacesAreApt, crossed = FALSE => Tame, Disconnect
  PROVE  PlacesAreApt' /\ (crossed' = FALSE => Tame')
  <1>1. /\ UNCHANGED <<main, connectionJob, wg, status>>
        /\ service \in {"running", "stopping"} /\ CanDisconnect
        /\ Launch("disconnect") /\ disconnectionJob' = Launched /\ state' = "DISCONNECTING"
        /\ crossed' = FALSE => Tame /\ IsOver(disconnectionJob)
    <2>1. service \in {"running", "stopping"} /\ Request(~IsOver(disconnectionJob))
      BY DEF Disconnect, MayRequest, MainIsFree
    <2>2. (~IsOver(disconnectionJob)) \in BOOLEAN BY DEF IsOver
    <2> QED BY <2>1, <2>2, RequestTames DEF Disconnect, Set
  <1>2. PlacesAreApt' BY <1>1, LaunchPlaces
  <1>3. ASSUME crossed' = FALSE PROVE Tame'
    BY <1>1, <1>3, LaunchToDisconnectTames DEF main
  <1> QED BY <1>2, <1>3

\* onDestroy disconnects, or waits for the disconnection that is under way.
LEMMA DestroyTames ==
  ASSUME Inv, PlacesAreApt, crossed = FALSE => Tame, Destroy
  PROVE  PlacesAreApt' /\ (crossed' = FALSE => Tame')
  <1>1. /\ UNCHANGED <<connectionJob, wg, status>> /\ service' = "destroying"
        /\ service = "stopping"
    BY DEF Destroy
  <1>2. CASE CanDisconnect
    <2>1. /\ Launch("disconnect") /\ disconnectionJob' = Launched /\ joining' = Launched
          /\ state' = "DISCONNECTING"
          /\ crossed' = FALSE => Tame /\ IsOver(disconnectionJob)
      <3>1. Request(~IsOver(disconnectionJob)) BY <1>2 DEF Destroy
      <3>2. (~IsOver(disconnectionJob)) \in BOOLEAN BY DEF IsOver
      <3> QED BY <1>1, <1>2, <3>1, <3>2, RequestTames DEF Destroy, Set
    <2>2. PlacesAreApt' BY <2>1, LaunchPlaces
    <2>3. ASSUME crossed' = FALSE PROVE Tame'
      BY <1>1, <1>2, <2>1, <2>3, LaunchToDisconnectTames
    <2> QED BY <2>2, <2>3
  <1>3. CASE ~CanDisconnect
    <2>1. /\ UNCHANGED <<state, jobs, disconnectionJob>> /\ joining' = disconnectionJob
          /\ crossed' = FALSE => Tame
      <3>1. Request(FALSE) BY <1>3 DEF Destroy
      <3> QED BY <1>1, <1>3, <3>1, RequestTames DEF Destroy
    <2>2. PlacesAreApt' BY <2>1 DEF PlacesAreApt
    <2>3. ASSUME crossed' = FALSE PROVE Tame'
      <3>1. Tame /\ state \in {"UNKNOWN", "DISCONNECTED", "DISCONNECTING"}
        BY <1>3, <2>1, <2>3 DEF CanDisconnect
      <3> QED BY <1>1, <2>1, <3>1
              DEF Tame, FieldsNameJobs, ClosingIsServed, Closing, Stopper, GoneIsOver,
                  StartsFromDown, ConfigIsKnown, StatusIsServed, ConnectedIsServed,
                  wg, status
    <2> QED BY <2>2, <2>3
  <1> QED BY <1>2, <1>3

\* A change of network finds no connection job under way.
LEMMA ReconnectTames ==
  ASSUME Inv, PlacesAreApt, crossed = FALSE => Tame, Reconnect
  PROVE  PlacesAreApt' /\ (crossed' = FALSE => Tame')
  <1>1. /\ UNCHANGED <<main, disconnectionJob, wg, status>>
        /\ service \in {"running", "stopping"}
        /\ Launch("reconnect") /\ connectionJob' = Launched /\ state' = "RECONNECTING"
        /\ crossed' = FALSE => Tame /\ IsOver(connectionJob)
    <2>1. service \in {"running", "stopping"} /\ Request(~IsOver(connectionJob))
      BY DEF Reconnect, MayRequest, MainIsFree
    <2>2. (~IsOver(connectionJob)) \in BOOLEAN BY DEF IsOver
    <2> QED BY <2>1, <2>2, RequestTames DEF Reconnect, Set
  <1>2. PlacesAreApt' BY <1>1, LaunchPlaces
  <1>3. ASSUME crossed' = FALSE PROVE Tame'
    <2>1. /\ Len(jobs') = Len(jobs) + 1 /\ connectionJob' = Len(jobs')
          /\ \A k \in 1 .. Len(jobs) : jobs'[k] = jobs[k]
          /\ jobs'[Len(jobs')].kind = "reconnect" /\ jobs'[Len(jobs')].at = "launched"
      BY <1>1, LaunchIs
    <2>2. Tame /\ IsOver(connectionJob) BY <1>1, <1>3
    <2>3. \A k \in 1 .. Len(jobs) : ~Conn(jobs[k]) BY <2>2, NoneUnderWay DEF Tame
    <2>4. FieldsNameJobs'
      BY <1>1, <2>1, <2>2, <2>3, CrossTyped DEF Tame, FieldsNameJobs, Conn, Quits, main
    <2>5. ClosingIsServed' /\ GoneIsOver' /\ ConnectedIsServed'
      BY <1>1 DEF ClosingIsServed, Closing, GoneIsOver, ConnectedIsServed, main
    <2>6. Stopper => Stopper' BY <2>1, CrossTyped DEF Stopper
    <2>7. StartsFromDown' BY <1>1, <2>1, <2>2, <2>6, CrossTyped DEF Tame, StartsFromDown, wg
    <2>8. ConfigIsKnown'
      <3>1. handle' = handle /\ config' = config BY <1>1 DEF wg
      <3>2. /\ \A k \in 1 .. Len(jobs) : k \in 1 .. Len(jobs') /\ jobs'[k].at = jobs[k].at
            /\ \A k \in 1 .. Len(jobs') :
                 jobs'[k].at = "on" => k \in 1 .. Len(jobs) /\ jobs'[k] = jobs[k]
        BY <2>1, CrossTyped
      <3> QED BY <2>2, <3>1, <3>2 DEF Tame, ConfigIsKnown
    <2>9. StatusIsServed' BY <1>1, <2>2 DEF Tame, StatusIsServed, wg, status
    <2> QED BY <2>4, <2>5, <2>7, <2>8, <2>9 DEF Tame
  <1> QED BY <1>2, <1>3

\* The collector, and clients that come and go, only ask the service to stop.
LEMMA MainTames ==
  ASSUME Inv, PlacesAreApt, crossed = FALSE => Tame, Bind \/ Unbind \/ Collect \/ React
  PROVE  PlacesAreApt' /\ (crossed' = FALSE => Tame')
  <1>1. UNCHANGED <<state, joining, jobs, connectionJob, disconnectionJob, crossed, wg, status>>
    BY DEF Bind, Unbind, Collect, React, jobVars, refs
  <1>2. service' = service \/ (service' = "stopping" /\ service = "running")
    BY DEF Bind, Unbind, Collect, React, StopService
  <1>3. PlacesAreApt' BY <1>1 DEF PlacesAreApt
  <1>4. ASSUME crossed' = FALSE PROVE Tame'
    <2>1. Tame BY <1>1, <1>4
    <2> QED BY <1>1, <1>2, <2>1
            DEF Tame, FieldsNameJobs, ClosingIsServed, Closing, Stopper, GoneIsOver,
                StartsFromDown, ConfigIsKnown, StatusIsServed, ConnectedIsServed, wg, status
  <1> QED BY <1>3, <1>4

\* When the job onDestroy waits for is over, no connection job is left and no
\* backend runs.
LEMMA DestroyedTames ==
  ASSUME Inv, PlacesAreApt, crossed = FALSE => Tame, Destroyed
  PROVE  PlacesAreApt' /\ (crossed' = FALSE => Tame')
  <1>1. /\ Len(jobs') = Len(jobs)
        /\ \A k \in 1 .. Len(jobs) : jobs'[k] = CancelledJob(jobs[k])
    BY DestroyedCancels DEF Inv
  <1>2. /\ UNCHANGED <<state, refs, crossed, wg, status>>
        /\ service = "destroying" /\ service' = "gone" /\ IsOver(joining)
    BY DEF Destroyed
  <1>3. \A k \in 1 .. Len(jobs) :
          /\ ~Quits(jobs'[k]) /\ (Conn(jobs'[k]) => Conn(jobs[k]))
          /\ AptPlace(jobs[k]) => AptPlace(jobs'[k])
          /\ jobs[k].at \in {"on", "tell", "config"} => jobs'[k].at = jobs[k].at
    BY <1>1, CrossTyped, CancelledJobIs
  <1>4. PlacesAreApt' BY <1>1, <1>3 DEF PlacesAreApt
  <1>5. ASSUME crossed' = FALSE PROVE Tame'
    <2>1. Tame BY <1>2, <1>5
    <2>2. \A k \in 1 .. Len(jobs) : ~Quits(jobs[k]) BY <1>2, <2>1, NoneUnderWay DEF Tame
    <2>3. ~handle /\ \A k \in 1 .. Len(jobs) : ~Conn(jobs[k])
      BY <1>2, <2>1, <2>2 DEF Tame, ClosingIsServed, Closing, Stopper, Stops, Outlives
    <2>4. ~handle' /\ \A k \in 1 .. Len(jobs') : ~Conn(jobs'[k]) /\ ~Quits(jobs'[k])
      BY <1>1, <1>2, <1>3, <2>3 DEF wg
    <2>5. FieldsNameJobs' /\ ClosingIsServed' /\ GoneIsOver' /\ StartsFromDown'
      BY <2>4 DEF FieldsNameJobs, ClosingIsServed, GoneIsOver, StartsFromDown
    <2>6. ConfigIsKnown' BY <2>4 DEF ConfigIsKnown, Conn
    <2>7. StatusIsServed' BY <1>2, <2>1 DEF Tame, StatusIsServed, wg, status
    <2>8. ConnectedIsServed' BY <1>1, <1>2, <1>3, <2>1 DEF Tame, ConnectedIsServed, wg
    <2> QED BY <2>5, <2>6, <2>7, <2>8 DEF Tame
  <1> QED BY <1>4, <1>5

\* A new instance, in a new process or after a kill, has no job and no backend.
LEMMA KillTames == Kill => PlacesAreApt' /\ Tame'
  <1> SUFFICES ASSUME Kill PROVE PlacesAreApt' /\ Tame'
    OBVIOUS
  <1>1. /\ jobs' = <<>> /\ statusJobs' = <<>> /\ handle' = FALSE /\ state' = "UNKNOWN"
        /\ service' = "running"
    BY DEF Kill
  <1>2. Len(jobs') = 0 /\ Len(statusJobs') = 0 BY <1>1
  <1> QED BY <1>1, <1>2
          DEF PlacesAreApt, Tame, FieldsNameJobs, ClosingIsServed, GoneIsOver,
              StartsFromDown, ConfigIsKnown, StatusIsServed, ConnectedIsServed
-----------------------------------------------------------------------------
(* The jobs that connect.                                                  *)

\* A connection job that begins to wait.
LEMMA ConnectBeginsTames ==
  ASSUME Inv, PlacesAreApt, crossed = FALSE => Tame, NEW j, ConnectBegins(j)
  PROVE  PlacesAreApt' /\ (crossed' = FALSE => Tame')
  <1>1. /\ j \in 1 .. Len(jobs) /\ jobs[j].kind = "connect" /\ jobs[j].at = "launched"
    BY AtIs DEF ConnectBegins
  <1>2. UNCHANGED <<state, main, refs, crossed, wg, status>> BY DEF ConnectBegins
  <1>3. /\ Len(jobs') = Len(jobs)
        /\ \A k \in 1 .. Len(jobs) : k # j => jobs'[k] = jobs[k]
        /\ jobs'[j].kind = "connect" /\ jobs'[j].at = "join"
        /\ jobs'[j].cancelled = jobs[j].cancelled
    <2>1. Cancelled(jobs, 0) = jobs BY DEF Cancelled, NoJob
    <2>2. jobs' = [Cancelled(jobs, 0) EXCEPT
                     ![j] = [@ EXCEPT !.at = "join", !.waits = disconnectionJob]]
      BY <2>1 DEF ConnectBegins
    <2>3. 0 \in 0 .. Len(jobs) /\ disconnectionJob \in 0 .. Len(jobs) /\ 0 # j
      BY <1>1, CrossTyped
    <2>4. /\ Len(jobs') = Len(jobs)
          /\ \A k \in 1 .. Len(jobs) :
               k # j => jobs'[k] = IF k = 0 THEN CancelledJob(jobs[k]) ELSE jobs[k]
          /\ jobs'[j].kind = jobs[j].kind /\ jobs'[j].at = "join"
          /\ jobs'[j].waits = disconnectionJob /\ jobs'[j].cancelled = jobs[j].cancelled
      BY <1>1, <2>2, <2>3, BeginsIs, Zenon
    <2> QED BY <1>1, <2>4
  <1>4. PlacesAreApt' BY <1>1, <1>3 DEF PlacesAreApt, AptPlace
  <1>5. ASSUME crossed' = FALSE PROVE Tame'
    <2>1. Tame BY <1>2, <1>5
    <2>2. \A k \in 1 .. Len(jobs) : /\ Conn(jobs'[k]) <=> Conn(jobs[k])
                                    /\ Quits(jobs'[k]) <=> Quits(jobs[k])
                                    /\ Stops(jobs'[k]) <=> Stops(jobs[k])
                                    /\ \A c \in 1 .. Len(jobs) :
                                         Outlives(jobs'[k], c) <=> Outlives(jobs[k], c)
      BY <1>1, <1>3 DEF Conn, Quits, Stops, Outlives
    <2>3. Stopper' <=> Stopper BY <1>3, <2>2 DEF Stopper
    <2>4. FieldsNameJobs' BY <1>2, <1>3, <2>1, <2>2 DEF Tame, FieldsNameJobs, main, refs
    <2>5. ClosingIsServed'
      BY <1>2, <1>3, <2>1, <2>2, <2>3 DEF Tame, ClosingIsServed, Closing, main, wg
    <2>6. GoneIsOver' BY <1>2, <1>3, <2>1, <2>2 DEF Tame, GoneIsOver, main, wg
    <2>7. StartsFromDown' BY <1>1, <1>2, <1>3, <2>1, <2>3 DEF Tame, StartsFromDown, wg
    <2>8. ConfigIsKnown' BY <1>1, <1>2, <1>3, <2>1 DEF Tame, ConfigIsKnown, wg
    <2>9. StatusIsServed' BY <1>2, <2>1 DEF Tame, StatusIsServed, wg, status
    <2>10. ConnectedIsServed' BY <1>1, <1>2, <1>3, <2>1 DEF Tame, ConnectedIsServed, wg
    <2> QED BY <2>4, <2>5, <2>6, <2>7, <2>8, <2>9, <2>10 DEF Tame
  <1> QED BY <1>4, <1>5

\* A connection job that goes on to its start has seen every disconnection end,
\* so no backend is left.
LEMMA ConnectJoinedTames ==
  ASSUME Inv, PlacesAreApt, crossed = FALSE => Tame, NEW j, ConnectJoined(j)
  PROVE  PlacesAreApt' /\ (crossed' = FALSE => Tame')
  <1>1. /\ j \in 1 .. Len(jobs) /\ jobs[j].kind = "connect" /\ jobs[j].at = "join"
    BY AtIs DEF ConnectJoined
  <1>2. UNCHANGED <<state, main, connectionJob, wg, status>> BY DEF ConnectJoined
  <1>3. CASE Goto(j, "done") /\ UNCHANGED <<disconnectionJob, crossed>>
    <2>1. /\ Len(jobs') = Len(jobs) /\ jobs'[j] = Done
          /\ \A k \in 1 .. Len(jobs) : k # j => jobs'[k] = jobs[k]
      BY <1>1, <1>3, GotoIs DEF Places
    <2>2. PlacesAreApt' BY <1>1, <2>1, DoneIsIdle DEF PlacesAreApt
    <2>3. ASSUME crossed' = FALSE PROVE Tame'
      <3>1. Tame BY <1>3, <2>3
      <3>2. ~Quits(jobs[j]) BY <1>1 DEF Quits
      <3>3. Stopper => Stopper' BY <2>1, <3>2 DEF Stopper, Stops
      <3>4. FieldsNameJobs'
        BY <1>2, <1>3, <2>1, <3>1, DoneIsIdle DEF Tame, FieldsNameJobs, main
      <3>5. ClosingIsServed'
        BY <1>2, <2>1, <3>1, <3>2, <3>3, DoneIsIdle
        DEF Tame, ClosingIsServed, Closing, Outlives, main, wg
      <3>6. GoneIsOver' BY <1>2, <2>1, <3>1, DoneIsIdle DEF Tame, GoneIsOver, main, wg
      <3>7. StartsFromDown' BY <1>2, <2>1, <3>1, <3>3, DoneIsIdle DEF Tame, StartsFromDown, wg
      <3>8. ConfigIsKnown' BY <1>1, <1>2, <2>1, <3>1, DoneIsIdle DEF Tame, ConfigIsKnown, wg
      <3>9. StatusIsServed' BY <1>2, <3>1 DEF Tame, StatusIsServed, wg, status
      <3>10. ConnectedIsServed' BY <1>1, <1>2, <2>1, <3>1 DEF Tame, ConnectedIsServed, wg
      <3> QED BY <3>4, <3>5, <3>6, <3>7, <3>8, <3>9, <3>10 DEF Tame
    <2> QED BY <2>2, <2>3
  <1>4. CASE Goto(j, "init") /\ disconnectionJob' = NoJob /\ Forget(disconnectionJob)
    <2>1. /\ Len(jobs') = Len(jobs)
          /\ \A k \in 1 .. Len(jobs) : k # j => jobs'[k] = jobs[k]
          /\ jobs'[j].kind = "connect" /\ jobs'[j].at = "init"
          /\ jobs'[j].cancelled = jobs[j].cancelled
      BY <1>1, <1>4, GotoIs DEF Places
    <2>2. PlacesAreApt' BY <1>1, <2>1 DEF PlacesAreApt, AptPlace
    <2>3. ASSUME crossed' = FALSE PROVE Tame'
      <3>1. Tame /\ IsOver(disconnectionJob) BY <1>4, <2>3, CrossTyped DEF Forget
      <3>2. \A k \in 1 .. Len(jobs) : ~Quits(jobs[k]) BY <3>1, NoneUnderWay DEF Tame
      <3>3. Conn(jobs[j]) /\ ~Quits(jobs'[j]) BY <1>1, <2>1 DEF Conn, Quits
      <3>4. ~Stopper BY <3>2 DEF Stopper, Stops
      <3>5. ~handle BY <1>1, <3>1, <3>4 DEF Tame, StartsFromDown
      <3>6. ~Closing BY <1>1, <3>1, <3>2, <3>3 DEF Tame, ClosingIsServed, Outlives
      <3>7. ~Closing' /\ ~handle' BY <1>2, <3>5, <3>6 DEF Closing, main, wg
      <3>8. \A k \in 1 .. Len(jobs) : (Conn(jobs'[k]) <=> Conn(jobs[k])) /\ ~Quits(jobs'[k])
        BY <1>1, <2>1, <3>2, <3>3 DEF Conn
      <3>9. FieldsNameJobs' BY <1>2, <2>1, <3>1, <3>8 DEF Tame, FieldsNameJobs
      <3>10. ClosingIsServed' BY <3>7 DEF ClosingIsServed
      <3>11. GoneIsOver' BY <3>7 DEF GoneIsOver, Closing
      <3>12. StartsFromDown' BY <3>7 DEF StartsFromDown
      <3>13. ConfigIsKnown' BY <1>1, <1>2, <2>1, <3>1, <3>7 DEF Tame, ConfigIsKnown, wg
      <3>14. StatusIsServed' BY <1>2, <3>1 DEF Tame, StatusIsServed, wg, status
      <3>15. ConnectedIsServed' BY <1>1, <1>2, <2>1, <3>1 DEF Tame, ConnectedIsServed, wg
      <3> QED BY <3>9, <3>10, <3>11, <3>12, <3>13, <3>14, <3>15 DEF Tame
    <2> QED BY <2>2, <2>3
  <1> QED BY <1>3, <1>4 DEF ConnectJoined

\* A step of the connection job that leaves it one, on its way to a backend, with
\* no backend yet.
LEMMA AscentTames ==
  ASSUME Inv, PlacesAreApt, Tame, NEW j \in 1 .. Len(jobs), Conn(jobs[j]),
         jobs[j].at \in {"init", "launched"}, Goto(j, "on"), ~handle', UNCHANGED config,
         UNCHANGED <<state, main, refs, crossed>>, StatusIsServed',
         jobs[j].kind = "reconnect" => config
  PROVE  PlacesAreApt' /\ Tame'
  <1>1. /\ Len(jobs') = Len(jobs)
        /\ \A k \in 1 .. Len(jobs) : k # j => jobs'[k] = jobs[k]
        /\ jobs'[j].kind = jobs[j].kind /\ jobs'[j].at = "on"
        /\ jobs'[j].cancelled = jobs[j].cancelled
    BY GotoIs DEF Places
  <1>2. PlacesAreApt' BY <1>1 DEF PlacesAreApt, AptPlace, Conn
  <1>3. ~Quits(jobs[j]) /\ ~Quits(jobs'[j]) /\ Conn(jobs'[j]) BY <1>1 DEF Quits, Conn
  <1>4. FieldsNameJobs' BY <1>1, <1>3 DEF Tame, FieldsNameJobs, main, refs
  <1>5. ClosingIsServed'
    BY <1>1, <1>3 DEF Tame, ClosingIsServed, Closing, Outlives, main
  <1>6. GoneIsOver' BY DEF Tame, GoneIsOver, main
  <1>7. StartsFromDown' BY DEF StartsFromDown
  <1>8. ConfigIsKnown' BY <1>1 DEF Tame, ConfigIsKnown
  <1>9. ConnectedIsServed' BY <1>1 DEF ConnectedIsServed
  <1> QED BY <1>2, <1>4, <1>5, <1>6, <1>7, <1>8, <1>9 DEF Tame

\* startVpn begins when no backend runs.
LEMMA InitializeTames ==
  ASSUME Inv, PlacesAreApt, crossed = FALSE => Tame, NEW j, Initialize(j)
  PROVE  PlacesAreApt' /\ (crossed' = FALSE => Tame')
  <1>1. /\ j \in 1 .. Len(jobs) /\ jobs[j].kind = "connect" /\ jobs[j].at = "init"
    BY AtIs DEF Initialize
  <1>2. /\ UNCHANGED <<main, handle, config, statusJob>> /\ Conn(jobs[j])
        /\ statusJobs' = WithStatusCancelled(DOMAIN statusJobs)
    BY <1>1 DEF Initialize, Conn
  <1>3. StatusIsServed'
    <2>1. DOMAIN statusJobs = 1 .. Len(statusJobs) BY LenProperties DEF Inv, TypeOK
    <2>2. \A s \in 1 .. Len(statusJobs') :
            statusJobs'[s] = Over \/ statusJobs'[s].cancelled = TRUE
      BY <1>2, <2>1, StatusCancelledIs
    <2> QED BY <2>2 DEF StatusIsServed, Over
  <1>4. crossed = FALSE => ~handle BY <1>1 DEF Tame, StartsFromDown
  <1>5. CASE handle /\ Goto(j, "config") /\ UNCHANGED <<state, refs, crossed>>
    <2>1. /\ Len(jobs') = Len(jobs)
          /\ \A k \in 1 .. Len(jobs) : k # j => jobs'[k] = jobs[k]
          /\ jobs'[j].kind = "connect" /\ jobs'[j].at = "config"
      BY <1>1, <1>5, GotoIs DEF Places
    <2>2. PlacesAreApt' BY <1>1, <2>1 DEF PlacesAreApt, AptPlace
    <2> QED BY <1>4, <1>5, <2>2
  <1>6. CASE ~handle /\ Goto(j, "on") /\ UNCHANGED <<state, refs, crossed>>
    <2>1. /\ Len(jobs') = Len(jobs)
          /\ \A k \in 1 .. Len(jobs) : k # j => jobs'[k] = jobs[k]
          /\ jobs'[j].kind = "connect" /\ jobs'[j].at = "on"
      BY <1>1, <1>6, GotoIs DEF Places
    <2>2. PlacesAreApt' BY <1>1, <2>1 DEF PlacesAreApt, AptPlace, Conn
    <2>3. ASSUME crossed' = FALSE PROVE Tame'
      BY <1>1, <1>2, <1>3, <1>6, <2>3, AscentTames
    <2> QED BY <2>2, <2>3
  <1>7. CASE Throw(j) BY <1>1, <1>2, <1>3, <1>4, <1>7, ThrowTames
  <1> QED BY <1>5, <1>6, <1>7 DEF Initialize

\* reconnectVpn stops the backend, or throws when none runs.
LEMMA ReconnectBeginsTames ==
  ASSUME Inv, PlacesAreApt, crossed = FALSE => Tame, NEW j, ReconnectBegins(j)
  PROVE  PlacesAreApt' /\ (crossed' = FALSE => Tame')
  <1>1. /\ j \in 1 .. Len(jobs) /\ jobs[j].kind = "reconnect" /\ jobs[j].at = "launched"
    BY AtIs DEF ReconnectBegins
  <1>2. UNCHANGED main /\ Conn(jobs[j]) BY <1>1 DEF ReconnectBegins, Conn
  <1>3. ASSUME Goto(j, "on") PROVE PlacesAreApt'
    <2>1. /\ Len(jobs') = Len(jobs)
          /\ \A k \in 1 .. Len(jobs) : k # j => jobs'[k] = jobs[k]
          /\ jobs'[j].kind = "reconnect" /\ jobs'[j].at = "on"
      BY <1>1, <1>3, GotoIs DEF Places
    <2> QED BY <1>1, <2>1 DEF PlacesAreApt, AptPlace, Conn
  <1>4. CASE /\ config /\ TurnOff /\ Goto(j, "on")
             /\ UNCHANGED <<state, refs, crossed, tun, config>>
    <2>1. ASSUME crossed' = FALSE PROVE Tame'
      <3>1. Tame BY <1>4, <2>1
      <3>2. handle' = FALSE /\ StatusIsServed' BY <1>4, <3>1, TurnOffServes DEF Tame
      <3> QED BY <1>1, <1>2, <1>4, <3>1, <3>2, AscentTames
    <2> QED BY <1>3, <1>4, <2>1
  <1>5. CASE /\ config /\ ~handle /\ Goto(j, "on")
             /\ UNCHANGED <<state, refs, crossed, handle, config, status>>
    <2>1. ASSUME crossed' = FALSE PROVE Tame'
      <3>1. Tame BY <1>5, <2>1
      <3>2. StatusIsServed' BY <1>5, <3>1 DEF Tame, StatusIsServed, status
      <3> QED BY <1>1, <1>2, <1>5, <3>1, <3>2, AscentTames
    <2> QED BY <1>3, <1>5, <2>1
  <1>6. CASE (~config \/ ~handle) /\ Throw(j) /\ UNCHANGED <<wg, status>>
    <2>1. ASSUME crossed = FALSE PROVE ~handle' /\ StatusIsServed'
      <3>1. Tame BY <2>1
      <3>2. \A k \in 1 .. Len(jobs) : jobs[k].at # "config"
        BY <1>1, <1>2, <3>1 DEF Tame, FieldsNameJobs, PlacesAreApt, AptPlace, Conn
      <3>3. ~handle BY <1>6, <3>1, <3>2 DEF Tame, ConfigIsKnown
      <3> QED BY <1>6, <3>1, <3>3 DEF Tame, StatusIsServed, wg, status
    <2>2. UNCHANGED <<main, config>> BY <1>2, <1>6 DEF wg
    <2> QED BY <1>1, <1>2, <1>6, <2>1, <2>2, ThrowTames
  <1> QED BY <1>4, <1>5, <1>6 DEF ReconnectBegins

\* A backend is started when none runs, with a status job of its own.
LEMMA TurnOnTames ==
  ASSUME Inv, PlacesAreApt, crossed = FALSE => Tame, NEW j, TurnOn(j)
  PROVE  PlacesAreApt' /\ (crossed' = FALSE => Tame')
  <1>1. /\ j \in 1 .. Len(jobs) /\ jobs[j].kind \in {"connect", "reconnect"}
        /\ jobs[j].at = "on"
    BY AtIs DEF TurnOn
  <1>2. UNCHANGED <<main, config>> /\ Conn(jobs[j]) BY <1>1 DEF TurnOn, Conn
  <1>3. CASE /\ handle' = TRUE /\ LaunchStatus /\ UNCHANGED <<state, refs, crossed, tun>>
             /\ Goto(j, IF jobs[j].kind = "connect" THEN "config" ELSE "done")
    <2>1. PICK at \in {"config", "done"} :
            /\ Goto(j, at) /\ at = IF jobs[j].kind = "connect" THEN "config" ELSE "done"
      BY <1>3
    <2>2. at \in Places BY DEF Places
    <2>3. /\ Len(jobs') = Len(jobs)
          /\ \A k \in 1 .. Len(jobs) : k # j => jobs'[k] = jobs[k]
          /\ jobs[j].kind = "connect" => jobs'[j].kind = "connect" /\ jobs'[j].at = "config"
          /\ jobs[j].kind # "connect" => jobs'[j] = Done
      BY <1>1, <2>1, <2>2, GotoIs
    <2>4. /\ ~Quits(jobs[j]) /\ ~Quits(jobs'[j]) /\ jobs'[j].at \in {"config", "done"}
          /\ AptPlace(jobs'[j])
      BY <1>1, <2>3, DoneIsIdle DEF Quits, AptPlace
    <2>5. PlacesAreApt' BY <2>3, <2>4 DEF PlacesAreApt
    <2>6. ASSUME crossed' = FALSE PROVE Tame'
      <3>1. Tame BY <1>3, <2>6
      <3>2. ~handle BY <1>1, <3>1 DEF Tame, StartsFromDown
      <3>3. FieldsNameJobs'
        BY <1>2, <1>3, <2>3, <2>4, <3>1 DEF Tame, FieldsNameJobs, main, refs
      <3>4. ClosingIsServed'
        <4> SUFFICES ASSUME Closing'
                     PROVE  /\ Stopper'
                            /\ \A c \in 1 .. Len(jobs') : Conn(jobs'[c]) =>
                                  \E d \in 1 .. Len(jobs') : Outlives(jobs'[d], c)
          BY DEF ClosingIsServed
        <4>1. Closing BY <1>2, <1>3 DEF Closing, main
        <4>2. PICK d \in 1 .. Len(jobs) : Outlives(jobs[d], j)
          BY <1>1, <1>2, <3>1, <4>1 DEF Tame, ClosingIsServed
        <4>3. d # j /\ jobs'[d] = jobs[d] BY <2>3, <2>4, <4>2 DEF Outlives
        <4>4. Stopper' BY <2>3, <4>2, <4>3 DEF Stopper, Stops, Outlives
        <4>5. \A c \in 1 .. Len(jobs) : Conn(jobs'[c]) => c = j
          BY <1>1, <1>2, <2>3, <3>1 DEF Tame, FieldsNameJobs
        <4> QED BY <2>3, <4>2, <4>3, <4>4, <4>5
      <3>5. GoneIsOver' BY <1>1, <1>2, <3>1 DEF Tame, GoneIsOver, main
      <3>6. StartsFromDown'
        <4>1. \A k \in 1 .. Len(jobs) : k # j => ~Conn(jobs'[k])
          BY <1>1, <1>2, <2>3, <3>1 DEF Tame, FieldsNameJobs
        <4>2. \A k \in 1 .. Len(jobs) : k # j =>
                jobs'[k].at \notin {"init", "on"} /\ jobs'[k].kind # "connect"
          BY <2>3, <2>5, <4>1 DEF PlacesAreApt, AptPlace, Conn
        <4> QED BY <2>3, <2>4, <4>2 DEF StartsFromDown
      <3>7. ConfigIsKnown'
        BY <1>1, <1>2, <2>3, <2>4, <3>1, DoneIsIdle DEF Tame, ConfigIsKnown
      <3>8. StatusIsServed'
        <4> DEFINE new == [at |-> "poll", seen |-> "DISCONNECTED", cancelled |-> FALSE]
        <4>1. new \in Status /\ new.at = "poll" BY DEF Status
        <4>2. statusJobs' = Append(statusJobs, new) /\ statusJob' = Len(statusJobs) + 1
          BY <1>3 DEF LaunchStatus
        <4> HIDE DEF new
        <4>3. /\ Len(statusJobs') = Len(statusJobs) + 1
              /\ \A s \in 1 .. Len(statusJobs) : statusJobs'[s] = statusJobs[s]
              /\ statusJobs'[Len(statusJobs) + 1] = new
          BY <4>1, <4>2, Typed, AppendProperties
        <4> QED BY <1>3, <3>1, <3>2, <4>1, <4>2, <4>3, CrossTyped DEF Tame, StatusIsServed
      <3>9. ConnectedIsServed' BY <1>3 DEF ConnectedIsServed
      <3> QED BY <3>3, <3>4, <3>5, <3>6, <3>7, <3>8, <3>9 DEF Tame
    <2> QED BY <2>5, <2>6
  <1>4. CASE TurnOff /\ tun' = FALSE /\ Throw(j)
    <2>1. crossed = FALSE => ~handle' /\ StatusIsServed'
      BY <1>4, TurnOffServes DEF Tame
    <2> QED BY <1>1, <1>2, <1>4, <2>1, ThrowTames
  <1> QED BY <1>3, <1>4 DEF TurnOn

\* The end of a connection job.
LEMMA ConfigKeptTames ==
  ASSUME Inv, PlacesAreApt, crossed = FALSE => Tame, NEW j, ConfigKept(j)
  PROVE  PlacesAreApt' /\ (crossed' = FALSE => Tame')
  <1>1. /\ j \in 1 .. Len(jobs) /\ jobs[j].kind = "connect" /\ jobs[j].at = "config"
    BY AtIs DEF ConfigKept
  <1>2. /\ UNCHANGED <<state, main, refs, crossed, handle, status>> /\ config' = TRUE
        /\ Goto(j, "done")
    BY DEF ConfigKept
  <1>3. /\ Len(jobs') = Len(jobs) /\ jobs'[j] = Done
        /\ \A k \in 1 .. Len(jobs) : k # j => jobs'[k] = jobs[k]
    BY <1>1, <1>2, GotoIs DEF Places
  <1>4. PlacesAreApt' BY <1>1, <1>3, DoneIsIdle DEF PlacesAreApt
  <1>5. ASSUME crossed' = FALSE PROVE Tame'
    <2>1. Tame BY <1>2, <1>5
    <2>2. ~Quits(jobs[j]) BY <1>1 DEF Quits
    <2>3. Stopper => Stopper' BY <1>3, <2>2 DEF Stopper, Stops
    <2>4. FieldsNameJobs'
      BY <1>2, <1>3, <2>1, DoneIsIdle DEF Tame, FieldsNameJobs, main, refs
    <2>5. ClosingIsServed'
      BY <1>2, <1>3, <2>1, <2>2, <2>3, DoneIsIdle
      DEF Tame, ClosingIsServed, Closing, Outlives, main
    <2>6. GoneIsOver' BY <1>2, <1>3, <2>1, DoneIsIdle DEF Tame, GoneIsOver, main
    <2>7. StartsFromDown' BY <1>2, <1>3, <2>1, <2>3, DoneIsIdle DEF Tame, StartsFromDown
    <2>8. ConfigIsKnown' BY <1>2 DEF ConfigIsKnown
    <2>9. StatusIsServed' BY <1>2, <2>1 DEF Tame, StatusIsServed, status
    <2>10. ConnectedIsServed' BY <1>1, <1>2, <1>3, <2>1 DEF Tame, ConnectedIsServed
    <2> QED BY <2>4, <2>5, <2>6, <2>7, <2>8, <2>9, <2>10 DEF Tame
  <1> QED BY <1>4, <1>5
-----------------------------------------------------------------------------
(* The job that disconnects.                                               *)

\* A disconnection job that begins waits for the one connection job there is.
LEMMA DisconnectBeginsTames ==
  ASSUME Inv, PlacesAreApt, crossed = FALSE => Tame, NEW j, DisconnectBegins(j)
  PROVE  PlacesAreApt' /\ (crossed' = FALSE => Tame')
  <1>1. /\ j \in 1 .. Len(jobs) /\ jobs[j].kind = "disconnect" /\ jobs[j].at = "launched"
        /\ jobs[j] # Done
    BY AtIs DEF DisconnectBegins
  <1>2. UNCHANGED <<state, main, refs, crossed, wg, status>> BY DEF DisconnectBegins
  <1>3. connectionJob # j
    BY <1>1, CrossTyped DEF Inv, RefsAreApt, NoJob
  <1>4. /\ Len(jobs') = Len(jobs)
        /\ \A k \in 1 .. Len(jobs) :
             k # j => jobs'[k] = IF k = connectionJob THEN CancelledJob(jobs[k]) ELSE jobs[k]
        /\ jobs'[j].kind = jobs[j].kind /\ jobs'[j].at = "join"
        /\ jobs'[j].waits = connectionJob /\ jobs'[j].cancelled = jobs[j].cancelled
    <2>1. jobs' = [Cancelled(jobs, connectionJob) EXCEPT
                     ![j] = [@ EXCEPT !.at = "join", !.waits = connectionJob]]
      BY DEF DisconnectBegins
    <2>2. connectionJob \in 0 .. Len(jobs) BY CrossTyped
    <2> QED BY <1>1, <1>3, <2>1, <2>2, BeginsIs, Zenon
  <1>5. jobs[j].cancelled = FALSE BY <1>1 DEF PlacesAreApt, AptPlace
  <1>6. \A k \in 1 .. Len(jobs) : k # j =>
          /\ Quits(jobs'[k]) => Quits(jobs[k])
          /\ Conn(jobs'[k]) => Conn(jobs[k])
          /\ AptPlace(jobs[k]) => AptPlace(jobs'[k])
          /\ jobs[k].at \notin {"launched", "done"} =>
               jobs'[k].at = jobs[k].at /\ jobs'[k].kind = jobs[k].kind
          /\ jobs'[k].at \in {jobs[k].at, "done"}
          /\ jobs'[k].at = "done" \/ jobs'[k].kind = jobs[k].kind
    BY <1>4, CrossTyped, CancelledJobIs
  <1>7. PlacesAreApt' BY <1>1, <1>4, <1>6 DEF PlacesAreApt, AptPlace
  <1>8. ASSUME crossed' = FALSE PROVE Tame'
    <2>1. Tame BY <1>2, <1>8
    <2>2. Quits(jobs[j]) /\ Quits(jobs'[j]) /\ ~Conn(jobs'[j]) /\ Stops(jobs'[j])
      BY <1>1, <1>4, <1>5 DEF Quits, Conn, Stops
    <2>3. FieldsNameJobs'
      BY <1>2, <1>4, <1>6, <2>1, <2>2 DEF Tame, FieldsNameJobs, main, refs
    <2>4. Stopper' BY <1>1, <1>4, <2>2 DEF Stopper
    <2>5. \A c \in 1 .. Len(jobs') : Conn(jobs'[c]) => Outlives(jobs'[j], c)
      BY <1>2, <1>4, <2>2, <2>3 DEF FieldsNameJobs, Outlives, refs
    <2>6. ClosingIsServed' BY <1>1, <1>4, <2>4, <2>5 DEF ClosingIsServed
    <2>7. GoneIsOver' BY <1>1, <1>2, <2>1, <2>2 DEF Tame, GoneIsOver, main
    <2>8. StartsFromDown'
      BY <1>1, <1>2, <1>4, <1>6, <2>1, <2>4 DEF Tame, StartsFromDown, wg
    <2>9. ConfigIsKnown' BY <1>1, <1>2, <1>4, <1>6, <2>1 DEF Tame, ConfigIsKnown, wg
    <2>10. StatusIsServed' BY <1>2, <2>1 DEF Tame, StatusIsServed, wg, status
    <2>11. ConnectedIsServed' BY <1>1, <1>2, <1>4, <1>6, <2>1 DEF Tame, ConnectedIsServed, wg
    <2> QED BY <2>3, <2>6, <2>7, <2>8, <2>9, <2>10, <2>11 DEF Tame
  <1> QED BY <1>7, <1>8

\* A disconnection job that goes on to stop the backend leaves no connection job
\* behind it.
LEMMA DisconnectJoinedTames ==
  ASSUME Inv, PlacesAreApt, crossed = FALSE => Tame, NEW j, DisconnectJoined(j)
  PROVE  PlacesAreApt' /\ (crossed' = FALSE => Tame')
  <1>1. /\ j \in 1 .. Len(jobs) /\ jobs[j].kind = "disconnect" /\ jobs[j].at = "join"
    BY AtIs DEF DisconnectJoined
  <1>2. UNCHANGED <<state, main, disconnectionJob, wg, status>> BY DEF DisconnectJoined
  <1>3. CASE jobs[j].cancelled /\ Goto(j, "done") /\ UNCHANGED <<connectionJob, crossed>>
    <2>1. /\ Len(jobs') = Len(jobs) /\ jobs'[j] = Done
          /\ \A k \in 1 .. Len(jobs) : k # j => jobs'[k] = jobs[k]
      BY <1>1, <1>3, GotoIs DEF Places
    <2>2. PlacesAreApt' BY <1>1, <2>1, DoneIsIdle DEF PlacesAreApt
    <2>3. ASSUME crossed' = FALSE PROVE Tame'
      <3>1. Tame BY <1>3, <2>3
      <3>2. ~Quits(jobs[j]) BY <1>3 DEF Quits
      <3>3. Stopper => Stopper' BY <2>1, <3>2 DEF Stopper, Stops
      <3>4. FieldsNameJobs'
        BY <1>2, <1>3, <2>1, <3>1, DoneIsIdle DEF Tame, FieldsNameJobs, main
      <3>5. ClosingIsServed'
        BY <1>2, <2>1, <3>1, <3>2, <3>3, DoneIsIdle
        DEF Tame, ClosingIsServed, Closing, Outlives, main, wg
      <3>6. GoneIsOver' BY <1>2, <2>1, <3>1, DoneIsIdle DEF Tame, GoneIsOver, main, wg
      <3>7. StartsFromDown' BY <1>2, <2>1, <3>1, <3>3, DoneIsIdle DEF Tame, StartsFromDown, wg
      <3>8. ConfigIsKnown' BY <1>1, <1>2, <2>1, <3>1, DoneIsIdle DEF Tame, ConfigIsKnown, wg
      <3>9. StatusIsServed' BY <1>2, <3>1 DEF Tame, StatusIsServed, wg, status
      <3>10. ConnectedIsServed' BY <1>1, <1>2, <2>1, <3>1 DEF Tame, ConnectedIsServed, wg
      <3> QED BY <3>4, <3>5, <3>6, <3>7, <3>8, <3>9, <3>10 DEF Tame
    <2> QED BY <2>2, <2>3
  <1>4. CASE Goto(j, "stop") /\ connectionJob' = NoJob /\ Forget(connectionJob)
    <2>1. /\ Len(jobs') = Len(jobs)
          /\ \A k \in 1 .. Len(jobs) : k # j => jobs'[k] = jobs[k]
          /\ jobs'[j].kind = "disconnect" /\ jobs'[j].at = "stop"
          /\ jobs'[j].cancelled = jobs[j].cancelled
      BY <1>1, <1>4, GotoIs DEF Places
    <2>2. PlacesAreApt' BY <1>1, <2>1 DEF PlacesAreApt, AptPlace
    <2>3. ASSUME crossed' = FALSE PROVE Tame'
      <3>1. Tame /\ IsOver(connectionJob) BY <1>4, <2>3, CrossTyped DEF Forget
      <3>2. \A k \in 1 .. Len(jobs) : ~Conn(jobs[k]) BY <3>1, NoneUnderWay DEF Tame
      <3>3. \A k \in 1 .. Len(jobs) : /\ ~Conn(jobs'[k])
                                      /\ Quits(jobs'[k]) <=> Quits(jobs[k])
                                      /\ Stops(jobs'[k]) <=> Stops(jobs[k])
        BY <1>1, <2>1, <3>2 DEF Conn, Quits, Stops
      <3>4. Stopper' <=> Stopper BY <2>1, <3>3 DEF Stopper
      <3>5. FieldsNameJobs' BY <1>2, <2>1, <3>1, <3>3 DEF Tame, FieldsNameJobs, main
      <3>6. ClosingIsServed'
        BY <1>2, <2>1, <3>1, <3>3, <3>4 DEF Tame, ClosingIsServed, Closing, main, wg
      <3>7. GoneIsOver' BY <1>2, <2>1, <3>1, <3>3 DEF Tame, GoneIsOver, main, wg
      <3>8. StartsFromDown' BY <1>1, <1>2, <2>1, <3>1, <3>4 DEF Tame, StartsFromDown, wg
      <3>9. ConfigIsKnown' BY <1>1, <1>2, <2>1, <3>1 DEF Tame, ConfigIsKnown, wg
      <3>10. StatusIsServed' BY <1>2, <3>1 DEF Tame, StatusIsServed, wg, status
      <3>11. ConnectedIsServed' BY <1>1, <1>2, <2>1, <3>1 DEF Tame, ConnectedIsServed, wg
      <3> QED BY <3>5, <3>6, <3>7, <3>8, <3>9, <3>10, <3>11 DEF Tame
    <2> QED BY <2>2, <2>3
  <1> QED BY <1>3, <1>4 DEF DisconnectJoined

\* stopVpn stops the backend and cancels its status job.
LEMMA StopVpnTames ==
  ASSUME Inv, PlacesAreApt, crossed = FALSE => Tame, NEW j, StopVpn(j)
  PROVE  PlacesAreApt' /\ (crossed' = FALSE => Tame')
  <1>1. /\ j \in 1 .. Len(jobs) /\ jobs[j].kind = "disconnect" /\ jobs[j].at = "stop"
    BY AtIs DEF StopVpn
  <1>2. /\ UNCHANGED <<state, main, refs, crossed, config>>
        /\ \/ handle /\ TurnOff /\ Goto(j, "tell")
           \/ ~handle /\ Goto(j, "wait") /\ UNCHANGED <<handle, status>>
    BY DEF StopVpn
  <1>3. PICK at \in {"tell", "wait"} : Goto(j, at) /\ (at = "wait" => ~handle) BY <1>2
  <1>4. /\ Len(jobs') = Len(jobs)
        /\ \A k \in 1 .. Len(jobs) : k # j => jobs'[k] = jobs[k]
        /\ jobs'[j].kind = "disconnect" /\ jobs'[j].at = at
        /\ jobs'[j].cancelled = jobs[j].cancelled
    BY <1>1, <1>3, GotoIs DEF Places
  <1>5. PlacesAreApt' BY <1>1, <1>4 DEF PlacesAreApt, AptPlace
  <1>6. ASSUME crossed' = FALSE PROVE Tame'
    <2>1. Tame BY <1>2, <1>6
    <2>2. ~handle' /\ StatusIsServed'
      <3>1. CASE TurnOff BY <2>1, <3>1, TurnOffServes DEF Tame
      <3>2. CASE ~handle /\ UNCHANGED <<handle, status>>
        BY <2>1, <3>2 DEF Tame, StatusIsServed, status
      <3> QED BY <1>2, <3>1, <3>2
    <2>3. \A k \in 1 .. Len(jobs) : /\ Conn(jobs'[k]) <=> Conn(jobs[k])
                                    /\ Quits(jobs'[k]) <=> Quits(jobs[k])
                                    /\ \A c \in 1 .. Len(jobs) :
                                         Outlives(jobs[k], c) => Outlives(jobs'[k], c)
      BY <1>1, <1>4 DEF Conn, Quits, Outlives
    <2>4. FieldsNameJobs' BY <1>2, <1>4, <2>1, <2>3 DEF Tame, FieldsNameJobs, main, refs
    <2>5. ClosingIsServed'
      BY <1>2, <1>4, <2>1, <2>2, <2>3 DEF Tame, ClosingIsServed, Closing, main
    <2>6. GoneIsOver' BY <1>2, <1>4, <2>1, <2>2, <2>3 DEF Tame, GoneIsOver, main
    <2>7. StartsFromDown' BY <2>2 DEF StartsFromDown
    <2>8. ConfigIsKnown' BY <1>1, <1>2, <1>4, <2>1, <2>2 DEF Tame, ConfigIsKnown
    <2>9. ConnectedIsServed'
      BY <1>1, <1>2, <1>3, <1>4, <2>1 DEF Tame, ConnectedIsServed
    <2> QED BY <2>2, <2>4, <2>5, <2>6, <2>7, <2>8, <2>9 DEF Tame
  <1> QED BY <1>5, <1>6

\* A disconnection job past stopVpn: what it says was already under way, and the
\* service is only asked to stop.
LEMMA StopEndsTames ==
  ASSUME Inv, PlacesAreApt, crossed = FALSE => Tame, NEW j, StopTold(j) \/ DisconnectDone(j)
  PROVE  PlacesAreApt' /\ (crossed' = FALSE => Tame')
  <1>1. PICK from \in {"tell", "wait"} : At(j, {"disconnect"}, from)
    BY DEF StopTold, DisconnectDone
  <1>2. j \in 1 .. Len(jobs) /\ jobs[j].kind = "disconnect" /\ jobs[j].at = from
    BY <1>1, AtIs
  <1>3. /\ UNCHANGED <<joining, refs, wg, status>>
        /\ service' = service \/ (service' = "stopping" /\ service = "running")
    BY DEF StopTold, DisconnectDone, StopService, main
  <1>4. PICK at \in {"wait", "done"} : Goto(j, at) BY DEF StopTold, DisconnectDone
  <1>5. /\ Len(jobs') = Len(jobs)
        /\ \A k \in 1 .. Len(jobs) : k # j => jobs'[k] = jobs[k]
        /\ at = "done" => jobs'[j] = Done
        /\ at = "wait" => /\ jobs'[j].kind = "disconnect" /\ jobs'[j].at = "wait"
                          /\ jobs'[j].cancelled = jobs[j].cancelled
    BY <1>2, <1>4, GotoIs DEF Places
  <1>6. /\ AptPlace(jobs'[j]) /\ jobs'[j].at \in {"wait", "done"} /\ ~Conn(jobs'[j])
        /\ Quits(jobs'[j]) => Quits(jobs[j])
    BY <1>2, <1>5, DoneIsIdle DEF AptPlace, Conn, Quits
  <1>7. PlacesAreApt' BY <1>5, <1>6 DEF PlacesAreApt
  <1>8. ASSUME crossed' = FALSE PROVE Tame'
    <2>1. /\ Tame
          /\ state' = state \/ (state = "DISCONNECTING" /\ state' = "DISCONNECTED")
          /\ from = "tell" => state' = "DISCONNECTED"
      <3>1. CASE StopTold(j)
        BY <1>8, <3>1, CrossTyped DEF StopTold, Set
      <3>2. CASE DisconnectDone(j)
        BY <1>2, <1>8, <3>2, CrossTyped DEF DisconnectDone, At
      <3> QED BY <3>1, <3>2
    <2>2. \A k \in 1 .. Len(jobs) : /\ Conn(jobs'[k]) => Conn(jobs[k])
                                    /\ Quits(jobs'[k]) => Quits(jobs[k])
                                    /\ Stops(jobs[k]) => Stops(jobs'[k])
                                    /\ \A c \in 1 .. Len(jobs) :
                                         Outlives(jobs[k], c) => Outlives(jobs'[k], c)
      BY <1>2, <1>5, <1>6 DEF Stops, Outlives
    <2>3. Stopper => Stopper' BY <1>5, <2>2 DEF Stopper
    <2>4. FieldsNameJobs' BY <1>3, <1>5, <2>1, <2>2 DEF Tame, FieldsNameJobs, refs
    <2>5. ClosingIsServed'
      BY <1>3, <1>5, <2>1, <2>2, <2>3 DEF Tame, ClosingIsServed, Closing, wg
    <2>6. GoneIsOver' BY <1>3, <1>5, <2>1, <2>2 DEF Tame, GoneIsOver, wg
    <2>7. StartsFromDown' BY <1>3, <1>5, <1>6, <2>1, <2>3 DEF Tame, StartsFromDown, wg
    <2>8. ConfigIsKnown' BY <1>2, <1>3, <1>5, <1>6, <2>1 DEF Tame, ConfigIsKnown, wg
    <2>9. StatusIsServed' BY <1>3, <2>1 DEF Tame, StatusIsServed, wg, status
    <2>10. ConnectedIsServed' BY <1>2, <1>3, <1>5, <2>1 DEF Tame, ConnectedIsServed, wg
    <2> QED BY <2>4, <2>5, <2>6, <2>7, <2>8, <2>9, <2>10 DEF Tame
  <1> QED BY <1>7, <1>8
-----------------------------------------------------------------------------
(* The status jobs.                                                        *)

\* A status job that is not cancelled belongs to the backend that runs, so what
\* it writes is CONNECTED, and true.
LEMMA StatusStepTames ==
  ASSUME Inv, PlacesAreApt, crossed = FALSE => Tame, NEW s, StatusStep(s)
  PROVE  PlacesAreApt' /\ (crossed' = FALSE => Tame')
  <1>1. UNCHANGED <<main, jobs, refs, wg>> /\ s \in DOMAIN statusJobs
    BY DEF StatusStep, StatusStops, StatusPolls, StatusQueries, StatusWrites, StatusEnds,
           StatusAt, jobVars
  <1>2. statusJobs \in Seq(Status) /\ s \in 1 .. Len(statusJobs) /\ statusJobs[s] \in Status
    <2>1. statusJobs \in Seq(Status) /\ s \in 1 .. Len(statusJobs) BY <1>1, Typed
    <2> QED BY <2>1, CrossTyped
  <1>3. PlacesAreApt' BY <1>1 DEF PlacesAreApt
  <1>4. ASSUME crossed' = FALSE PROVE Tame'
    <2>1. crossed = FALSE
      BY <1>4, CrossTyped
      DEF StatusStep, StatusStops, StatusPolls, StatusQueries, StatusWrites, StatusEnds, jobVars
    <2>2. Tame BY <2>1
    <2>3. /\ Over \in Status /\ Over.at = "done"
          /\ \A at \in {"poll", "query", "write", "clear"}, seen \in {"CONNECTED", "DISCONNECTED"} :
               LET a == [statusJobs[s] EXCEPT !.at = at]
                   b == [statusJobs[s] EXCEPT !.at = at, !.seen = seen]
               IN  /\ a \in Status /\ a.at = at /\ a.cancelled = statusJobs[s].cancelled
                   /\ b \in Status /\ b.at = at /\ b.seen = seen
                   /\ b.cancelled = statusJobs[s].cancelled
      BY <1>2 DEF Status, Over
    <2>4. ASSUME NEW b \in Status, statusJobs' = [statusJobs EXCEPT ![s] = b]
          PROVE  /\ Len(statusJobs') = Len(statusJobs) /\ statusJobs'[s] = b
                 /\ \A t \in 1 .. Len(statusJobs) : t # s => statusJobs'[t] = statusJobs[t]
      BY <1>2, <2>4, ExceptSeq
    <2>5. /\ StatusIsServed'
          /\ state' = state \/ (state' = "CONNECTED" /\ handle)
      <3>1. CASE StatusStops(s)
        <4>1. statusJobs' = [statusJobs EXCEPT ![s] = Over] /\ UNCHANGED <<state, statusJob, wg>>
          BY <3>1 DEF StatusStops
        <4> QED BY <2>2, <2>3, <2>4, <4>1 DEF Tame, StatusIsServed, wg
      <3>2. CASE StatusPolls(s)
        <4>1. /\ UNCHANGED <<state, statusJob, wg>> /\ statusJobs[s].at = "poll"
              /\ \/ statusJobs' = [statusJobs EXCEPT ![s] = [@ EXCEPT !.at = "query"]]
                 \/ /\ statusJobs' = [statusJobs EXCEPT ![s] =
                                        [@ EXCEPT !.at = "write", !.seen = "DISCONNECTED"]]
                    /\ ~handle
          BY <3>2 DEF StatusPolls, StatusAt
        <4>2. PICK b \in Status :
                /\ statusJobs' = [statusJobs EXCEPT ![s] = b]
                /\ b.cancelled = statusJobs[s].cancelled
                /\ b.at = "query" \/ (b.at = "write" /\ ~handle)
          BY <2>3, <4>1
        <4>3. /\ Len(statusJobs') = Len(statusJobs) /\ statusJobs'[s] = b
              /\ \A t \in 1 .. Len(statusJobs) : t # s => statusJobs'[t] = statusJobs[t]
          BY <2>4, <4>2
        <4>4. statusJobs[s] # Over /\ b.cancelled \in BOOLEAN BY <2>3, <4>1 DEF Status
        <4> QED BY <1>2, <2>2, <4>1, <4>2, <4>3, <4>4 DEF Tame, StatusIsServed, wg
      <3>3. CASE StatusQueries(s)
        <4>1. /\ UNCHANGED <<state, statusJob, wg>> /\ statusJobs[s].at = "query"
              /\ \/ statusJobs' = [statusJobs EXCEPT ![s] =
                                     [@ EXCEPT !.at = "write", !.seen = "CONNECTED"]]
                 \/ statusJobs' = [statusJobs EXCEPT ![s] = [@ EXCEPT !.at = "poll"]]
          BY <3>3 DEF StatusQueries, StatusAt
        <4>2. PICK b \in Status :
                /\ statusJobs' = [statusJobs EXCEPT ![s] = b]
                /\ b.cancelled = statusJobs[s].cancelled
                /\ b.at = "poll" \/ (b.at = "write" /\ b.seen = "CONNECTED")
          BY <2>3, <4>1
        <4>3. /\ Len(statusJobs') = Len(statusJobs) /\ statusJobs'[s] = b
              /\ \A t \in 1 .. Len(statusJobs) : t # s => statusJobs'[t] = statusJobs[t]
          BY <2>4, <4>2
        <4>4. statusJobs[s] # Over BY <2>3, <4>1
        <4> QED BY <1>2, <2>2, <4>1, <4>2, <4>3, <4>4 DEF Tame, StatusIsServed, wg
      <3>4. CASE StatusWrites(s)
        <4>1. /\ UNCHANGED <<statusJob, wg>> /\ statusJobs[s].at = "write"
              /\ statusJobs' = [statusJobs EXCEPT ![s] = [@ EXCEPT !.at = "clear"]]
              /\ state' = statusJobs[s].seen /\ ~statusJobs[s].cancelled
          BY <1>4, <3>4 DEF StatusWrites, StatusAt, Set
        <4>2. PICK b \in Status :
                /\ statusJobs' = [statusJobs EXCEPT ![s] = b]
                /\ b.cancelled = statusJobs[s].cancelled /\ b.at = "clear"
          BY <2>3, <4>1
        <4>3. /\ Len(statusJobs') = Len(statusJobs) /\ statusJobs'[s] = b
              /\ \A t \in 1 .. Len(statusJobs) : t # s => statusJobs'[t] = statusJobs[t]
          BY <2>4, <4>2
        <4>4. /\ statusJobs[s] # Over /\ statusJobs[s].cancelled = FALSE
              /\ statusJobs[s].seen \in {"CONNECTED", "DISCONNECTED"}
          BY <1>2, <2>3, <4>1 DEF Status
        <4> QED BY <1>2, <2>2, <4>1, <4>2, <4>3, <4>4 DEF Tame, StatusIsServed, wg
      <3>5. CASE StatusEnds(s)
        <4>1. /\ UNCHANGED <<state, wg>> /\ statusJobs' = [statusJobs EXCEPT ![s] = Over]
              /\ statusJob \in {s, 0} \/ statusJobs[statusJob] = Over
          BY <1>4, <3>5 DEF StatusEnds, NoJob
        <4> QED BY <2>2, <2>3, <2>4, <4>1 DEF Tame, StatusIsServed, wg
      <3> QED BY <3>1, <3>2, <3>3, <3>4, <3>5 DEF StatusStep
    <2>6. FieldsNameJobs' /\ GoneIsOver' /\ ConfigIsKnown'
      BY <1>1, <2>2 DEF Tame, FieldsNameJobs, GoneIsOver, ConfigIsKnown, main, refs, wg
    <2>7. Stopper' <=> Stopper BY <1>1 DEF Stopper
    <2>8. StartsFromDown' BY <1>1, <2>2, <2>7 DEF Tame, StartsFromDown, wg
    <2>9. Closing' => Closing BY <1>1, <2>5 DEF Closing, main
    <2>10. ClosingIsServed' BY <1>1, <2>2, <2>7, <2>9 DEF Tame, ClosingIsServed, wg
    <2>11. ConnectedIsServed' BY <1>1, <2>2, <2>5 DEF Tame, ConnectedIsServed, wg
    <2> QED BY <2>5, <2>6, <2>8, <2>10, <2>11 DEF Tame
  <1> QED BY <1>3, <1>4

-----------------------------------------------------------------------------
(* The theorems.                                                           *)

\* A service that has just been created satisfies the invariant.
LEMMA InitCross == Init => CrossInv
  <1> SUFFICES ASSUME Init PROVE CrossInv
    OBVIOUS
  <1>1. Inv BY InitInv
  <1>2. /\ jobs = <<>> /\ statusJobs = <<>> /\ handle = FALSE /\ state = "UNKNOWN"
        /\ service = "running"
    BY DEF Init
  <1>3. Len(jobs) = 0 /\ Len(statusJobs) = 0 BY <1>2
  <1>4. PlacesAreApt /\ Tame
    BY <1>2, <1>3
    DEF PlacesAreApt, Tame, FieldsNameJobs, ClosingIsServed, GoneIsOver,
        StartsFromDown, ConfigIsKnown, StatusIsServed, ConnectedIsServed
  <1> QED BY <1>1, <1>4 DEF CrossInv

\* Every step keeps it.
LEMMA NextCross == CrossInv /\ [Next]_vars => CrossInv'
  <1> SUFFICES ASSUME CrossInv, [Next]_vars PROVE CrossInv'
    OBVIOUS
  <1>1. Inv /\ PlacesAreApt /\ (crossed = FALSE => Tame) BY DEF CrossInv
  <1>2. Inv' BY <1>1, NextKeeps
  <1>3. PlacesAreApt' /\ (crossed' = FALSE => Tame')
    <2>1. CASE Requests
      BY <1>1, <2>1, ConnectTames, DisconnectTames, ReconnectTames, MainTames DEF Requests
    <2>2. CASE MainStep BY <1>1, <2>2, MainTames, DestroyTames, DestroyedTames DEF MainStep
    <2>3. CASE Kill BY <2>3, KillTames
    <2>4. CASE \E j \in JobIds : JobStep(j)
      <3>1. PICK j \in JobIds : JobStep(j) BY <2>4
      <3> QED BY <1>1, <3>1, ConnectBeginsTames, ConnectJoinedTames, InitializeTames,
                 TurnOnTames, ConfigKeptTames, ReconnectBeginsTames, DisconnectBeginsTames,
                 DisconnectJoinedTames, StopVpnTames, StopEndsTames
              DEF JobStep
    <2>5. CASE \E s \in StatusIds : StatusStep(s) BY <1>1, <2>5, StatusStepTames
    <2>6. CASE UNCHANGED vars
      <3>1. UNCHANGED <<state, main, jobVars, wg, status>> BY <2>6 DEF vars
      <3> QED BY <1>1, <3>1
              DEF PlacesAreApt, Tame, FieldsNameJobs, ClosingIsServed, Closing, Stopper,
                  GoneIsOver, StartsFromDown, ConfigIsKnown, StatusIsServed,
                  ConnectedIsServed, main, jobVars, refs, wg, status
    <2> QED BY <2>1, <2>2, <2>3, <2>4, <2>5, <2>6 DEF Next
  <1> QED BY <1>2, <1>3 DEF CrossInv

\* What is lost, is lost by starts that crossed.
LossIsCrossing == lost => crossed

\* While no requests crossed, the connection job that opens an interface or
\* starts a backend is the only one, so that none is there yet.
LEMMA StartLosesNothing ==
  ASSUME CrossInv, crossed = FALSE, NEW j \in 1 .. Len(jobs), Conn(jobs[j])
  PROVE  /\ jobs[j].at # "on" /\ ~handle => ~tun
         /\ jobs[j].at = "on" => ~handle
  <1>1. Tame /\ Inv /\ PlacesAreApt BY DEF CrossInv
  <1>2. OnExists => jobs[j].at = "on"
    <2> SUFFICES ASSUME NEW k \in 1 .. Len(jobs), jobs[k].at = "on" PROVE jobs[j].at = "on"
      BY DEF OnExists
    <2>1. Conn(jobs[k]) BY <1>1 DEF PlacesAreApt, AptPlace
    <2>2. k = connectionJob /\ j = connectionJob BY <1>1, <2>1 DEF Tame, FieldsNameJobs
    <2> QED BY <2>2
  <1> QED BY <1>1, <1>2 DEF Tame, StartsFromDown, Inv, TunIsServed

\* Every step keeps this too: what crossed is forgotten only at rest, when
\* nothing is lost.
LEMMA NextLoses == CrossInv /\ LossIsCrossing /\ [Next]_vars => LossIsCrossing'
  <1> SUFFICES ASSUME CrossInv, LossIsCrossing, [Next]_vars, lost', ~crossed' PROVE FALSE
    BY DEF LossIsCrossing
  <1>1. lost \in BOOLEAN /\ crossed \in BOOLEAN /\ Inv BY Typed DEF CrossInv
  <1>2. CASE lost' = lost
    <2>1. crossed BY <1>1, <1>2 DEF LossIsCrossing
    <2>2. CASE Requests
      <3>1. UNCHANGED crossed \/ \E c \in BOOLEAN : Request(c)
        BY <2>2 DEF Requests, Connect, Disconnect, Reconnect, Bind, Unbind, jobVars, IsOver
      <3> QED BY <1>1, <1>2, <2>1, <3>1 DEF Request, AtRest
    <2>3. CASE MainStep
      <3>1. UNCHANGED crossed \/ \E c \in BOOLEAN : Request(c)
        BY <2>3 DEF MainStep, Collect, React, Destroy, Destroyed, jobVars, IsOver
      <3> QED BY <1>1, <1>2, <2>1, <3>1 DEF Request, AtRest
    <2>4. CASE Kill BY <2>4 DEF Kill
    <2>5. CASE \E j \in JobIds : JobStep(j)
      BY <2>1, <2>5
      DEF JobStep, ConnectBegins, ConnectJoined, Initialize, TurnOn, ConfigKept,
          ReconnectBegins, DisconnectBegins, DisconnectJoined, StopVpn, StopTold,
          DisconnectDone, Forget, Throw
    <2>6. CASE \E s \in StatusIds : StatusStep(s)
      BY <2>1, <2>6
      DEF StatusStep, StatusStops, StatusPolls, StatusQueries, StatusWrites, StatusEnds, jobVars
    <2>7. CASE UNCHANGED vars BY <2>1, <2>7 DEF vars, jobVars
    <2> QED BY <2>2, <2>3, <2>4, <2>5, <2>6, <2>7 DEF Next
  <1>3. CASE lost' # lost
    <2>1. PICK j \in JobIds : Initialize(j) \/ ReconnectBegins(j) \/ TurnOn(j)
      <3>1. ~Requests
        BY <1>3 DEF Requests, Connect, Disconnect, Reconnect, Bind, Unbind, wg
      <3>2. ~MainStep /\ ~Kill
        BY <1>3 DEF MainStep, Collect, React, Destroy, Destroyed, Kill, wg
      <3>3. ~\E s \in StatusIds : StatusStep(s)
        BY <1>3
        DEF StatusStep, StatusStops, StatusPolls, StatusQueries, StatusWrites, StatusEnds, wg
      <3>4. ~UNCHANGED vars BY <1>3 DEF vars, wg
      <3>5. PICK j \in JobIds : JobStep(j) BY <3>1, <3>2, <3>3, <3>4 DEF Next
      <3> QED BY <1>3, <3>5
              DEF JobStep, ConnectBegins, ConnectJoined, ConfigKept, DisconnectBegins,
                  DisconnectJoined, StopVpn, StopTold, DisconnectDone, wg
    <2>2. crossed = FALSE
      BY <1>1, <2>1 DEF Initialize, ReconnectBegins, TurnOn, Throw
    <2>3. CASE Initialize(j)
      <3>1. j \in 1 .. Len(jobs) /\ Conn(jobs[j]) /\ jobs[j].at = "init"
        BY <1>1, <2>3, AtIs DEF Initialize, Conn
      <3>2. ~handle /\ lost' = (lost \/ tun) BY <1>3, <2>3 DEF Initialize, Establish
      <3> QED BY <1>1, <1>3, <2>2, <3>1, <3>2, StartLosesNothing
    <2>4. CASE ReconnectBegins(j)
      <3>1. j \in 1 .. Len(jobs) /\ Conn(jobs[j]) /\ jobs[j].at = "launched"
        BY <1>1, <2>4, AtIs DEF ReconnectBegins, Conn
      <3>2. ~handle /\ lost' = (lost \/ tun) BY <1>3, <2>4 DEF ReconnectBegins, Establish, wg
      <3> QED BY <1>1, <1>3, <2>2, <3>1, <3>2, StartLosesNothing
    <2>5. CASE TurnOn(j)
      <3>1. j \in 1 .. Len(jobs) /\ Conn(jobs[j]) /\ jobs[j].at = "on"
        BY <1>1, <2>5, AtIs DEF TurnOn, Conn
      <3>2. lost' = (lost \/ handle) BY <2>5 DEF TurnOn
      <3> QED BY <1>1, <1>3, <2>2, <3>1, <3>2, StartLosesNothing
    <2> QED BY <2>1, <2>3, <2>4, <2>5
  <1> QED BY <1>2, <1>3

\* The invariant holds in every state of the service.
LEMMA CrossHolds == Spec => [](CrossInv /\ LossIsCrossing)
  <1>1. Init => LossIsCrossing BY DEF Init, LossIsCrossing
  <1> QED BY <1>1, InitCross, NextCross, NextLoses, PTL DEF Spec

\* When the jobs have ended, none of them is anywhere.
LEMMA QuietIs ==
  ASSUME CrossInv, Quiet, ~crossed
  PROVE  /\ Tame /\ ~Stopper /\ \A k \in 1 .. Len(jobs) : jobs[k].at = "done"
  <1>1. Inv /\ crossed = FALSE BY CrossTyped DEF CrossInv
  <1>2. DOMAIN jobs = 1 .. Len(jobs) BY <1>1, LenProperties DEF Inv, TypeOK
  <1>3. \A k \in 1 .. Len(jobs) : jobs[k] = Done BY <1>2 DEF Quiet
  <1> QED BY <1>1, <1>3, DoneIsIdle DEF CrossInv, Stopper, Stops

\* onDestroy leaves no tunnel behind, whatever job it met: the disconnection it
\* waits for outlives every connection job and stops the backend, and no job
\* that would start another is left.
THEOREM AndroidNoTunnelLeft == Spec => []NoTunnelLeft
  <1>1. CrossInv => NoTunnelLeft
    <2> SUFFICES ASSUME CrossInv, service = "gone", Quiet, ~crossed PROVE ~handle /\ ~tun
      BY DEF NoTunnelLeft
    <2>1. Tame /\ \A k \in 1 .. Len(jobs) : jobs[k].at = "done" BY QuietIs
    <2>2. ~handle BY <2>1 DEF Tame, GoneIsOver
    <2>3. ~OnExists BY <2>1 DEF OnExists
    <2> QED BY <2>2, <2>3 DEF CrossInv, Inv, TunIsServed
  <1> QED BY <1>1, CrossHolds, PTL

\* The service that says CONNECTED has a backend: only the status job of the
\* running backend says so, and the backend is stopped by a job that corrects it.
THEOREM AndroidConnectedIsReal == Spec => []ConnectedIsReal
  <1>1. CrossInv => ConnectedIsReal
    <2> SUFFICES ASSUME CrossInv, Quiet, state = "CONNECTED", ~crossed PROVE handle
      BY DEF ConnectedIsReal
    <2>1. Tame /\ \A k \in 1 .. Len(jobs) : jobs[k].at = "done" BY QuietIs
    <2> QED BY <2>1 DEF Tame, ConnectedIsServed
  <1> QED BY <1>1, CrossHolds, PTL

\* The service that says DISCONNECTED has no backend: a failed request, an
\* exception and stopVpn say so when none runs or one is about to be stopped.
THEOREM AndroidDisconnectedIsDown == Spec => []DisconnectedIsDown
  <1>1. CrossInv => DisconnectedIsDown
    <2> SUFFICES ASSUME CrossInv, Quiet, state = "DISCONNECTED", ~crossed PROVE ~handle
      BY DEF DisconnectedIsDown
    <2>1. Tame /\ ~Stopper BY QuietIs
    <2> QED BY <2>1 DEF Tame, ClosingIsServed, Closing
  <1> QED BY <1>1, CrossHolds, PTL

\* No interface is left open without a backend, and no descriptor or backend in
\* use is overwritten, unless requests crossed since the service was at rest.
THEOREM AndroidNoLeak == Spec => []NoLeak
  <1>1. CrossInv /\ LossIsCrossing => NoLeak
    <2> SUFFICES ASSUME CrossInv, LossIsCrossing PROVE NoLeak
      OBVIOUS
    <2>1. tun /\ Quiet => handle BY QuietIsServed DEF CrossInv
    <2> QED BY <2>1 DEF NoLeak, LossIsCrossing
  <1> QED BY <1>1, CrossHolds, PTL
=============================================================================
