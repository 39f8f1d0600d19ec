------------------------ MODULE AndroidServiceProofs ------------------------
(***************************************************************************)
(* For any number of requests: the jobs of the service never wait for each *)
(* other in a circle, and no disconnection is left hanging.                *)
(***************************************************************************)
EXTENDS AndroidService, SequenceTheorems, TLAPS

\* What cancelling makes of a job.
CancelledJob(a) ==
  IF a = Done THEN a
  ELSE IF a.at = "launched" THEN Done
  ELSE [a EXCEPT !.cancelled = TRUE]

\* The jobs after a step in which job j becomes b and others may be cancelled.
Moves(j, b) ==
  /\ jobs' \in Seq(Job) /\ Len(jobs') = Len(jobs)
  /\ jobs'[j] = b
  /\ \A k \in 1 .. Len(jobs) \ {j} : jobs'[k] \in {jobs[k], CancelledJob(jobs[k])}

\* The jobs after a step that launches job b.
Grows(b) ==
  /\ jobs' \in Seq(Job) /\ Len(jobs') = Len(jobs) + 1
  /\ jobs'[Len(jobs) + 1] = b
  /\ \A k \in 1 .. Len(jobs) : jobs'[k] = jobs[k]

NewJob(kind) == [kind |-> kind, at |-> "launched", waits |-> NoJob, cancelled |-> FALSE]

MovedJob(a, at) ==
  IF at = "done" THEN Done ELSE [a EXCEPT !.at = at, !.waits = NoJob]

Places == {"launched", "join", "init", "on", "config", "stop", "tell", "wait", "done"}

-----------------------------------------------------------------------------
(* What the helpers do to the jobs.                                        *)

\* A cancelled job is a job.
LEMMA CancelledJobIsJob ==
  ASSUME NEW a \in Job PROVE CancelledJob(a) \in Job
  BY DEF CancelledJob, Job, Done, NoJob

\* A job that goes on is a job.
LEMMA MovedJobIsJob ==
  ASSUME NEW a \in Job, NEW at \in Places PROVE MovedJob(a, at) \in Job
  BY DEF MovedJob, Job, Done, NoJob, Places

\* Cancelling changes the cancelled job only.
LEMMA CancelledIs ==
  ASSUME NEW js \in Seq(Job), NEW j \in 0 .. Len(js)
  PROVE  /\ Cancelled(js, j) \in Seq(Job) /\ Len(Cancelled(js, j)) = Len(js)
         /\ \A k \in 1 .. Len(js) :
              Cancelled(js, j)[k] = IF k = j THEN CancelledJob(js[k]) ELSE js[k]
  <1>1. CASE j = NoJob BY <1>1 DEF Cancelled, NoJob
  <1>2. CASE j # NoJob
    <2>1. j \in 1 .. Len(js) BY <1>2 DEF NoJob
    <2>2. js[j] \in Job BY <2>1, ElementOfSeq
    <2>3. CancelledJob(js[j]) \in Job BY <2>2, CancelledJobIsJob
    <2> DEFINE r == [js EXCEPT ![j] = CancelledJob(js[j])]
    <2>4. r \in Seq(Job) /\ Len(r) = Len(js)
          /\ \A k \in 1 .. Len(js) : r[k] = IF k = j THEN CancelledJob(js[j]) ELSE js[k]
      BY <2>1, <2>3, ExceptSeq
    <2>5. Cancelled(js, j) = r
      <3>1. CASE js[j] = Done
        <4>1. r = js BY <2>1, <2>4, <3>1, SeqEqual DEF CancelledJob
        <4> QED BY <3>1, <4>1, <1>2 DEF Cancelled
      <3>2. CASE js[j] # Done /\ js[j].at = "launched"
        BY <3>2, <1>2 DEF Cancelled, CancelledJob
      <3>3. CASE js[j] # Done /\ js[j].at # "launched"
        <4>1. Cancelled(js, j) = [js EXCEPT ![j] = [@ EXCEPT !.cancelled = TRUE]]
          BY <3>3, <1>2 DEF Cancelled
        <4>2. CancelledJob(js[j]) = [js[j] EXCEPT !.cancelled = TRUE]
          BY <3>3 DEF CancelledJob
        <4> QED BY <4>1, <4>2
      <3> QED BY <3>1, <3>2, <3>3
    <2> QED BY <2>4, <2>5, <2>1
  <1> QED BY <1>1, <1>2

\* Launching adds a job.
LEMMA LaunchGrows ==
  ASSUME TypeOK, NEW kind \in {"connect", "reconnect", "disconnect"}, Launch(kind)
  PROVE  Grows(NewJob(kind))
  <1>1. jobs \in Seq(Job) BY DEF TypeOK
  <1>2. NewJob(kind) \in Job BY DEF NewJob, Job, NoJob
  <1>3. jobs' = Append(jobs, NewJob(kind)) BY DEF Launch, NewJob
  <1> QED BY <1>1, <1>2, <1>3, AppendProperties DEF Grows

\* Goto changes its own job only.
LEMMA GotoMoves ==
  ASSUME TypeOK, NEW j \in DOMAIN jobs, NEW at \in Places, Goto(j, at)
  PROVE  /\ Moves(j, MovedJob(jobs[j], at))
         /\ \A k \in 1 .. Len(jobs) \ {j} : jobs'[k] = jobs[k]
  <1>1. jobs \in Seq(Job) /\ j \in 1 .. Len(jobs) BY DEF TypeOK
  <1>2. jobs[j] \in Job BY <1>1, ElementOfSeq
  <1>3. MovedJob(jobs[j], at) \in Job BY <1>2, MovedJobIsJob
  <1>4. jobs' = [jobs EXCEPT ![j] = MovedJob(jobs[j], at)]
    BY DEF Goto, MovedJob
  <1> QED BY <1>1, <1>3, <1>4, ExceptSeq DEF Moves

\* Cancelling one job and changing another.
LEMMA CancelMoves ==
  ASSUME TypeOK, NEW j \in DOMAIN jobs, NEW b \in Job, NEW c \in 0 .. Len(jobs),
         jobs' = [Cancelled(jobs, c) EXCEPT ![j] = b]
  PROVE  /\ Moves(j, b)
         /\ c # 0 /\ c # j => jobs'[c] = CancelledJob(jobs[c])
  <1>1. jobs \in Seq(Job) /\ j \in 1 .. Len(jobs) BY DEF TypeOK
  <1>2. /\ Cancelled(jobs, c) \in Seq(Job) /\ Len(Cancelled(jobs, c)) = Len(jobs)
        /\ \A k \in 1 .. Len(jobs) :
             Cancelled(jobs, c)[k] = IF k = c THEN CancelledJob(jobs[k]) ELSE jobs[k]
    BY <1>1, CancelledIs
  <1>3. /\ jobs' \in Seq(Job) /\ Len(jobs') = Len(jobs)
        /\ \A k \in 1 .. Len(jobs) : jobs'[k] = IF k = j THEN b ELSE Cancelled(jobs, c)[k]
    BY <1>1, <1>2, ExceptSeq
  <1> QED BY <1>1, <1>2, <1>3 DEF Moves

\* An exception ends its job and cancels those the fields name.
LEMMA ThrowMoves ==
  ASSUME TypeOK, NEW j \in DOMAIN jobs, Throw(j)
  PROVE  Moves(j, Done)
  <1>1. jobs \in Seq(Job) /\ j \in 1 .. Len(jobs) BY DEF TypeOK
  <1>2. connectionJob \in 0 .. Len(jobs) /\ disconnectionJob \in 0 .. Len(jobs) BY DEF TypeOK
  <1> DEFINE one == Cancelled(jobs, connectionJob)
             two == Cancelled(one, disconnectionJob)
  <1>3. /\ one \in Seq(Job) /\ Len(one) = Len(jobs)
        /\ \A k \in 1 .. Len(jobs) : one[k] \in {jobs[k], CancelledJob(jobs[k])}
    BY <1>1, <1>2, CancelledIs
  <1> HIDE DEF one
  <1>4. /\ two \in Seq(Job) /\ Len(two) = Len(jobs)
        /\ \A k \in 1 .. Len(jobs) : two[k] \in {one[k], CancelledJob(one[k])}
    BY <1>2, <1>3, CancelledIs
  <1>5. \A k \in 1 .. Len(jobs) : CancelledJob(CancelledJob(jobs[k])) = CancelledJob(jobs[k])
    <2> TAKE k \in 1 .. Len(jobs)
    <2>1. jobs[k] \in Job BY <1>1, ElementOfSeq
    <2> QED BY <2>1 DEF CancelledJob, Job, Done, NoJob
  <1>6. \A k \in 1 .. Len(jobs) : two[k] \in {jobs[k], CancelledJob(jobs[k])}
    BY <1>3, <1>4, <1>5
  <1>7. Done \in Job BY DEF Done, Job, NoJob
  <1>8. jobs' = [two EXCEPT ![j] = Done] BY DEF Throw, one
  <1> HIDE DEF two
  <1>9. /\ jobs' \in Seq(Job) /\ Len(jobs') = Len(jobs)
        /\ \A k \in 1 .. Len(jobs) : jobs'[k] = IF k = j THEN Done ELSE two[k]
    BY <1>1, <1>4, <1>7, <1>8, ExceptSeq
  <1> QED BY <1>1, <1>6, <1>9 DEF Moves

\* onDestroy cancels every job.
LEMMA DestroyedCancels ==
  ASSUME TypeOK, Destroyed
  PROVE  /\ jobs' \in Seq(Job) /\ Len(jobs') = Len(jobs)
         /\ \A k \in 1 .. Len(jobs) : jobs'[k] = CancelledJob(jobs[k])
  <1>1. jobs \in Seq(Job) /\ Len(jobs) \in Nat /\ DOMAIN jobs = 1 .. Len(jobs)
    BY LenProperties DEF TypeOK
  <1>2. \A k \in 1 .. Len(jobs) : Cancelled(jobs, k)[k] = CancelledJob(jobs[k])
    BY <1>1, CancelledIs
  <1>3. \A k \in 1 .. Len(jobs) : CancelledJob(jobs[k]) \in Job
    BY <1>1, ElementOfSeq, CancelledJobIsJob
  <1>4. jobs' = [k \in 1 .. Len(jobs) |-> Cancelled(jobs, k)[k]] BY <1>1 DEF Destroyed
  <1>5. jobs' = [k \in 1 .. Len(jobs) |-> CancelledJob(jobs[k])] BY <1>2, <1>4
  <1>6. jobs' \in [1 .. Len(jobs) -> Job] BY <1>3, <1>5
  <1>7. jobs' \in Seq(Job) /\ Len(jobs') = Len(jobs) BY <1>1, <1>6
  <1> QED BY <1>5, <1>7

-----------------------------------------------------------------------------
(* Jobs that wait.                                                         *)

\* A field names a job of its own kind, or one that is over.
RefsAreApt ==
  /\ connectionJob # NoJob =>
       jobs[connectionJob] = Done \/ jobs[connectionJob].kind \in {"connect", "reconnect"}
  /\ disconnectionJob # NoJob =>
       jobs[disconnectionJob] = Done \/ jobs[disconnectionJob].kind = "disconnect"

\* A connection job waits for a disconnection job, and a disconnection job for
\* one that is cancelled, unless the other is over.
WaitsAreApt ==
  \A k \in 1 .. Len(jobs) : jobs[k].at = "join" =>
    /\ jobs[k].waits \in 0 .. Len(jobs)
    /\ \/ /\ jobs[k].kind = "connect"
          /\ jobs[k].waits # 0 =>
               jobs[jobs[k].waits] = Done \/ jobs[jobs[k].waits].kind = "disconnect"
       \/ /\ jobs[k].kind = "disconnect"
          /\ jobs[k].waits # 0 =>
               jobs[jobs[k].waits] = Done \/ jobs[jobs[k].waits].cancelled = TRUE

\* What cancelling keeps of a job.
LEMMA CancelledJobKeeps ==
  ASSUME NEW a \in Job
  PROVE  /\ a = Done => CancelledJob(a) = Done
         /\ CancelledJob(a) = Done
            \/ /\ CancelledJob(a).kind = a.kind /\ CancelledJob(a).at = a.at
               /\ CancelledJob(a).waits = a.waits /\ CancelledJob(a).cancelled = TRUE
  BY DEF CancelledJob, Job, Done, NoJob

\* A job that is over is nowhere else.
LEMMA DoneIs == Done.at = "done" /\ Done.kind = "none" /\ Done \in Job /\ Done.cancelled = FALSE
  BY DEF Done, Job, NoJob

\* A step of job j that does not begin to wait.
LEMMA MovesKeeps ==
  ASSUME TypeOK, RefsAreApt, WaitsAreApt,
         NEW j \in 1 .. Len(jobs), NEW b \in Job, Moves(j, b), jobs[j] # Done,
         b = Done \/ (b.kind = jobs[j].kind /\ b.at # "join"
                      /\ (jobs[j].cancelled = TRUE => b.cancelled = TRUE)),
         connectionJob' \in {connectionJob, NoJob},
         disconnectionJob' \in {disconnectionJob, NoJob}
  PROVE  RefsAreApt' /\ WaitsAreApt'
  <1>1. jobs \in Seq(Job) /\ Len(jobs) \in Nat
        /\ connectionJob \in 0 .. Len(jobs) /\ disconnectionJob \in 0 .. Len(jobs)
    BY DEF TypeOK
  <1>2. \A k \in 1 .. Len(jobs) : jobs[k] \in Job BY <1>1, ElementOfSeq
  <1>3. \A k \in 1 .. Len(jobs) :
          /\ jobs[k] = Done => jobs'[k] = Done
          /\ jobs'[k] = Done
             \/ /\ jobs'[k].kind = jobs[k].kind
                /\ jobs[k].cancelled = TRUE => jobs'[k].cancelled = TRUE
          /\ jobs'[k].at = "join" => jobs[k].at = "join" /\ jobs'[k].waits = jobs[k].waits
    <2> TAKE k \in 1 .. Len(jobs)
    <2>1. CASE k = j BY <2>1, <1>2, DoneIs DEF Moves
    <2>2. CASE k # j
      <3>1. jobs'[k] = jobs[k] \/ jobs'[k] = CancelledJob(jobs[k]) BY <2>2 DEF Moves
      <3> QED BY <3>1, <1>2, DoneIs, CancelledJobKeeps
    <2> QED BY <2>1, <2>2
  <1>4. Len(jobs') = Len(jobs) BY DEF Moves
  <1>5. RefsAreApt' BY <1>1, <1>3, <1>4 DEF RefsAreApt, NoJob
  <1>6. WaitsAreApt'
    <2> SUFFICES ASSUME NEW k \in 1 .. Len(jobs), jobs'[k].at = "join"
                 PROVE  /\ jobs'[k].waits \in 0 .. Len(jobs)
                        /\ \/ /\ jobs'[k].kind = "connect"
                              /\ jobs'[k].waits # 0 =>
                                   jobs'[jobs'[k].waits] = Done
                                   \/ jobs'[jobs'[k].waits].kind = "disconnect"
                           \/ /\ jobs'[k].kind = "disconnect"
                              /\ jobs'[k].waits # 0 =>
                                   jobs'[jobs'[k].waits] = Done
                                   \/ jobs'[jobs'[k].waits].cancelled = TRUE
      BY <1>4 DEF WaitsAreApt
    <2>1. /\ jobs[k].at = "join" /\ jobs'[k].waits = jobs[k].waits
          /\ jobs'[k].kind = jobs[k].kind
      BY <1>3, DoneIs
    <2>2. jobs[k].waits \in 0 .. Len(jobs) BY <2>1 DEF WaitsAreApt
    <2> QED BY <1>1, <1>3, <2>1, <2>2 DEF WaitsAreApt
  <1> QED BY <1>5, <1>6

\* A step that launches a job and stores it in its field.
LEMMA GrowsKeeps ==
  ASSUME TypeOK, RefsAreApt, WaitsAreApt,
         NEW kind \in {"connect", "reconnect", "disconnect"}, Grows(NewJob(kind)),
         \/ /\ kind = "disconnect"
            /\ disconnectionJob' = Len(jobs) + 1 /\ connectionJob' = connectionJob
         \/ /\ kind # "disconnect"
            /\ connectionJob' = Len(jobs) + 1 /\ disconnectionJob' = disconnectionJob
  PROVE  RefsAreApt' /\ WaitsAreApt'
  <1>1. jobs \in Seq(Job) /\ Len(jobs) \in Nat
        /\ connectionJob \in 0 .. Len(jobs) /\ disconnectionJob \in 0 .. Len(jobs)
    BY DEF TypeOK
  <1>2. NewJob(kind).kind = kind /\ NewJob(kind).at = "launched" BY DEF NewJob
  <1>3. RefsAreApt' BY <1>1, <1>2 DEF RefsAreApt, Grows, NoJob
  <1>4. \A k \in 1 .. Len(jobs') : jobs'[k].at = "join" =>
          k \in 1 .. Len(jobs) /\ jobs'[k] = jobs[k]
    BY <1>1, <1>2 DEF Grows
  <1>5. \A k \in 1 .. Len(jobs) : jobs'[k] = jobs[k] BY DEF Grows
  <1>6. WaitsAreApt' BY <1>1, <1>4, <1>5 DEF WaitsAreApt, Grows
  <1> QED BY <1>3, <1>6

-----------------------------------------------------------------------------
(* The inductive invariant.                                                *)

\* Some job is about to turn a backend on.
OnExists == \E k \in 1 .. Len(jobs) : jobs[k].at = "on"

\* Some disconnection job is under way and not cancelled.
DisconnectionExists ==
  \E k \in 1 .. Len(jobs) : jobs[k].kind = "disconnect" /\ jobs[k].cancelled = FALSE

\* An open interface has a backend, or a job that is about to start one.
TunIsServed == tun => handle \/ OnExists

\* A service that is disconnecting has a job that does it.
DisconnectingIsServed ==
  state = "DISCONNECTING" /\ service = "running" => DisconnectionExists

Inv == TypeOK /\ RefsAreApt /\ WaitsAreApt /\ TunIsServed /\ DisconnectingIsServed

\* The status jobs after some are cancelled.
LEMMA StatusCancelledIsTyped ==
  ASSUME TypeOK, NEW S
  PROVE  WithStatusCancelled(S) \in Seq(Status) /\ Len(WithStatusCancelled(S)) = Len(statusJobs)
  <1>1. statusJobs \in Seq(Status) /\ Len(statusJobs) \in Nat
        /\ DOMAIN statusJobs = 1 .. Len(statusJobs)
    BY LenProperties DEF TypeOK
  <1>2. \A s \in 1 .. Len(statusJobs) : statusJobs[s] \in Status BY <1>1, ElementOfSeq
  <1>3. \A s \in 1 .. Len(statusJobs) : [statusJobs[s] EXCEPT !.cancelled = TRUE] \in Status
    BY <1>2 DEF Status
  <1>4. WithStatusCancelled(S) \in [1 .. Len(statusJobs) -> Status]
    BY <1>1, <1>2, <1>3 DEF WithStatusCancelled
  <1> QED BY <1>1, <1>4

\* A job that goes on, or ends, without waiting.
LEMMA GotoKeeps ==
  ASSUME Inv, NEW j \in DOMAIN jobs, jobs[j] # Done, NEW at \in Places \ {"join", "launched"},
         Goto(j, at),
         connectionJob' \in {connectionJob, NoJob},
         disconnectionJob' \in {disconnectionJob, NoJob}
  PROVE  /\ jobs' \in Seq(Job) /\ Len(jobs') = Len(jobs)
         /\ RefsAreApt' /\ WaitsAreApt'
         /\ jobs[j].at # "on" /\ OnExists => OnExists'
         /\ at = "on" => OnExists'
         /\ (jobs[j].kind # "disconnect" \/ at # "done" \/ jobs[j].cancelled = TRUE)
              /\ DisconnectionExists => DisconnectionExists'
  <1> DEFINE b == MovedJob(jobs[j], at)
  <1>1. /\ TypeOK /\ RefsAreApt /\ WaitsAreApt BY DEF Inv
  <1>2. jobs \in Seq(Job) /\ j \in 1 .. Len(jobs) /\ jobs[j] \in Job
    <2>1. jobs \in Seq(Job) /\ j \in 1 .. Len(jobs) BY <1>1 DEF TypeOK
    <2> QED BY <2>1, ElementOfSeq
  <1>3. Moves(j, b) /\ \A k \in 1 .. Len(jobs) \ {j} : jobs'[k] = jobs[k]
    BY <1>1, GotoMoves
  <1>4. b \in Job BY <1>2, MovedJobIsJob
  <1>5. /\ at = "done" => b = Done
        /\ at # "done" => b.kind = jobs[j].kind /\ b.at = at /\ b.cancelled = jobs[j].cancelled
    BY <1>2 DEF MovedJob, Job
  <1> HIDE DEF b
  <1>6. RefsAreApt' /\ WaitsAreApt'
    <2>1. b = Done \/ (b.kind = jobs[j].kind /\ b.at # "join"
                       /\ (jobs[j].cancelled = TRUE => b.cancelled = TRUE))
      BY <1>5
    <2> QED BY <1>1, <1>2, <1>3, <1>4, <2>1, MovesKeeps
  <1>7. jobs' \in Seq(Job) /\ Len(jobs') = Len(jobs) /\ jobs'[j] = b BY <1>3 DEF Moves
  <1>8. jobs[j].at # "on" /\ OnExists => OnExists' BY <1>2, <1>3, <1>7 DEF OnExists
  <1>9. at = "on" => OnExists' BY <1>2, <1>5, <1>7 DEF OnExists
  <1>10. (jobs[j].kind # "disconnect" \/ at # "done" \/ jobs[j].cancelled = TRUE)
           /\ DisconnectionExists => DisconnectionExists'
    BY <1>2, <1>3, <1>5, <1>7 DEF DisconnectionExists
  <1> QED BY <1>6, <1>7, <1>8, <1>9, <1>10

\* An exception in job j, which was not about to start a backend or left none.
LEMMA ThrowKeeps ==
  ASSUME Inv, NEW j \in DOMAIN jobs, jobs[j] # Done, Throw(j)
  PROVE  /\ jobs' \in Seq(Job) /\ Len(jobs') = Len(jobs)
         /\ connectionJob' = 0 /\ disconnectionJob' = 0 /\ crossed' = crossed
         /\ RefsAreApt' /\ WaitsAreApt'
         /\ jobs[j].at # "on" /\ OnExists => OnExists'
         /\ state' = "DISCONNECTED"
  <1>1. TypeOK /\ RefsAreApt /\ WaitsAreApt BY DEF Inv
  <1>2. jobs \in Seq(Job) /\ j \in 1 .. Len(jobs) BY <1>1 DEF TypeOK
  <1>3. Moves(j, Done) BY <1>1, ThrowMoves
  <1>4. connectionJob' = NoJob /\ disconnectionJob' = NoJob BY DEF Throw
  <1>5. RefsAreApt' /\ WaitsAreApt' BY <1>1, <1>2, <1>3, <1>4, DoneIs, MovesKeeps
  <1>6. jobs[j].at # "on" /\ OnExists => OnExists'
    <2> SUFFICES ASSUME jobs[j].at # "on", OnExists PROVE OnExists'
      OBVIOUS
    <2>1. PICK k \in 1 .. Len(jobs) : jobs[k].at = "on" BY DEF OnExists
    <2>2. jobs[k] \in Job BY <1>2, ElementOfSeq
    <2>3. CancelledJob(jobs[k]).at = "on" BY <2>1, <2>2 DEF CancelledJob, Job, Done
    <2>4. jobs'[k].at = "on" BY <1>3, <2>1, <2>3 DEF Moves
    <2> QED BY <1>3, <2>4 DEF OnExists, Moves
  <1> QED BY <1>3, <1>4, <1>5, <1>6 DEF Moves, Throw, Set, NoJob

\* A step that leaves the jobs alone.
LEMMA JobsUnchangedKeeps ==
  ASSUME Inv, UNCHANGED <<jobs, connectionJob, disconnectionJob>>
  PROVE  /\ RefsAreApt' /\ WaitsAreApt'
         /\ OnExists => OnExists'
         /\ DisconnectionExists => DisconnectionExists'
  BY DEF Inv, RefsAreApt, WaitsAreApt, OnExists, DisconnectionExists

\* A step that launches a job and stores it.
LEMMA LaunchKeeps ==
  ASSUME Inv, NEW kind \in {"connect", "reconnect", "disconnect"}, Launch(kind),
         \/ /\ kind = "disconnect"
            /\ disconnectionJob' = Launched /\ connectionJob' = connectionJob
         \/ /\ kind # "disconnect"
            /\ connectionJob' = Launched /\ disconnectionJob' = disconnectionJob
  PROVE  /\ jobs' \in Seq(Job) /\ Len(jobs') = Len(jobs) + 1
         /\ RefsAreApt' /\ WaitsAreApt'
         /\ OnExists => OnExists'
         /\ DisconnectionExists => DisconnectionExists'
         /\ kind = "disconnect" => DisconnectionExists'
  <1>1. TypeOK /\ RefsAreApt /\ WaitsAreApt BY DEF Inv
  <1>2. Len(jobs) \in Nat BY <1>1 DEF TypeOK
  <1>3. Grows(NewJob(kind)) BY <1>1, LaunchGrows
  <1>4. RefsAreApt' /\ WaitsAreApt' BY <1>1, <1>3, GrowsKeeps DEF Launched
  <1>5. NewJob(kind).kind = kind /\ NewJob(kind).cancelled = FALSE BY DEF NewJob
  <1>6. OnExists => OnExists' BY <1>2, <1>3 DEF OnExists, Grows
  <1>7. DisconnectionExists => DisconnectionExists' BY <1>2, <1>3 DEF DisconnectionExists, Grows
  <1>8. kind = "disconnect" => DisconnectionExists'
    BY <1>2, <1>3, <1>5 DEF DisconnectionExists, Grows
  <1> QED BY <1>3, <1>4, <1>6, <1>7, <1>8 DEF Grows

-----------------------------------------------------------------------------
(* The main thread keeps the invariant.                                    *)

\* A request to connect launches a job, or is refused.
LEMMA ConnectKeeps == Inv /\ Connect => Inv'
  <1> SUFFICES ASSUME Inv, Connect PROVE Inv'
    OBVIOUS
  <1>0. TypeOK /\ TunIsServed /\ Len(jobs) \in Nat BY DEF Inv, TypeOK
  <1>1. UNCHANGED <<main, disconnectionJob, wg, status>> /\ crossed' \in BOOLEAN
    BY DEF Connect, Request
  <1>2. CASE Launch("connect") /\ connectionJob' = Launched /\ state' = "CONNECTING"
    <2>1. /\ jobs' \in Seq(Job) /\ Len(jobs') = Len(jobs) + 1
          /\ RefsAreApt' /\ WaitsAreApt' /\ (OnExists => OnExists')
      BY <1>1, <1>2, LaunchKeeps
    <2>2. TypeOK' BY <1>0, <1>1, <1>2, <2>1 DEF TypeOK, States, main, wg, status, Launched
    <2>3. TunIsServed' BY <1>0, <1>1, <2>1 DEF TunIsServed, wg
    <2> QED BY <1>2, <2>1, <2>2, <2>3 DEF Inv, DisconnectingIsServed
  <1>3. CASE UNCHANGED <<jobs, connectionJob>> /\ state' = "DISCONNECTED"
    <2>1. RefsAreApt' /\ WaitsAreApt' /\ (OnExists => OnExists')
      BY <1>1, <1>3, JobsUnchangedKeeps
    <2>2. TypeOK' BY <1>0, <1>1, <1>3 DEF TypeOK, States, main, wg, status
    <2>3. TunIsServed' BY <1>0, <1>1, <2>1 DEF TunIsServed, wg
    <2> QED BY <1>3, <2>1, <2>2, <2>3 DEF Inv, DisconnectingIsServed
  <1> QED BY <1>2, <1>3 DEF Connect, Set

\* A request to disconnect launches the job that serves it.
LEMMA DisconnectKeeps == Inv /\ Disconnect => Inv'
  <1> SUFFICES ASSUME Inv, Disconnect PROVE Inv'
    OBVIOUS
  <1>0. TypeOK /\ TunIsServed /\ Len(jobs) \in Nat BY DEF Inv, TypeOK
  <1>1. /\ UNCHANGED <<main, connectionJob, wg, status>> /\ crossed' \in BOOLEAN
        /\ Launch("disconnect") /\ disconnectionJob' = Launched /\ state' = "DISCONNECTING"
    BY DEF Disconnect, Set, Request
  <1>2. /\ jobs' \in Seq(Job) /\ Len(jobs') = Len(jobs) + 1
        /\ RefsAreApt' /\ WaitsAreApt' /\ (OnExists => OnExists') /\ DisconnectionExists'
    BY <1>1, LaunchKeeps
  <1>3. TypeOK' BY <1>0, <1>1, <1>2 DEF TypeOK, States, main, wg, status, Launched
  <1>4. TunIsServed' BY <1>0, <1>1, <1>2 DEF TunIsServed, wg
  <1> QED BY <1>2, <1>3, <1>4 DEF Inv, DisconnectingIsServed

\* A change of network launches a reconnection.
LEMMA ReconnectKeeps == Inv /\ Reconnect => Inv'
  <1> SUFFICES ASSUME Inv, Reconnect PROVE Inv'
    OBVIOUS
  <1>0. TypeOK /\ TunIsServed /\ Len(jobs) \in Nat BY DEF Inv, TypeOK
  <1>1. /\ UNCHANGED <<main, disconnectionJob, wg, status>> /\ crossed' \in BOOLEAN
        /\ Launch("reconnect") /\ connectionJob' = Launched /\ state' = "RECONNECTING"
    BY DEF Reconnect, Set, Request
  <1>2. /\ jobs' \in Seq(Job) /\ Len(jobs') = Len(jobs) + 1
        /\ RefsAreApt' /\ WaitsAreApt' /\ (OnExists => OnExists')
    BY <1>1, LaunchKeeps
  <1>3. TypeOK' BY <1>0, <1>1, <1>2 DEF TypeOK, States, main, wg, status, Launched
  <1>4. TunIsServed' BY <1>0, <1>1, <1>2 DEF TunIsServed, wg
  <1> QED BY <1>1, <1>2, <1>3, <1>4 DEF Inv, DisconnectingIsServed

\* The collector, and clients that come and go, leave jobs and tunnel alone.
LEMMA MainKeeps == Inv /\ (Bind \/ Unbind \/ Collect \/ React) => Inv'
  <1> SUFFICES ASSUME Inv, Bind \/ Unbind \/ Collect \/ React PROVE Inv'
    OBVIOUS
  <1>0. TypeOK /\ TunIsServed /\ DisconnectingIsServed BY DEF Inv
  <1>1. UNCHANGED <<state, joining, jobVars, wg, status>>
    BY DEF Bind, Unbind, Collect, React
  <1>2. service' = service \/ service' = "stopping"
    BY DEF Bind, Unbind, Collect, React, StopService
  <1>3. /\ RefsAreApt' /\ WaitsAreApt' /\ (OnExists => OnExists')
        /\ (DisconnectionExists => DisconnectionExists')
    BY <1>1, JobsUnchangedKeeps DEF jobVars, refs
  <1>4. shown' \in States /\ reacting' \in BOOLEAN /\ listener' \in BOOLEAN /\ bound' \in BOOLEAN
    <2>1. CASE Bind \/ Unbind BY <2>1, <1>0 DEF Bind, Unbind, TypeOK
    <2>2. CASE Collect BY <2>2, <1>0 DEF Collect, TypeOK
    <2>3. CASE React BY <2>3, <1>0 DEF React, TypeOK
    <2> QED BY <2>1, <2>2, <2>3
  <1>5. TypeOK' BY <1>0, <1>1, <1>2, <1>4 DEF TypeOK, jobVars, refs, wg, status
  <1>6. TunIsServed' BY <1>0, <1>1, <1>3 DEF TunIsServed, wg
  <1>7. DisconnectingIsServed' BY <1>0, <1>1, <1>2, <1>3 DEF DisconnectingIsServed
  <1> QED BY <1>3, <1>5, <1>6, <1>7 DEF Inv

\* onDestroy disconnects as a request does.
LEMMA DestroyKeeps == Inv /\ Destroy => Inv'
  <1> SUFFICES ASSUME Inv, Destroy PROVE Inv'
    OBVIOUS
  <1>0. TypeOK /\ TunIsServed /\ Len(jobs) \in Nat BY DEF Inv, TypeOK
  <1>1. /\ UNCHANGED <<shown, reacting, listener, bound, connectionJob, wg, status>>
        /\ service' = "destroying"
    BY DEF Destroy
  <1>2. CASE CanDisconnect
    <2>1. /\ Launch("disconnect") /\ disconnectionJob' = Launched /\ joining' = Launched
          /\ state' = "DISCONNECTING" /\ crossed' \in BOOLEAN
      BY <1>2 DEF Destroy, Set, Request
    <2>2. /\ jobs' \in Seq(Job) /\ Len(jobs') = Len(jobs) + 1
          /\ RefsAreApt' /\ WaitsAreApt' /\ (OnExists => OnExists')
      BY <1>1, <2>1, LaunchKeeps
    <2>3. TypeOK' BY <1>0, <1>1, <2>1, <2>2 DEF TypeOK, States, wg, status, Launched
    <2>4. TunIsServed' BY <1>0, <1>1, <2>2 DEF TunIsServed, wg
    <2> QED BY <1>1, <2>2, <2>3, <2>4 DEF Inv, DisconnectingIsServed
  <1>3. CASE ~CanDisconnect
    <2>1. /\ UNCHANGED <<state, jobs, disconnectionJob>> /\ joining' = disconnectionJob
          /\ crossed' \in BOOLEAN
      BY <1>3 DEF Destroy, Request
    <2>2. RefsAreApt' /\ WaitsAreApt' /\ (OnExists => OnExists')
      BY <1>1, <2>1, JobsUnchangedKeeps
    <2>3. TypeOK' BY <1>0, <1>1, <2>1 DEF TypeOK, wg, status
    <2>4. TunIsServed' BY <1>0, <1>1, <2>2 DEF TunIsServed, wg
    <2> QED BY <1>1, <2>2, <2>3, <2>4 DEF Inv, DisconnectingIsServed
  <1> QED BY <1>2, <1>3

\* Cancelling every job leaves a job that has an interface to serve.
LEMMA DestroyedKeeps == Inv /\ Destroyed => Inv'
  <1> SUFFICES ASSUME Inv, Destroyed PROVE Inv'
    OBVIOUS
  <1>0. TypeOK /\ TunIsServed /\ RefsAreApt /\ WaitsAreApt BY DEF Inv
  <1>1. jobs \in Seq(Job) /\ Len(jobs) \in Nat BY <1>0 DEF TypeOK
  <1>2. /\ jobs' \in Seq(Job) /\ Len(jobs') = Len(jobs)
        /\ \A k \in 1 .. Len(jobs) : jobs'[k] = CancelledJob(jobs[k])
    BY <1>0, DestroyedCancels
  <1>3. /\ UNCHANGED <<state, shown, reacting, listener, bound, refs, crossed, wg, status>>
        /\ service' = "gone" /\ joining' = NoJob
    BY DEF Destroyed
  <1>4. \A k \in 1 .. Len(jobs) :
          /\ jobs[k] \in Job
          /\ jobs[k] = Done => jobs'[k] = Done
          /\ jobs'[k] = Done
             \/ /\ jobs'[k].kind = jobs[k].kind /\ jobs'[k].at = jobs[k].at
                /\ jobs'[k].waits = jobs[k].waits /\ jobs'[k].cancelled = TRUE
    <2> TAKE k \in 1 .. Len(jobs)
    <2>1. jobs[k] \in Job BY <1>1, ElementOfSeq
    <2>2. jobs'[k] = CancelledJob(jobs[k]) BY <1>2
    <2> QED BY <2>1, <2>2, CancelledJobKeeps
  <1>5. TypeOK'
    <2>1. {joining', connectionJob', disconnectionJob'} \subseteq 0 .. Len(jobs')
      BY <1>0, <1>1, <1>2, <1>3 DEF TypeOK, refs, NoJob
    <2> QED BY <1>0, <1>2, <1>3, <2>1 DEF TypeOK, wg, status
  <1>6. RefsAreApt' BY <1>0, <1>1, <1>2, <1>3, <1>4 DEF RefsAreApt, TypeOK, refs, NoJob
  <1>7. WaitsAreApt'
    <2> SUFFICES ASSUME NEW k \in 1 .. Len(jobs), jobs'[k].at = "join"
                 PROVE  /\ jobs'[k].waits \in 0 .. Len(jobs)
                        /\ \/ /\ jobs'[k].kind = "connect"
                              /\ jobs'[k].waits # 0 =>
                                   jobs'[jobs'[k].waits] = Done
                                   \/ jobs'[jobs'[k].waits].kind = "disconnect"
                           \/ /\ jobs'[k].kind = "disconnect"
                              /\ jobs'[k].waits # 0 =>
                                   jobs'[jobs'[k].waits] = Done
                                   \/ jobs'[jobs'[k].waits].cancelled = TRUE
      BY <1>2 DEF WaitsAreApt
    <2>1. /\ jobs[k].at = "join" /\ jobs'[k].waits = jobs[k].waits
          /\ jobs'[k].kind = jobs[k].kind
      BY <1>4, DoneIs
    <2>2. jobs[k].waits \in 0 .. Len(jobs) BY <1>0, <2>1 DEF WaitsAreApt
    <2> QED BY <1>0, <1>1, <1>4, <2>1, <2>2 DEF WaitsAreApt
  <1>8. OnExists => OnExists'
    <2> SUFFICES ASSUME OnExists PROVE OnExists'
      OBVIOUS
    <2>1. PICK k \in 1 .. Len(jobs) : jobs[k].at = "on" BY DEF OnExists
    <2>2. CancelledJob(jobs[k]).at = "on" BY <1>4, <2>1 DEF CancelledJob, Job, Done
    <2> QED BY <1>2, <2>1, <2>2 DEF OnExists
  <1>9. TunIsServed' BY <1>0, <1>3, <1>8 DEF TunIsServed, wg
  <1> QED BY <1>3, <1>5, <1>6, <1>7, <1>9 DEF Inv, DisconnectingIsServed

\* A process that is killed leaves nothing.
LEMMA KillKeeps == Inv /\ Kill => Inv'
  <1> SUFFICES ASSUME Inv, Kill PROVE Inv'
    OBVIOUS
  <1>1. /\ jobs' = <<>> /\ connectionJob' = 0 /\ disconnectionJob' = 0 /\ joining' = 0
        /\ tun' = FALSE /\ state' = "UNKNOWN" /\ statusJobs' = <<>> /\ statusJob' = 0
    BY DEF Kill, NoJob
  <1>2. <<>> \in Seq(Job) /\ <<>> \in Seq(Status) /\ Len(<<>>) = 0 OBVIOUS
  <1>3. TypeOK'
    <2>1. jobs' \in Seq(Job) /\ Len(jobs') = 0 BY <1>1, <1>2
    <2>2. statusJobs' \in Seq(Status) /\ Len(statusJobs') = 0 BY <1>1, <1>2
    <2>3. {joining', connectionJob', disconnectionJob'} \subseteq 0 .. Len(jobs')
      BY <1>1, <2>1
    <2>4. statusJob' \in 0 .. Len(statusJobs') BY <1>1, <2>2
    <2>5. /\ state' \in States /\ crossed' \in BOOLEAN /\ shown' \in States
          /\ reacting' \in BOOLEAN /\ listener' \in BOOLEAN /\ bound' \in BOOLEAN
          /\ service' \in {"running", "stopping", "destroying", "gone"}
          /\ handle' \in BOOLEAN /\ tun' \in BOOLEAN /\ lost' \in BOOLEAN
          /\ config' \in BOOLEAN
      BY Zenon DEF Kill, States
    <2> QED BY <2>1, <2>2, <2>3, <2>4, <2>5 DEF TypeOK
  <1>4. RefsAreApt' /\ WaitsAreApt' BY <1>1, <1>2 DEF RefsAreApt, WaitsAreApt, NoJob
  <1> QED BY <1>1, <1>3, <1>4 DEF Inv, TunIsServed, DisconnectingIsServed

-----------------------------------------------------------------------------
(* The jobs keep the invariant.                                            *)

\* A job that runs is in the sequence and is not over.
LEMMA AtIs ==
  ASSUME Inv, NEW j, NEW kinds, NEW at, at # "done", At(j, kinds, at)
  PROVE  /\ j \in DOMAIN jobs /\ j \in 1 .. Len(jobs) /\ jobs[j] \in Job
         /\ jobs[j].kind \in kinds /\ jobs[j].at = at /\ jobs[j] # Done
  <1>1. jobs \in Seq(Job) /\ j \in DOMAIN jobs BY DEF Inv, TypeOK, At
  <1>2. j \in 1 .. Len(jobs) /\ jobs[j] \in Job BY <1>1, ElementOfSeq
  <1> QED BY <1>1, <1>2, DoneIs DEF At

\* A job step types its variables when it types the jobs, the interface and the
\* status jobs.
LEMMA StepTypes ==
  ASSUME Inv, jobs' \in Seq(Job), Len(jobs') = Len(jobs),
         UNCHANGED <<shown, reacting, listener, bound, joining>>,
         service' \in {service, "stopping"},
         state' \in States, crossed' \in BOOLEAN,
         connectionJob' \in {connectionJob, 0}, disconnectionJob' \in {disconnectionJob, 0},
         handle' \in BOOLEAN, tun' \in BOOLEAN, lost' \in BOOLEAN, config' \in BOOLEAN,
         statusJobs' \in Seq(Status), statusJob' \in 0 .. Len(statusJobs')
  PROVE  TypeOK'
  <1>1. TypeOK BY DEF Inv
  <1>2. Len(jobs) \in Nat BY <1>1 DEF TypeOK
  <1>3. {joining', connectionJob', disconnectionJob'} \subseteq 0 .. Len(jobs')
    BY <1>1, <1>2 DEF TypeOK
  <1> QED BY <1>1, <1>3 DEF TypeOK

\* What the type invariant says of the parts a job leaves alone.
LEMMA Typed ==
  ASSUME Inv
  PROVE  /\ state \in States /\ crossed \in BOOLEAN
         /\ handle \in BOOLEAN /\ tun \in BOOLEAN /\ lost \in BOOLEAN /\ config \in BOOLEAN
         /\ statusJobs \in Seq(Status) /\ statusJob \in 0 .. Len(statusJobs)
         /\ Len(jobs) \in Nat /\ Len(statusJobs) \in Nat
  BY DEF Inv, TypeOK

\* A job that waits is a job.
LEMMA WaitingIsJob ==
  ASSUME NEW a \in Job, NEW w \in Nat
  PROVE  /\ [a EXCEPT !.at = "join", !.waits = w] \in Job
         /\ [a EXCEPT !.at = "join", !.waits = w].at = "join"
         /\ [a EXCEPT !.at = "join", !.waits = w].waits = w
         /\ [a EXCEPT !.at = "join", !.waits = w].kind = a.kind
         /\ [a EXCEPT !.at = "join", !.waits = w].cancelled = a.cancelled
  BY DEF Job

\* A connection job begins to wait for a disconnection job, which is what the
\* field it reads names.
LEMMA ConnectBeginsKeeps ==
  ASSUME Inv, NEW j, ConnectBegins(j) PROVE Inv'
  <1>1. /\ j \in DOMAIN jobs /\ j \in 1 .. Len(jobs) /\ jobs[j] \in Job
        /\ jobs[j].kind = "connect" /\ jobs[j].at = "launched" /\ jobs[j] # Done
    BY AtIs DEF ConnectBegins
  <1>2. TypeOK /\ RefsAreApt /\ WaitsAreApt /\ TunIsServed /\ DisconnectingIsServed BY DEF Inv
  <1>3. /\ UNCHANGED <<state, main, refs, crossed, wg, status>>
        /\ jobs' = [jobs EXCEPT ![j] = [@ EXCEPT !.at = "join", !.waits = disconnectionJob]]
    BY DEF ConnectBegins
  <1>4. jobs \in Seq(Job) /\ Len(jobs) \in Nat
        /\ connectionJob \in 0 .. Len(jobs) /\ disconnectionJob \in 0 .. Len(jobs)
    BY <1>2 DEF TypeOK
  <1> DEFINE b == [jobs[j] EXCEPT !.at = "join", !.waits = disconnectionJob]
  <1>5. /\ b \in Job /\ b.at = "join" /\ b.waits = disconnectionJob /\ b.kind = "connect"
        /\ b.cancelled = jobs[j].cancelled
    <2>1. disconnectionJob \in Nat BY <1>4
    <2> QED BY <1>1, <2>1, WaitingIsJob
  <1>6. jobs' = [jobs EXCEPT ![j] = b] BY <1>3
  <1> HIDE DEF b
  <1>7. /\ jobs' \in Seq(Job) /\ Len(jobs') = Len(jobs)
        /\ \A k \in 1 .. Len(jobs) : jobs'[k] = IF k = j THEN b ELSE jobs[k]
    BY <1>1, <1>4, <1>5, <1>6, ExceptSeq
  <1>8. \A k \in 1 .. Len(jobs) :
          /\ jobs'[k].kind = jobs[k].kind /\ jobs'[k].cancelled = jobs[k].cancelled
          /\ jobs[k] = Done => jobs'[k] = Done
          /\ jobs[k].at = "on" => jobs'[k].at = "on"
          /\ k # j => jobs'[k] = jobs[k]
          /\ jobs'[j] = b
    <2> TAKE k \in 1 .. Len(jobs)
    <2>1. jobs'[j] = b BY <1>1, <1>7
    <2>2. CASE k = j BY <2>1, <2>2, <1>1, <1>5
    <2>3. CASE k # j
      <3>1. jobs'[k] = jobs[k] BY <2>3, <1>7
      <3> QED BY <2>1, <2>3, <3>1
    <2> QED BY <2>2, <2>3
  <1>9. RefsAreApt' BY <1>2, <1>3, <1>4, <1>8 DEF RefsAreApt, refs, NoJob
  <1>10. WaitsAreApt'
    <2> SUFFICES ASSUME NEW k \in 1 .. Len(jobs), jobs'[k].at = "join"
                 PROVE  /\ jobs'[k].waits \in 0 .. Len(jobs)
                        /\ \/ /\ jobs'[k].kind = "connect"
                              /\ jobs'[k].waits # 0 =>
                                   jobs'[jobs'[k].waits] = Done
                                   \/ jobs'[jobs'[k].waits].kind = "disconnect"
                           \/ /\ jobs'[k].kind = "disconnect"
                              /\ jobs'[k].waits # 0 =>
                                   jobs'[jobs'[k].waits] = Done
                                   \/ jobs'[jobs'[k].waits].cancelled = TRUE
      BY <1>7 DEF WaitsAreApt
    <2>1. CASE k = j
      <3>1. disconnectionJob # 0 =>
              jobs'[disconnectionJob] = Done \/ jobs'[disconnectionJob].kind = "disconnect"
        BY <1>2, <1>4, <1>8 DEF RefsAreApt, NoJob
      <3> QED BY <2>1, <1>4, <1>5, <1>8, <3>1
    <2>2. CASE k # j
      <3>1. jobs'[k] = jobs[k] /\ jobs[k].at = "join" BY <2>2, <1>8
      <3>2. jobs[k].waits \in 0 .. Len(jobs) BY <3>1, <1>2 DEF WaitsAreApt
      <3> QED BY <3>1, <3>2, <1>2, <1>4, <1>8 DEF WaitsAreApt
    <2> QED BY <2>1, <2>2
  <1>11. TypeOK' BY <1>2, <1>3, <1>7 DEF TypeOK, main, refs, wg, status
  <1>12. (OnExists => OnExists') /\ (DisconnectionExists => DisconnectionExists')
    BY <1>7, <1>8 DEF OnExists, DisconnectionExists
  <1> QED BY <1>2, <1>3, <1>9, <1>10, <1>11, <1>12
          DEF Inv, TunIsServed, DisconnectingIsServed, wg, main

\* A connection job whose wait is over, or that was cancelled.
LEMMA ConnectJoinedKeeps ==
  ASSUME Inv, NEW j, ConnectJoined(j) PROVE Inv'
  <1>1. /\ j \in DOMAIN jobs /\ jobs[j] \in Job
        /\ jobs[j].kind = "connect" /\ jobs[j].at = "join" /\ jobs[j] # Done
    BY AtIs DEF ConnectJoined
  <1>2. /\ UNCHANGED <<state, main, connectionJob, wg, status>>
        /\ disconnectionJob' \in {disconnectionJob, NoJob}
        /\ (Goto(j, "done") \/ Goto(j, "init"))
    BY DEF ConnectJoined
  <1>3. crossed' \in BOOLEAN BY Typed DEF ConnectJoined, Forget
  <1>4. PICK at \in {"done", "init"} : Goto(j, at) BY <1>2
  <1>5. at \in Places \ {"join", "launched"} BY DEF Places
  <1>6. /\ jobs' \in Seq(Job) /\ Len(jobs') = Len(jobs) /\ RefsAreApt' /\ WaitsAreApt'
        /\ (OnExists => OnExists') /\ (DisconnectionExists => DisconnectionExists')
    BY <1>1, <1>2, <1>4, <1>5, GotoKeeps
  <1>7. TypeOK' BY <1>2, <1>3, <1>6, StepTypes, Typed DEF main, wg, status, NoJob
  <1> QED BY <1>2, <1>6, <1>7 DEF Inv, TunIsServed, DisconnectingIsServed, wg, main

\* startVpn opens an interface only on the way to a backend.
LEMMA InitializeKeeps ==
  ASSUME Inv, NEW j, Initialize(j) PROVE Inv'
  <1>1. /\ j \in DOMAIN jobs /\ jobs[j] \in Job
        /\ jobs[j].kind = "connect" /\ jobs[j].at = "init" /\ jobs[j] # Done
    BY AtIs DEF Initialize
  <1>2. TypeOK BY DEF Inv
  <1>3. /\ UNCHANGED <<main, handle, config, statusJob>>
        /\ statusJobs' = WithStatusCancelled(DOMAIN statusJobs)
    BY DEF Initialize
  <1>4. statusJobs' \in Seq(Status) /\ Len(statusJobs') = Len(statusJobs)
    BY <1>2, <1>3, StatusCancelledIsTyped
  <1>5. CASE handle /\ Goto(j, "config") /\ UNCHANGED <<state, refs, crossed, tun, lost>>
    <2>1. /\ jobs' \in Seq(Job) /\ Len(jobs') = Len(jobs) /\ RefsAreApt' /\ WaitsAreApt'
          /\ (OnExists => OnExists') /\ (DisconnectionExists => DisconnectionExists')
      BY <1>1, <1>5, GotoKeeps DEF Places, refs
    <2>2. TypeOK' BY <1>3, <1>4, <1>5, <2>1, StepTypes, Typed DEF main, refs
    <2> QED BY <1>3, <1>5, <2>1, <2>2 DEF Inv, TunIsServed, DisconnectingIsServed, main
  <1>6. CASE Goto(j, "on") /\ Establish /\ UNCHANGED <<state, refs, crossed>>
    <2>1. /\ jobs' \in Seq(Job) /\ Len(jobs') = Len(jobs) /\ RefsAreApt' /\ WaitsAreApt'
          /\ OnExists' /\ (DisconnectionExists => DisconnectionExists')
      BY <1>1, <1>6, GotoKeeps DEF Places, refs
    <2>2. tun' = TRUE /\ lost' \in BOOLEAN BY <1>6 DEF Establish
    <2>3. TypeOK' BY <1>3, <1>4, <1>6, <2>1, <2>2, StepTypes, Typed DEF main, refs
    <2> QED BY <1>3, <1>6, <2>1, <2>3 DEF Inv, TunIsServed, DisconnectingIsServed, main
  <1>7. CASE Throw(j) /\ UNCHANGED <<tun, lost>>
    <2>1. /\ jobs' \in Seq(Job) /\ Len(jobs') = Len(jobs) /\ RefsAreApt' /\ WaitsAreApt'
          /\ connectionJob' = 0 /\ disconnectionJob' = 0 /\ crossed' = crossed
          /\ (OnExists => OnExists') /\ state' = "DISCONNECTED"
      BY <1>1, <1>7, ThrowKeeps
    <2>2. state' \in States BY <2>1 DEF States
    <2>3. TypeOK' BY <1>3, <1>4, <1>7, <2>1, <2>2, StepTypes, Typed DEF main
    <2> QED BY <1>3, <1>7, <2>1, <2>3 DEF Inv, TunIsServed, DisconnectingIsServed, main
  <1> QED BY <1>5, <1>6, <1>7 DEF Initialize

\* turnOffBackend types what it changes.
LEMMA TurnOffTypes ==
  ASSUME Inv, TurnOff
  PROVE  handle' = FALSE /\ statusJobs' \in Seq(Status) /\ statusJob' \in 0 .. Len(statusJobs')
  <1>1. statusJobs' \in Seq(Status) /\ Len(statusJobs') = Len(statusJobs)
    BY StatusCancelledIsTyped DEF Inv, TurnOff
  <1> QED BY <1>1, Typed DEF TurnOff, NoJob

\* A backend that is started serves the interface; one that cannot be started
\* closes it.
LEMMA TurnOnKeeps ==
  ASSUME Inv, NEW j, TurnOn(j) PROVE Inv'
  <1>1. /\ j \in DOMAIN jobs /\ jobs[j] \in Job
        /\ jobs[j].kind \in {"connect", "reconnect"} /\ jobs[j].at = "on" /\ jobs[j] # Done
    BY AtIs DEF TurnOn
  <1>2. UNCHANGED <<main, config>> /\ lost' \in BOOLEAN BY DEF TurnOn
  <1>3. CASE /\ handle' = TRUE /\ LaunchStatus /\ UNCHANGED <<state, refs, crossed, tun>>
             /\ Goto(j, IF jobs[j].kind = "connect" THEN "config" ELSE "done")
    <2>1. PICK at \in {"config", "done"} : Goto(j, at) BY <1>3
    <2>2. at \in Places \ {"join", "launched"} BY DEF Places
    <2>3. jobs[j].kind # "disconnect" BY <1>1
    <2>4. /\ jobs' \in Seq(Job) /\ Len(jobs') = Len(jobs) /\ RefsAreApt' /\ WaitsAreApt'
          /\ (DisconnectionExists => DisconnectionExists')
      BY <1>1, <1>3, <2>1, <2>2, <2>3, GotoKeeps DEF refs
    <2>5. statusJobs' \in Seq(Status) /\ statusJob' \in 0 .. Len(statusJobs')
      <3> DEFINE new == [at |-> "poll", seen |-> "DISCONNECTED", cancelled |-> FALSE]
      <3>1. new \in Status BY DEF Status
      <3>2. statusJobs' = Append(statusJobs, new) /\ statusJob' = Len(statusJobs) + 1
        BY <1>3 DEF LaunchStatus
      <3> HIDE DEF new
      <3> QED BY <3>1, <3>2, Typed, AppendProperties
    <2>6. TypeOK' BY <1>2, <1>3, <2>4, <2>5, StepTypes, Typed DEF main, refs
    <2> QED BY <1>2, <1>3, <2>4, <2>6 DEF Inv, TunIsServed, DisconnectingIsServed, main
  <1>4. CASE TurnOff /\ tun' = FALSE /\ Throw(j)
    <2>1. /\ jobs' \in Seq(Job) /\ Len(jobs') = Len(jobs) /\ RefsAreApt' /\ WaitsAreApt'
          /\ connectionJob' = 0 /\ disconnectionJob' = 0 /\ crossed' = crossed
          /\ state' = "DISCONNECTED"
      BY <1>1, <1>4, ThrowKeeps
    <2>2. state' \in States BY <2>1 DEF States
    <2>3. handle' = FALSE /\ statusJobs' \in Seq(Status) /\ statusJob' \in 0 .. Len(statusJobs')
      BY <1>4, TurnOffTypes
    <2>4. TypeOK' BY <1>2, <1>4, <2>1, <2>2, <2>3, StepTypes, Typed DEF main
    <2> QED BY <1>2, <1>4, <2>1, <2>4 DEF Inv, TunIsServed, DisconnectingIsServed, main
  <1> QED BY <1>3, <1>4 DEF TurnOn

\* Keeping the configuration changes neither jobs that wait nor the interface.
LEMMA ConfigKeptKeeps ==
  ASSUME Inv, NEW j, ConfigKept(j) PROVE Inv'
  <1>1. /\ j \in DOMAIN jobs /\ jobs[j] \in Job
        /\ jobs[j].kind = "connect" /\ jobs[j].at = "config" /\ jobs[j] # Done
    BY AtIs DEF ConfigKept
  <1>2. /\ UNCHANGED <<state, main, refs, crossed, handle, tun, lost, status>> /\ config' = TRUE
        /\ Goto(j, "done")
    BY DEF ConfigKept
  <1>3. /\ jobs' \in Seq(Job) /\ Len(jobs') = Len(jobs) /\ RefsAreApt' /\ WaitsAreApt'
        /\ (OnExists => OnExists') /\ (DisconnectionExists => DisconnectionExists')
    BY <1>1, <1>2, GotoKeeps DEF Places, refs
  <1>4. TypeOK' BY <1>2, <1>3, StepTypes, Typed DEF main, refs, status
  <1> QED BY <1>2, <1>3, <1>4 DEF Inv, TunIsServed, DisconnectingIsServed, main

\* reconnectVpn keeps or opens an interface on the way to a backend.
LEMMA ReconnectBeginsKeeps ==
  ASSUME Inv, NEW j, ReconnectBegins(j) PROVE Inv'
  <1>1. /\ j \in DOMAIN jobs /\ jobs[j] \in Job
        /\ jobs[j].kind = "reconnect" /\ jobs[j].at = "launched" /\ jobs[j] # Done
    BY AtIs DEF ReconnectBegins
  <1>2. UNCHANGED main BY DEF ReconnectBegins
  <1>3. CASE TurnOff /\ Goto(j, "on") /\ UNCHANGED <<state, refs, crossed, tun, lost, config>>
    <2>1. /\ jobs' \in Seq(Job) /\ Len(jobs') = Len(jobs) /\ RefsAreApt' /\ WaitsAreApt'
          /\ OnExists' /\ (DisconnectionExists => DisconnectionExists')
      BY <1>1, <1>3, GotoKeeps DEF Places, refs
    <2>2. handle' = FALSE /\ statusJobs' \in Seq(Status) /\ statusJob' \in 0 .. Len(statusJobs')
      BY <1>3, TurnOffTypes
    <2>3. TypeOK' BY <1>2, <1>3, <2>1, <2>2, StepTypes, Typed DEF main, refs
    <2> QED BY <1>2, <1>3, <2>1, <2>3 DEF Inv, TunIsServed, DisconnectingIsServed, main
  <1>4. CASE /\ Goto(j, "on") /\ Establish
             /\ UNCHANGED <<state, refs, crossed, handle, config, status>>
    <2>1. /\ jobs' \in Seq(Job) /\ Len(jobs') = Len(jobs) /\ RefsAreApt' /\ WaitsAreApt'
          /\ OnExists' /\ (DisconnectionExists => DisconnectionExists')
      BY <1>1, <1>4, GotoKeeps DEF Places, refs
    <2>2. tun' = TRUE /\ lost' \in BOOLEAN BY <1>4 DEF Establish
    <2>3. TypeOK' BY <1>2, <1>4, <2>1, <2>2, StepTypes, Typed DEF main, refs, status
    <2> QED BY <1>2, <1>4, <2>1, <2>3 DEF Inv, TunIsServed, DisconnectingIsServed, main
  <1>5. CASE Throw(j) /\ UNCHANGED <<wg, status>>
    <2>1. /\ jobs' \in Seq(Job) /\ Len(jobs') = Len(jobs) /\ RefsAreApt' /\ WaitsAreApt'
          /\ connectionJob' = 0 /\ disconnectionJob' = 0 /\ crossed' = crossed
          /\ (OnExists => OnExists') /\ state' = "DISCONNECTED"
      BY <1>1, <1>5, ThrowKeeps
    <2>2. state' \in States BY <2>1 DEF States
    <2>3. TypeOK' BY <1>2, <1>5, <2>1, <2>2, StepTypes, Typed DEF main, wg, status
    <2> QED BY <1>2, <1>5, <2>1, <2>3 DEF Inv, TunIsServed, DisconnectingIsServed, main, wg
  <1> QED BY <1>3, <1>4, <1>5 DEF ReconnectBegins

\* A disconnection job begins to wait for the connection job it has cancelled;
\* no disconnection job is cancelled by it.
LEMMA DisconnectBeginsKeeps ==
  ASSUME Inv, NEW j, DisconnectBegins(j) PROVE Inv'
  <1>1. /\ j \in DOMAIN jobs /\ j \in 1 .. Len(jobs) /\ jobs[j] \in Job
        /\ jobs[j].kind = "disconnect" /\ jobs[j].at = "launched" /\ jobs[j] # Done
    BY AtIs DEF DisconnectBegins
  <1>2. TypeOK /\ RefsAreApt /\ WaitsAreApt /\ TunIsServed /\ DisconnectingIsServed BY DEF Inv
  <1> DEFINE c == connectionJob
             js == Cancelled(jobs, c)
  <1>3. /\ UNCHANGED <<state, main, refs, crossed, wg, status>>
        /\ jobs' = [js EXCEPT ![j] = [js[j] EXCEPT !.at = "join", !.waits = c]]
    BY DEF DisconnectBegins
  <1>4. jobs \in Seq(Job) /\ Len(jobs) \in Nat
        /\ c \in 0 .. Len(jobs) /\ disconnectionJob \in 0 .. Len(jobs)
    BY <1>2 DEF TypeOK
  <1>5. c # j BY <1>1, <1>2, <1>4 DEF RefsAreApt, NoJob
  <1>6. js[j] = jobs[j] BY <1>1, <1>4, <1>5, CancelledIs
  <1> DEFINE b == [jobs[j] EXCEPT !.at = "join", !.waits = c]
  <1>7. /\ b \in Job /\ b.at = "join" /\ b.waits = c /\ b.kind = "disconnect"
        /\ b.cancelled = jobs[j].cancelled
    <2>1. c \in Nat BY <1>4
    <2> QED BY <1>1, <2>1, WaitingIsJob
  <1>8. jobs' = [Cancelled(jobs, c) EXCEPT ![j] = b] BY <1>3, <1>6
  <1> HIDE DEF b, js
  <1>9. Moves(j, b) /\ (c # 0 => jobs'[c] = CancelledJob(jobs[c]))
    BY <1>1, <1>2, <1>4, <1>5, <1>7, <1>8, CancelMoves
  <1>10. /\ jobs' \in Seq(Job) /\ Len(jobs') = Len(jobs) /\ jobs'[j] = b
    BY <1>9 DEF Moves
  <1>11. \A k \in 1 .. Len(jobs) \ {j} :
           /\ jobs[k] \in Job
           /\ jobs[k] = Done => jobs'[k] = Done
           /\ jobs'[k] = Done
              \/ /\ jobs'[k].kind = jobs[k].kind /\ jobs'[k].at = jobs[k].at
                 /\ jobs'[k].waits = jobs[k].waits
                 /\ jobs[k].cancelled = TRUE => jobs'[k].cancelled = TRUE
    <2> TAKE k \in 1 .. Len(jobs) \ {j}
    <2>1. jobs[k] \in Job BY <1>4, ElementOfSeq
    <2>2. jobs'[k] = jobs[k] \/ jobs'[k] = CancelledJob(jobs[k]) BY <1>9 DEF Moves
    <2> QED BY <2>1, <2>2, CancelledJobKeeps
  <1>12. \A k \in 1 .. Len(jobs) : jobs'[k] = Done \/ jobs'[k].kind = jobs[k].kind
    BY <1>1, <1>7, <1>10, <1>11
  <1>13. \A k \in 1 .. Len(jobs) : jobs[k] = Done => jobs'[k] = Done
    BY <1>1, <1>11
  <1>14. \A k \in 1 .. Len(jobs) :
           jobs[k].cancelled = TRUE => jobs'[k] = Done \/ jobs'[k].cancelled = TRUE
    BY <1>1, <1>7, <1>10, <1>11
  <1>15. RefsAreApt' BY <1>2, <1>3, <1>4, <1>12, <1>13 DEF RefsAreApt, refs, NoJob
  <1>16. WaitsAreApt'
    <2> SUFFICES ASSUME NEW k \in 1 .. Len(jobs), jobs'[k].at = "join"
                 PROVE  /\ jobs'[k].waits \in 0 .. Len(jobs)
                        /\ \/ /\ jobs'[k].kind = "connect"
                              /\ jobs'[k].waits # 0 =>
                                   jobs'[jobs'[k].waits] = Done
                                   \/ jobs'[jobs'[k].waits].kind = "disconnect"
                           \/ /\ jobs'[k].kind = "disconnect"
                              /\ jobs'[k].waits # 0 =>
                                   jobs'[jobs'[k].waits] = Done
                                   \/ jobs'[jobs'[k].waits].cancelled = TRUE
      BY <1>10 DEF WaitsAreApt
    <2>1. CASE k = j
      <3>1. c # 0 => jobs'[c] = Done \/ jobs'[c].cancelled = TRUE
        <4> SUFFICES ASSUME c # 0 PROVE jobs'[c] = Done \/ jobs'[c].cancelled = TRUE
          OBVIOUS
        <4>1. jobs[c] \in Job BY <1>4, ElementOfSeq
        <4> QED BY <1>9, <4>1, CancelledJobKeeps
      <3> QED BY <2>1, <1>4, <1>7, <1>10, <3>1
    <2>2. CASE k # j
      <3>1. /\ jobs[k].at = "join" /\ jobs'[k].waits = jobs[k].waits
            /\ jobs'[k].kind = jobs[k].kind
        BY <2>2, <1>11, DoneIs
      <3>2. jobs[k].waits \in 0 .. Len(jobs) BY <3>1, <1>2 DEF WaitsAreApt
      <3> QED BY <3>1, <3>2, <1>2, <1>4, <1>12, <1>13, <1>14 DEF WaitsAreApt
    <2> QED BY <2>1, <2>2
  <1>17. TypeOK' BY <1>2, <1>3, <1>10 DEF TypeOK, main, refs, wg, status
  <1>18. OnExists => OnExists'
    <2> SUFFICES ASSUME OnExists PROVE OnExists'
      OBVIOUS
    <2>1. PICK k \in 1 .. Len(jobs) : jobs[k].at = "on" BY DEF OnExists
    <2>2. k # j /\ jobs[k] \in Job BY <2>1, <1>1, <1>11
    <2>3. CancelledJob(jobs[k]).at = "on" BY <2>1, <2>2 DEF CancelledJob, Job, Done
    <2>4. jobs'[k].at = "on" BY <1>9, <2>1, <2>2, <2>3 DEF Moves
    <2> QED BY <1>10, <2>4 DEF OnExists
  <1>19. DisconnectionExists => DisconnectionExists'
    <2> SUFFICES ASSUME DisconnectionExists PROVE DisconnectionExists'
      OBVIOUS
    <2>1. PICK k \in 1 .. Len(jobs) : jobs[k].kind = "disconnect" /\ jobs[k].cancelled = FALSE
      BY DEF DisconnectionExists
    <2>2. CASE k = j BY <2>1, <2>2, <1>7, <1>10 DEF DisconnectionExists
    <2>3. CASE k # j
      <3>1. k # c BY <2>1, <1>2, DoneIs DEF RefsAreApt, NoJob
      <3>2. /\ Cancelled(jobs, c) \in Seq(Job) /\ Len(Cancelled(jobs, c)) = Len(jobs)
            /\ Cancelled(jobs, c)[k] = jobs[k]
        BY <1>4, <3>1, CancelledIs
      <3>3. jobs'[k] = jobs[k] BY <1>1, <1>7, <1>8, <2>3, <3>2, ExceptSeq
      <3> QED BY <2>1, <3>3, <1>10 DEF DisconnectionExists
    <2> QED BY <2>2, <2>3
  <1> QED BY <1>2, <1>3, <1>15, <1>16, <1>17, <1>18, <1>19
          DEF Inv, TunIsServed, DisconnectingIsServed, wg, main

\* A disconnection job whose wait is over, or that was cancelled.
LEMMA DisconnectJoinedKeeps ==
  ASSUME Inv, NEW j, DisconnectJoined(j) PROVE Inv'
  <1>1. /\ j \in DOMAIN jobs /\ jobs[j] \in Job
        /\ jobs[j].kind = "disconnect" /\ jobs[j].at = "join" /\ jobs[j] # Done
    BY AtIs DEF DisconnectJoined
  <1>2. /\ UNCHANGED <<state, main, disconnectionJob, wg, status>>
        /\ connectionJob' \in {connectionJob, NoJob}
        /\ (jobs[j].cancelled /\ Goto(j, "done")) \/ Goto(j, "stop")
    BY DEF DisconnectJoined
  <1>3. crossed' \in BOOLEAN BY Typed DEF DisconnectJoined, Forget
  <1>4. PICK at \in {"done", "stop"} : Goto(j, at) /\ (at = "done" => jobs[j].cancelled = TRUE)
    BY <1>1, <1>2 DEF Job
  <1>5. at \in Places \ {"join", "launched"} BY DEF Places
  <1>6. /\ jobs' \in Seq(Job) /\ Len(jobs') = Len(jobs) /\ RefsAreApt' /\ WaitsAreApt'
        /\ (OnExists => OnExists') /\ (DisconnectionExists => DisconnectionExists')
    BY <1>1, <1>2, <1>4, <1>5, GotoKeeps
  <1>7. TypeOK' BY <1>2, <1>3, <1>6, StepTypes, Typed DEF main, wg, status, NoJob
  <1> QED BY <1>2, <1>6, <1>7 DEF Inv, TunIsServed, DisconnectingIsServed, wg, main

\* stopVpn closes the interface with the backend.
LEMMA StopVpnKeeps ==
  ASSUME Inv, NEW j, StopVpn(j) PROVE Inv'
  <1>1. /\ j \in DOMAIN jobs /\ jobs[j] \in Job
        /\ jobs[j].kind = "disconnect" /\ jobs[j].at = "stop" /\ jobs[j] # Done
    BY AtIs DEF StopVpn
  <1>2. /\ UNCHANGED <<state, main, refs, crossed, lost, config>>
        /\ \/ TurnOff /\ tun' = FALSE /\ Goto(j, "tell")
           \/ Goto(j, "wait") /\ UNCHANGED <<handle, tun, status>>
    BY DEF StopVpn
  <1>3. PICK at \in {"tell", "wait"} : Goto(j, at) BY <1>2
  <1>4. at \in Places \ {"join", "launched", "done"} BY DEF Places
  <1>5. /\ jobs' \in Seq(Job) /\ Len(jobs') = Len(jobs) /\ RefsAreApt' /\ WaitsAreApt'
        /\ (OnExists => OnExists') /\ (DisconnectionExists => DisconnectionExists')
    BY <1>1, <1>2, <1>3, <1>4, GotoKeeps DEF refs
  <1>6. /\ handle' \in BOOLEAN /\ tun' \in BOOLEAN
        /\ statusJobs' \in Seq(Status) /\ statusJob' \in 0 .. Len(statusJobs')
    <2>1. CASE TurnOff /\ tun' = FALSE BY <2>1, TurnOffTypes
    <2>2. CASE UNCHANGED <<handle, tun, status>> BY <2>2, Typed DEF status
    <2> QED BY <1>2, <2>1, <2>2
  <1>7. TypeOK' BY <1>2, <1>5, <1>6, StepTypes, Typed DEF main, refs
  <1>8. TunIsServed' BY <1>2, <1>5 DEF Inv, TunIsServed
  <1> QED BY <1>2, <1>5, <1>7, <1>8 DEF Inv, DisconnectingIsServed, main

\* stopVpn reports the end of the tunnel.
LEMMA StopToldKeeps ==
  ASSUME Inv, NEW j, StopTold(j) PROVE Inv'
  <1>1. /\ j \in DOMAIN jobs /\ jobs[j] \in Job
        /\ jobs[j].kind = "disconnect" /\ jobs[j].at = "tell" /\ jobs[j] # Done
    BY AtIs DEF StopTold
  <1>2. /\ UNCHANGED <<main, refs, wg, status>> /\ state' = "DISCONNECTED"
        /\ Goto(j, "wait")
    BY DEF StopTold, Set
  <1>3. crossed' \in BOOLEAN BY DEF StopTold
  <1>4. /\ jobs' \in Seq(Job) /\ Len(jobs') = Len(jobs) /\ RefsAreApt' /\ WaitsAreApt'
        /\ (OnExists => OnExists')
    BY <1>1, <1>2, GotoKeeps DEF Places, refs
  <1>5. state' \in States BY <1>2 DEF States
  <1>6. TypeOK' BY <1>2, <1>3, <1>4, <1>5, StepTypes, Typed DEF main, refs, wg, status
  <1> QED BY <1>2, <1>4, <1>6 DEF Inv, TunIsServed, DisconnectingIsServed, wg

\* A disconnection job that ends has seen DISCONNECTED or stops the service,
\* unless it was cancelled.
LEMMA DisconnectDoneKeeps ==
  ASSUME Inv, NEW j, DisconnectDone(j) PROVE Inv'
  <1>1. /\ j \in DOMAIN jobs /\ jobs[j] \in Job
        /\ jobs[j].kind = "disconnect" /\ jobs[j].at = "wait" /\ jobs[j] # Done
    BY AtIs DEF DisconnectDone
  <1>2. /\ UNCHANGED <<state, shown, reacting, listener, bound, joining, refs, crossed, wg, status>>
        /\ Goto(j, "done")
    BY DEF DisconnectDone
  <1>3. /\ jobs' \in Seq(Job) /\ Len(jobs') = Len(jobs) /\ RefsAreApt' /\ WaitsAreApt'
        /\ (OnExists => OnExists')
        /\ (jobs[j].cancelled = TRUE /\ DisconnectionExists => DisconnectionExists')
    BY <1>1, <1>2, GotoKeeps DEF Places, refs
  <1>4. service' \in {service, "stopping"} BY DEF DisconnectDone, StopService
  <1>5. TypeOK' BY <1>2, <1>3, <1>4, StepTypes, Typed DEF refs, wg, status
  <1>6. DisconnectingIsServed'
    <2>1. CASE jobs[j].cancelled = TRUE
      BY <2>1, <1>2, <1>3, <1>4 DEF Inv, DisconnectingIsServed
    <2>2. CASE state = "DISCONNECTED" BY <2>2, <1>2 DEF DisconnectingIsServed
    <2>3. CASE jobs[j].cancelled = FALSE /\ state # "DISCONNECTED"
      <3>1. service' # "running" BY <2>3 DEF DisconnectDone, StopService
      <3> QED BY <3>1 DEF DisconnectingIsServed
    <2>4. jobs[j].cancelled \in BOOLEAN BY <1>1 DEF Job
    <2> QED BY <2>1, <2>2, <2>3, <2>4
  <1>7. TunIsServed' BY <1>2, <1>3 DEF Inv, TunIsServed, wg
  <1> QED BY <1>3, <1>5, <1>6, <1>7 DEF Inv

-----------------------------------------------------------------------------
(* The status jobs keep the invariant.                                     *)

\* A step of a status job touches no job of the service, and reports connected
\* or disconnected if it reports anything.
LEMMA StatusStepKeeps ==
  ASSUME Inv, NEW s, StatusStep(s) PROVE Inv'
  <1>1. TypeOK BY DEF Inv
  <1>2. /\ UNCHANGED <<main, jobs, refs, wg>> /\ s \in DOMAIN statusJobs
        /\ statusJob' \in {statusJob, 0}
    BY DEF StatusStep, StatusStops, StatusPolls, StatusQueries, StatusWrites, StatusEnds,
           StatusAt, jobVars, NoJob
  <1>3. s \in 1 .. Len(statusJobs) /\ statusJobs[s] \in Status
    <2>1. s \in 1 .. Len(statusJobs) BY <1>1, <1>2 DEF TypeOK
    <2> QED BY <1>1, <2>1, ElementOfSeq DEF TypeOK
  <1>4. state' \in {state, "CONNECTED", "DISCONNECTED"}
    BY <1>3 DEF StatusStep, StatusStops, StatusPolls, StatusQueries, StatusWrites, StatusEnds,
                Set, Status
  <1>5. crossed' \in BOOLEAN
    <2>1. CASE UNCHANGED crossed BY <2>1, Typed
    <2>2. CASE StatusWrites(s) \/ StatusEnds(s) BY <2>2 DEF StatusWrites, StatusEnds
    <2> QED BY <2>1, <2>2
        DEF StatusStep, StatusStops, StatusPolls, StatusQueries, jobVars
  <1>6. PICK b \in Status : statusJobs' = [statusJobs EXCEPT ![s] = b]
    <2>1. Over \in Status BY DEF Over, Status
    <2>2. \A at \in {"poll", "query", "write", "clear"}, seen \in {"CONNECTED", "DISCONNECTED"} :
            /\ [statusJobs[s] EXCEPT !.at = at] \in Status
            /\ [statusJobs[s] EXCEPT !.at = at, !.seen = seen] \in Status
      BY <1>3 DEF Status
    <2>3. CASE StatusStops(s) \/ StatusEnds(s) BY <2>1, <2>3 DEF StatusStops, StatusEnds
    <2>4. CASE StatusPolls(s)
      <3>1. \/ statusJobs' = [statusJobs EXCEPT ![s] = [@ EXCEPT !.at = "query"]]
            \/ statusJobs' = [statusJobs EXCEPT ![s] =
                                [@ EXCEPT !.at = "write", !.seen = "DISCONNECTED"]]
        BY <2>4 DEF StatusPolls
      <3> QED BY <2>2, <3>1
    <2>5. CASE StatusQueries(s) BY <2>2, <2>5 DEF StatusQueries
    <2>6. CASE StatusWrites(s) BY <2>2, <2>6 DEF StatusWrites
    <2> QED BY <2>3, <2>4, <2>5, <2>6 DEF StatusStep
  <1>7. statusJobs' \in Seq(Status) /\ Len(statusJobs') = Len(statusJobs)
    BY <1>3, <1>6, Typed, ExceptSeq
  <1>8. statusJob' \in 0 .. Len(statusJobs') BY <1>2, <1>7, Typed
  <1>9. TypeOK'
    <2>1. state' \in States BY <1>4, Typed DEF States
    <2> QED BY <1>1, <1>2, <1>5, <1>7, <1>8, <2>1 DEF TypeOK, main, refs, wg
  <1>10. /\ RefsAreApt' /\ WaitsAreApt' /\ (OnExists => OnExists')
         /\ (DisconnectionExists => DisconnectionExists')
    BY <1>2, JobsUnchangedKeeps DEF refs
  <1>11. DisconnectingIsServed' BY <1>2, <1>4, <1>10 DEF Inv, DisconnectingIsServed, main
  <1>12. TunIsServed' BY <1>2, <1>10 DEF Inv, TunIsServed, wg
  <1> QED BY <1>9, <1>10, <1>11, <1>12 DEF Inv

-----------------------------------------------------------------------------
(* The theorems.                                                           *)

\* A service that has just been created satisfies the invariant.
LEMMA InitInv == Init => Inv
  <1> SUFFICES ASSUME Init PROVE Inv
    OBVIOUS
  <1>1. /\ jobs = <<>> /\ connectionJob = 0 /\ disconnectionJob = 0 /\ joining = 0
        /\ tun = FALSE /\ state = "UNKNOWN" /\ statusJobs = <<>> /\ statusJob = 0
    BY DEF Init, NoJob
  <1>2. <<>> \in Seq(Job) /\ <<>> \in Seq(Status) /\ Len(<<>>) = 0 OBVIOUS
  <1>3. jobs \in Seq(Job) /\ Len(jobs) = 0 BY <1>1, <1>2
  <1>4. statusJobs \in Seq(Status) /\ Len(statusJobs) = 0 BY <1>1, <1>2
  <1>5. {joining, connectionJob, disconnectionJob} \subseteq 0 .. Len(jobs) BY <1>1, <1>3
  <1>6. statusJob \in 0 .. Len(statusJobs) BY <1>1, <1>4
  <1>7. /\ state \in States /\ crossed \in BOOLEAN /\ shown \in States
        /\ reacting \in BOOLEAN /\ listener \in BOOLEAN /\ bound \in BOOLEAN
        /\ service \in {"running", "stopping", "destroying", "gone"}
        /\ handle \in BOOLEAN /\ tun \in BOOLEAN /\ lost \in BOOLEAN /\ config \in BOOLEAN
    BY Zenon DEF Init, States
  <1>8. TypeOK BY <1>3, <1>4, <1>5, <1>6, <1>7 DEF TypeOK
  <1>9. RefsAreApt /\ WaitsAreApt BY <1>1, <1>3 DEF RefsAreApt, WaitsAreApt, NoJob
  <1> QED BY <1>1, <1>8, <1>9 DEF Inv, TunIsServed, DisconnectingIsServed

\* Every step keeps the invariant.
LEMMA NextKeeps == Inv /\ [Next]_vars => Inv'
  <1> SUFFICES ASSUME Inv, [Next]_vars PROVE Inv'
    OBVIOUS
  <1>1. CASE Requests
    BY <1>1, ConnectKeeps, DisconnectKeeps, ReconnectKeeps, MainKeeps DEF Requests
  <1>2. CASE MainStep BY <1>2, MainKeeps, DestroyKeeps, DestroyedKeeps DEF MainStep
  <1>3. CASE Kill BY <1>3, KillKeeps
  <1>4. CASE \E j \in JobIds : JobStep(j)
    <2>1. PICK j \in JobIds : JobStep(j) BY <1>4
    <2> QED BY <2>1, ConnectBeginsKeeps, ConnectJoinedKeeps, InitializeKeeps, TurnOnKeeps,
               ConfigKeptKeeps, ReconnectBeginsKeeps, DisconnectBeginsKeeps,
               DisconnectJoinedKeeps, StopVpnKeeps, StopToldKeeps, DisconnectDoneKeeps
            DEF JobStep
  <1>5. CASE \E s \in StatusIds : StatusStep(s) BY <1>5, StatusStepKeeps
  <1>6. CASE UNCHANGED vars
    <2>1. UNCHANGED <<state, main, jobVars, wg, status>> BY <1>6 DEF vars
    <2>2. /\ RefsAreApt' /\ WaitsAreApt' /\ (OnExists => OnExists')
          /\ (DisconnectionExists => DisconnectionExists')
      BY <2>1, JobsUnchangedKeeps DEF jobVars, refs
    <2>3. TypeOK' BY <2>1 DEF Inv, TypeOK, main, jobVars, refs, wg, status
    <2> QED BY <2>1, <2>2, <2>3 DEF Inv, TunIsServed, DisconnectingIsServed, main, wg
  <1> QED BY <1>1, <1>2, <1>3, <1>4, <1>5, <1>6 DEF Next

\* The invariant holds in every state of the service.
LEMMA InvHolds == Spec => []Inv
  BY InitInv, NextKeeps, PTL DEF Spec

\* Every variable keeps its type: in particular the fields of the service and
\* onDestroy name jobs that were launched, however many there were.
THEOREM AndroidTypes == Spec => []TypeOK
  <1>1. Inv => TypeOK BY DEF Inv
  <1> QED BY <1>1, InvHolds, PTL

\* No set of jobs waits for itself.  A connection job waits for a disconnection
\* job, that one for a job it has cancelled, and a cancelled job is not blocked.
THEOREM AndroidNoCircularWait == Spec => []NoCircularWait
  <1>1. Inv => NoCircularWait
    <2> SUFFICES ASSUME Inv, NEW S \in (SUBSET DOMAIN jobs) \ {{}},
                        \A j \in S : Blocked(j) /\ jobs[j].waits \in S
                 PROVE  FALSE
      BY Zenon DEF NoCircularWait
    <2>1. WaitsAreApt /\ DOMAIN jobs = 1 .. Len(jobs) BY LenProperties DEF Inv, TypeOK
    <2>2. \A j \in S : jobs[j].kind # "disconnect"
      <3> SUFFICES ASSUME NEW j \in S, jobs[j].kind = "disconnect" PROVE FALSE
        OBVIOUS
      <3>1. Blocked(j) /\ Blocked(jobs[j].waits) OBVIOUS
      <3>2. jobs[jobs[j].waits].cancelled = TRUE
        BY <2>1, <3>1 DEF WaitsAreApt, Blocked, IsOver, NoJob
      <3> QED BY <3>1, <3>2 DEF Blocked
    <2>3. PICK j \in S : TRUE OBVIOUS
    <2>4. Blocked(j) /\ jobs[j].waits \in S OBVIOUS
    <2>5. jobs[jobs[j].waits].kind = "disconnect"
      BY <2>1, <2>2, <2>4 DEF WaitsAreApt, Blocked, IsOver, NoJob
    <2> QED BY <2>2, <2>4, <2>5
  <1> QED BY <1>1, InvHolds, PTL

\* Once the jobs have ended, an open interface has a backend behind it: a job
\* about to start one exists from the opening of the interface on.
LEMMA QuietIsServed ==
  ASSUME Inv, tun, Quiet PROVE handle
  <1>1. SUFFICES ASSUME ~handle PROVE FALSE
    OBVIOUS
  <1>2. DOMAIN jobs = 1 .. Len(jobs) BY LenProperties DEF Inv, TypeOK
  <1>3. PICK k \in 1 .. Len(jobs) : jobs[k].at = "on" BY <1>1 DEF Inv, TunIsServed, OnExists
  <1>4. jobs[k] = Done BY <1>2, <1>3 DEF Quiet
  <1> QED BY <1>3, <1>4, DoneIs

\* A service that runs and says DISCONNECTING has a job that will settle it.
THEOREM AndroidDisconnectionIsSettled == Spec => []DisconnectionIsSettled
  <1>1. Inv => DisconnectionIsSettled
    <2> SUFFICES ASSUME Inv, Quiet, state = "DISCONNECTING", service = "running" PROVE FALSE
      BY DEF DisconnectionIsSettled
    <2>1. DOMAIN jobs = 1 .. Len(jobs) BY LenProperties DEF Inv, TypeOK
    <2>2. PICK k \in 1 .. Len(jobs) : jobs[k].kind = "disconnect" /\ jobs[k].cancelled = FALSE
      BY DEF Inv, DisconnectingIsServed, DisconnectionExists
    <2>3. jobs[k] = Done BY <2>1, <2>2 DEF Quiet
    <2> QED BY <2>2, <2>3, DoneIs
  <1> QED BY <1>1, InvHolds, PTL
=============================================================================
