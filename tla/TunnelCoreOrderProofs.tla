------------------------ MODULE TunnelCoreOrderProofs ------------------------
(***************************************************************************)
(* For any number of requests in flight: while signing out has met no      *)
(* other request, the client waits for one reply at a time, so that a      *)
(* configuration is imported under its own profile, a confirmed sign-out   *)
(* leaves no device slot behind, and configurations are asked for with the *)
(* rules of the chosen region in force.                                    *)
(***************************************************************************)
EXTENDS TunnelCoreProofs

\* Request i will call back, in the session it was made in.
Live(i) == net[i] # Idle /\ net[i].heard /\ net[i].gen = generation

\* Requests after which a configuration may still wait to be fetched.
Carrying == {"routing", "configs"}

\* Requests for a configuration, which is their argument.
Fetching == {"config", "download"}

\* Only a session knows of an overlap, and a client with a session has no
\* sign-in under way.
OverlapIsOfSession == overlap => session.token # NoToken

NoSignInLeft == session.token # NoToken => \A i \in Slots : Live(i) => net[i].kind # "auth"

\* Without an overlap one request at most will call back, none when the client
\* is idle, and only a chain that will list the configurations carries one.
OneAtATime ==
  ~overlap =>
    /\ \A i, j \in Slots : Live(i) /\ Live(j) => i = j
    /\ ~busy => pending = None /\ \A i \in Slots : ~Live(i)
    /\ \A i \in Slots : Live(i) /\ net[i].kind \notin Carrying => pending = None

\* Without an overlap, what is fetched or waits to be fetched is what is selected.
FetchesSelected ==
  ~overlap =>
    /\ \A i \in Slots : Live(i) /\ net[i].kind \in Fetching =>
         account.selection.config \in {net[i].arg, None}
    /\ pending # None => account.selection.config \in {pending, None}

OrderInv == OverlapIsOfSession /\ NoSignInLeft /\ OneAtATime /\ FetchesSelected /\ ProfileMatches

-----------------------------------------------------------------------------
(* What a step does to the requests that will call back.                   *)

\* request(): the new one does, the others are as before.
LEMMA SendLive ==
  ASSUME SessionInv, NEW i \in Slots, NEW kind, NEW arg, NEW token, Send(i, kind, arg, token)
  PROVE  /\ Live(i)' /\ net'[i].kind = kind /\ net'[i].arg = arg /\ net'[i].token = token
         /\ ~net'[i].answered
         /\ \A j \in Slots : j # i => net'[j] = net[j]
         /\ generation' = generation /\ busy' = TRUE
  <1>1. /\ net' = [net EXCEPT ![i] = NewRequest(kind, arg, generation, token)]
        /\ generation' = generation /\ DOMAIN net = Slots /\ busy' = TRUE
    BY DEF Send, NewRequest, SessionInv, RequestsAreSound
  <1>2. net'[i] = NewRequest(kind, arg, generation, token) /\ \A j \in Slots : j # i => net'[j] = net[j]
    BY <1>1
  <1>3. net'[i] # Idle
    <2>1. DOMAIN NewRequest(kind, arg, generation, token) # DOMAIN Idle
      BY DEF NewRequest, Idle
    <2> QED BY <1>2, <2>1
  <1>4. /\ net'[i].heard /\ net'[i].gen = generation /\ net'[i].kind = kind
        /\ net'[i].arg = arg /\ net'[i].token = token /\ ~net'[i].answered
    BY <1>2 DEF NewRequest
  <1> QED BY <1>1, <1>2, <1>3, <1>4 DEF Live

\* A request that is over does not call back, and keeps its token.
LEMMA UnheardIs ==
  ASSUME NEW r, r = Idle \/ DOMAIN r = RequestFields
  PROVE  \/ Unheard(r) = Idle
         \/ /\ r # Idle /\ ~r.answered /\ ~Unheard(r).heard /\ Unheard(r).token = r.token
            /\ Unheard(r).kind = r.kind /\ Unheard(r).arg = r.arg /\ Unheard(r).gen = r.gen
            /\ Unheard(r).answered = r.answered /\ Unheard(r).answer = r.answer
  BY DEF Unheard, RequestFields

LEMMA OverLive ==
  ASSUME SessionInv, NEW i \in Slots, net' = Over(i)
  PROVE  /\ ~Live(i)'
         /\ net'[i] # Idle => net[i] # Idle /\ net'[i].token = net[i].token
         /\ \A j \in Slots : j # i => net'[j] = net[j]
  <1>1. net' = [net EXCEPT ![i] = Unheard(net[i])] BY DEF Over, Unheard
  <1>2. DOMAIN net = Slots /\ (net[i] = Idle \/ DOMAIN net[i] = RequestFields)
    BY DEF SessionInv, RequestsAreSound, RequestIsSound
  <1>3. net'[i] = Unheard(net[i]) /\ \A j \in Slots : j # i => net'[j] = net[j] BY <1>1, <1>2
  <1> QED BY <1>2, <1>3, UnheardIs DEF Live

\* What a live request was made with.
LEMMA LiveIs ==
  ASSUME SessionInv, NEW i \in Slots, Live(i)
  PROVE  net[i].kind = "auth" \/ (session.token # NoToken /\ net[i].token = session.token)
  BY DEF SessionInv, RequestsAreSound, RequestIsSound, Live

\* A new generation waits for nothing.
LEMMA NewGeneration ==
  ASSUME SessionInv, generation' = generation + 1,
         \A j \in Slots : net'[j] = net[j] \/ ~Live(j)'
  PROVE  \A j \in Slots : ~Live(j)'
  BY DEF SessionInv, SessionIsSound, RequestsAreSound, RequestIsSound, Live

-----------------------------------------------------------------------------
(* Order.                                                                  *)

\* A step that leaves one request or makes it, at slot i.
LEMMA SendOrder ==
  ASSUME SessionInv, OrderInv, NEW i \in Slots, NEW kind, NEW arg, NEW token,
         Send(i, kind, arg, token), ProfileMatches', OverlapIsOfSession',
         session'.token # NoToken => /\ kind # "auth"
                                     /\ \A j \in Slots : j # i /\ Live(j) => net[j].kind # "auth",
         ~overlap' => /\ \A j \in Slots : j # i => ~Live(j)
                      /\ pending' # None => kind \in Carrying
                                            /\ account'.selection.config \in {pending', None}
                      /\ kind \in Fetching => account'.selection.config \in {arg, None}
  PROVE  OrderInv'
  <1>1. /\ Live(i)' /\ net'[i].kind = kind /\ net'[i].arg = arg
        /\ \A j \in Slots : j # i => net'[j] = net[j] /\ generation' = generation
        /\ busy' = TRUE
    BY SendLive
  <1>2. \A j \in Slots : j # i => (Live(j)' <=> Live(j)) BY <1>1 DEF Live
  <1>3. NoSignInLeft' BY <1>1, <1>2 DEF NoSignInLeft
  <1>4. OneAtATime' BY <1>1, <1>2 DEF OneAtATime
  <1>5. FetchesSelected' BY <1>1, <1>2 DEF FetchesSelected
  <1> QED BY <1>3, <1>4, <1>5 DEF OrderInv

\* A step after which the client is idle.
LEMMA EndOrder ==
  ASSUME SessionInv, OrderInv, busy' = FALSE, ProfileMatches', OverlapIsOfSession',
         \A j \in Slots : Live(j)' => Live(j) /\ net'[j] = net[j],
         session'.token # NoToken => session.token # NoToken,
         ~overlap' => pending' = None /\ \A j \in Slots : ~Live(j)'
  PROVE  OrderInv'
  <1>1. NoSignInLeft' BY DEF NoSignInLeft, OrderInv
  <1>2. OneAtATime' BY DEF OneAtATime
  <1>3. FetchesSelected' BY DEF FetchesSelected
  <1> QED BY <1>1, <1>2, <1>3 DEF OrderInv

\* A step that neither makes a request nor ends one that would call back.
LEMMA QuietOrder ==
  ASSUME SessionInv, OrderInv, UNCHANGED <<busy, pending, generation, session, overlap>>,
         account'.selection = account.selection, ProfileMatches',
         \A j \in Slots : Live(j)' => Live(j) /\ net'[j].kind = net[j].kind
                                              /\ net'[j].arg = net[j].arg
  PROVE  OrderInv'
  <1>1. NoSignInLeft' BY DEF NoSignInLeft, OrderInv
  <1>2. OneAtATime' BY DEF OneAtATime, OrderInv
  <1>3. FetchesSelected' BY DEF FetchesSelected, OrderInv
  <1>4. OverlapIsOfSession' BY DEF OverlapIsOfSession, OrderInv
  <1> QED BY <1>1, <1>2, <1>3, <1>4 DEF OrderInv

\* A step that imports nothing.
LEMMA UndeliveredMatches == delivered' = Undelivered => ProfileMatches'
  BY DEF ProfileMatches, Undelivered

\* The reply that is read is the only one, and carries a configuration only
\* through the chain.
LEMMA ReplyIsAlone ==
  ASSUME OrderInv, NEW i \in Slots, Live(i), ~overlap
  PROVE  /\ \A j \in Slots : j # i => ~Live(j)
         /\ net[i].kind \notin Carrying => pending = None
         /\ net[i].kind \in Fetching => account.selection.config \in {net[i].arg, None}
  BY DEF OrderInv, OneAtATime, FetchesSelected

\* The reply to i is followed by the next request of the chain.
LEMMA ReplySends ==
  ASSUME SessionInv, OrderInv, NEW i \in Slots, Live(i), NEW kind, NEW arg, NEW token,
         Send(i, kind, arg, token), kind # "auth", overlap' = overlap,
         session'.token = session.token, delivered' = Undelivered,
         ~overlap => /\ pending' # None => /\ kind \in Carrying
                                           /\ account'.selection.config \in {pending', None}
                     /\ kind \in Fetching => account'.selection.config \in {arg, None}
  PROVE  OrderInv'
  <1>1. ProfileMatches' BY UndeliveredMatches
  <1>2. OverlapIsOfSession' BY DEF OrderInv, OverlapIsOfSession
  <1>3. session'.token # NoToken => \A j \in Slots : Live(j) => net[j].kind # "auth"
    BY DEF OrderInv, NoSignInLeft
  <1>4. ~overlap' => \A j \in Slots : j # i => ~Live(j) BY ReplyIsAlone
  <1> QED BY <1>1, <1>2, <1>3, <1>4, SendOrder

\* The reply to i ends the chain.
LEMMA ReplyEnds ==
  ASSUME SessionInv, OrderInv, NEW i \in Slots, Live(i), net' = Over(i), busy' = FALSE,
         UNCHANGED <<overlap, generation>>, session'.token = session.token, ProfileMatches',
         ~overlap => pending' = None
  PROVE  OrderInv'
  <1>1. ~Live(i)' /\ \A j \in Slots : j # i => net'[j] = net[j] BY OverLive
  <1>2. \A j \in Slots : Live(j)' => Live(j) /\ net'[j] = net[j] /\ j # i BY <1>1 DEF Live
  <1>3. ~overlap' => \A j \in Slots : ~Live(j)' BY <1>2, ReplyIsAlone
  <1>4. OverlapIsOfSession' BY DEF OrderInv, OverlapIsOfSession
  <1> QED BY <1>2, <1>3, <1>4, EndOrder

\* clearSession.
LEMMA ForgetOrder ==
  ASSUME SessionInv, OrderInv, Forget, delivered' = Undelivered,
         \A j \in Slots : net'[j] = net[j] \/ ~Live(j)'
  PROVE  OrderInv'
  <1>1. \A j \in Slots : ~Live(j)' BY NewGeneration DEF Forget
  <1>2. busy' = FALSE /\ pending' = None /\ overlap' = FALSE /\ session'.token = NoToken
    BY DEF Forget, NoSession
  <1>3. OverlapIsOfSession' BY <1>2 DEF OverlapIsOfSession
  <1> QED BY <1>1, <1>2, <1>3, UndeliveredMatches, EndOrder

\* An operation of an idle client makes a request.
LEMMA OperationSends ==
  ASSUME SessionInv, OrderInv, ~busy, NEW i \in Slots, NEW kind, NEW arg, NEW token,
         Send(i, kind, arg, token), UNCHANGED <<overlap, session>>,
         kind = "auth" => session.token = NoToken, delivered' = Undelivered,
         account'.selection = account.selection,
         ~overlap => pending' = None
                     /\ (kind \in Fetching => account.selection.config \in {arg, None})
  PROVE  OrderInv'
  <1>1. OverlapIsOfSession' BY DEF OrderInv, OverlapIsOfSession
  <1>2. ~overlap' => \A j \in Slots : ~Live(j) BY DEF OrderInv, OneAtATime
  <1>3. session'.token # NoToken => \A j \in Slots : Live(j) => net[j].kind # "auth"
    BY DEF OrderInv, NoSignInLeft
  <1> QED BY <1>1, <1>2, <1>3, UndeliveredMatches, SendOrder

\* An operation fails before it makes a request: only a sign-out may do so while
\* the client is busy.
LEMMA RejectOrder ==
  ASSUME SessionInv, OrderInv, Reject, UNCHANGED <<overlap, session, account>>,
         delivered' = Undelivered, ~busy
  PROVE  OrderInv'
  <1>1. \A j \in Slots : (Live(j)' <=> Live(j)) /\ net'[j] = net[j] BY DEF Reject, Live
  <1>2. ~overlap' => pending' = None /\ \A j \in Slots : ~Live(j)'
    BY <1>1 DEF OrderInv, OneAtATime, Reject
  <1>3. OverlapIsOfSession' BY DEF OrderInv, OverlapIsOfSession
  <1> QED BY <1>1, <1>2, <1>3, UndeliveredMatches, EndOrder DEF Reject

\* A client with a session has a device id, so that signing out is never
\* refused for want of one.
DeviceIsKnown == session.token # NoToken => deviceId = TRUE

LEMMA DeviceNext == SessionInv /\ DeviceIsKnown /\ [Next]_vars => DeviceIsKnown'
  <1> SUFFICES ASSUME SessionInv, DeviceIsKnown, [Next]_vars PROVE DeviceIsKnown'
    OBVIOUS
  <1>0. saved = session /\ DOMAIN session = {"token", "email", "linked"}
    BY DEF SessionInv, SessionIsSound
  <1>1. CASE deviceId' = TRUE BY <1>1 DEF DeviceIsKnown
  <1>2. CASE deviceId' = deviceId /\ session'.token \in {session.token, NoToken}
    BY <1>2 DEF DeviceIsKnown
  <1>3. CASE UNCHANGED local BY <1>2, <1>3 DEF local
  <1>4. CASE Forget BY <1>2, <1>4 DEF Forget, NoSession
  <1>5. CASE User
    <2>1. CASE CancelSignIn BY <1>4, <2>1 DEF CancelSignIn
    <2>2. CASE \E kind \in {"revoke", "revokeAll"} : SignOut(kind) BY <1>3, <2>2 DEF SignOut
    <2>3. CASE \E mode \in {"auto"} \cup Locations : SelectVpnCountry(mode)
      BY <1>1, <2>3 DEF SelectVpnCountry
    <2>4. CASE \E region \in Regions \cup {None} : SelectRegion(region)
      BY <1>3, <2>4 DEF SelectRegion
    <2> QED BY <1>3, <1>5, <2>1, <2>2, <2>3, <2>4
        DEF User, SignIn, RejectInput, LinkTelegram, RequestAccountDeletion, Refresh,
            SelectCurrentConfig
  <1>6. ASSUME NEW i \in Slots, Reply(i) PROVE DeviceIsKnown'
    <2>1. CASE AuthDone(i) \/ SelectionMissing(i) BY <1>1, <2>1 DEF AuthDone, SelectionMissing
    <2>2. CASE LinkDone(i) \/ MeDone(i) BY <1>0, <1>2, <2>2 DEF LinkDone, MeDone
    <2>3. CASE SignedOut(i) \/ Unauthorized(i) BY <1>4, <2>3 DEF SignedOut, Unauthorized
    <2> QED BY <1>3, <1>6, <2>1, <2>2, <2>3
        DEF Reply, RegisterDone, DeleteDone, SelectionDone, RegionsDone, RegionsLegacy,
            RoutingDone, RoutingLegacy, ConfigsDone, SelectDone, ConfigDone, DownloadDone,
            Lost, Ignored
  <1>7. CASE \E i \in Slots : Serve(i) \/ Drop(i) BY <1>3, <1>7 DEF Serve, Drop
  <1>8. CASE \E b \in background : BackgroundDone(b) \/ ServeBackground(b)
    BY <1>3, <1>8 DEF BackgroundDone, ServeBackground
  <1>9. CASE Expire \/ RemoveDevice \/ Publish \/ Age \/ EditSites
    BY <1>3, <1>9 DEF Expire, RemoveDevice, Publish, Age, EditSites
  <1>10. CASE Restart
    <2>1. session' = session /\ (session.token = NoToken \/ deviceId' = TRUE)
      BY <1>0, <1>10 DEF Restart
    <2> QED BY <2>1 DEF DeviceIsKnown
  <1>11. CASE UNCHANGED vars BY <1>3, <1>11 DEF vars
  <1> QED BY <1>5, <1>6, <1>7, <1>8, <1>9, <1>10, <1>11 DEF Next

\* The operations of the user.
LEMMA UserOrder ==
  SessionInv /\ BusyIsServed /\ DeviceIsKnown /\ OrderInv /\ User => OrderInv'
  <1> SUFFICES ASSUME SessionInv, BusyIsServed, DeviceIsKnown, OrderInv, User PROVE OrderInv'
    OBVIOUS
  <1>0. ~overlap /\ ~busy => pending = None BY DEF OrderInv, OneAtATime
  <1>1. CASE \E way \in Accounts : SignIn(way)
    <2>1. PICK way \in Accounts, i \in Slots : SignIn(way) /\ Send(i, "auth", way, NoToken)
      BY <1>1 DEF SignIn
    <2>2. /\ ~busy /\ session.token = NoToken /\ delivered' = Undelivered
          /\ UNCHANGED <<overlap, session, account, pending>>
      BY <2>1 DEF SignIn, Authenticated, Silent, local
    <2> QED BY <1>0, <2>1, <2>2, OperationSends DEF Fetching
  <1>2. CASE RejectInput BY <1>2, RejectOrder DEF RejectInput, Silent, local
  <1>3. CASE LinkTelegram \/ RequestAccountDeletion
    <2>1. PICK i \in Slots, kind \in {"link", "delete"} : Send(i, kind, None, session.token)
      BY <1>3 DEF LinkTelegram, RequestAccountDeletion
    <2>2. ~busy /\ delivered' = Undelivered /\ UNCHANGED <<overlap, session, account, pending>>
      BY <1>3 DEF LinkTelegram, RequestAccountDeletion, May, Silent, local
    <2> QED BY <1>0, <2>1, <2>2, OperationSends DEF Fetching
  <1>4. CASE Refresh
    <2>1. PICK i \in Slots : StartRefresh(i, account) BY <1>4 DEF Refresh
    <2>2. ~busy /\ delivered' = Undelivered /\ UNCHANGED <<overlap, session>>
      BY <1>4 DEF Refresh, May, Silent, local
    <2>3. /\ Send(i, "me", None, session.token) /\ pending' = pending
          /\ account'.selection = account.selection
      BY <2>1 DEF StartRefresh, SessionInv, AccountIsSound
    <2> QED BY <1>0, <2>2, <2>3, OperationSends DEF Fetching
  <1>5. CASE CancelSignIn
    <2>1. Forget /\ delivered' = Undelivered /\ (net' = net \/ net' = Over(reply))
      BY <1>5 DEF CancelSignIn
    <2>2. \A j \in Slots : net'[j] = net[j] \/ ~Live(j)'
      <3>1. CASE net' = net BY <3>1
      <3>2. CASE net' = Over(reply) /\ reply \in Slots BY <3>2, OverLive
      <3>3. CASE net' = Over(reply) /\ reply \notin Slots
        BY <3>3 DEF Over, SessionInv, RequestsAreSound
      <3> QED BY <2>1, <3>1, <3>2, <3>3
    <2> QED BY <2>1, <2>2, ForgetOrder
  <1>6. ASSUME NEW kind \in {"revoke", "revokeAll"}, SignOut(kind) PROVE OrderInv'
    <2>1. /\ session.token # NoToken /\ delivered' = Undelivered
          /\ UNCHANGED <<session, account>>
      BY <1>6 DEF SignOut, Authenticated, local
    <2>2. PICK i \in Slots : Send(i, kind, None, session.token) /\ pending' = pending
                             /\ overlap' = (overlap \/ ~Alone)
      BY <1>6, <2>1 DEF SignOut, DeviceIsKnown
    <2>3. \A j \in Slots : Live(j) => net[j].kind # "auth"
      BY <2>1 DEF OrderInv, NoSignInLeft
    <2>4. ~overlap' => ~overlap /\ (\A j \in Slots : ~Live(j)) /\ pending = None
      <3> SUFFICES ASSUME ~overlap' PROVE ~overlap /\ (\A j \in Slots : ~Live(j)) /\ pending = None
        OBVIOUS
      <3>1. ~overlap /\ Alone BY <2>2
      <3>2. \A j \in Slots : ~Live(j) BY <2>3, <3>1, LiveIs DEF Alone, Live
      <3>3. ~busy BY <3>2 DEF BusyIsServed, Live
      <3> QED BY <1>0, <3>1, <3>2, <3>3
    <2>5. OverlapIsOfSession' BY <2>1 DEF OverlapIsOfSession
    <2> QED BY <2>1, <2>2, <2>3, <2>4, <2>5, UndeliveredMatches, SendOrder DEF Fetching
  <1>7. ASSUME NEW mode, SelectVpnCountry(mode) PROVE OrderInv'
    <2>1. PICK i \in Slots : Send(i, "select", mode, session.token)
      BY <1>7 DEF SelectVpnCountry
    <2>2. ~busy /\ delivered' = Undelivered /\ UNCHANGED <<overlap, session, account, pending>>
      BY <1>7 DEF SelectVpnCountry, May, Silent
    <2> QED BY <1>0, <2>1, <2>2, OperationSends DEF Fetching
  <1>8. CASE SelectCurrentConfig
    <2>1. ~busy /\ UNCHANGED <<session, account>>
      BY <1>8 DEF SelectCurrentConfig, May, local
    <2>2. CASE Reject /\ Silent BY <2>1, <2>2, RejectOrder DEF Silent
    <2>3. \A c \in Current : account.selection.config \in {c, None} BY DEF Current
    <2>4. ASSUME NEW c \in Current, NEW i \in Slots, SelectConfig(i, account.configs, c),
                 pending' = pending
          PROVE  OrderInv'
      <3>1. PICK kind \in Fetching : Send(i, kind, c, session.token)
        BY <2>4 DEF SelectConfig, Fetching
      <3>2. delivered' = Undelivered /\ UNCHANGED overlap BY <2>4 DEF SelectConfig, Silent
      <3> QED BY <1>0, <2>1, <2>3, <2>4, <3>1, <3>2, OperationSends DEF Fetching
    <2>5. ASSUME NEW c \in Current, Deliver(c, account.configs.of), UNCHANGED control
          PROVE  OrderInv'
      <3>1. ProfileMatches' BY <2>3, <2>5 DEF ProfileMatches, Deliver
      <3>2. UNCHANGED <<overlap, busy, pending, generation, net>> BY <2>5 DEF Deliver, control
      <3>3. \A j \in Slots : Live(j)' => Live(j) BY <3>2 DEF Live
      <3> QED BY <2>1, <3>1, <3>2, <3>3, QuietOrder
    <2> QED BY <1>8, <2>2, <2>4, <2>5 DEF SelectCurrentConfig
  <1>9. ASSUME NEW region, SelectRegion(region) PROVE OrderInv'
    <2>1. ~busy /\ delivered' = Undelivered /\ UNCHANGED <<overlap, session, account>>
      BY <1>9 DEF SelectRegion, May, Silent, local
    <2>2. CASE Reject BY <2>1, <2>2, RejectOrder
    <2>3. ASSUME NEW i \in Slots, Free(i), NEW r, RefreshRouting(i, r, pending) PROVE OrderInv'
      <3>1. CASE Fail(i)
        <4>1. net' = Over(i) /\ busy' = FALSE /\ pending' = None /\ generation' = generation
          BY <3>1 DEF Fail
        <4>2. \A j \in Slots : Live(j)' => Live(j) /\ net'[j] = net[j]
          BY <4>1, OverLive DEF Live
        <4>3. ~overlap' => \A j \in Slots : ~Live(j)'
          BY <2>1, <4>2 DEF OrderInv, OneAtATime
        <4>4. OverlapIsOfSession' BY <2>1 DEF OrderInv, OverlapIsOfSession
        <4> QED BY <2>1, <4>1, <4>2, <4>3, <4>4, UndeliveredMatches, EndOrder
      <3>2. ASSUME NEW kind \in Carrying, NEW arg, Send(i, kind, arg, session.token),
                   pending' = pending
            PROVE  OrderInv'
        BY <1>0, <2>1, <3>2, OperationSends DEF Carrying, Fetching
      <3> QED BY <2>3, <3>1, <3>2 DEF RefreshRouting, Carrying
    <2> QED BY <1>9, <2>2, <2>3 DEF SelectRegion
  <1> QED BY <1>1, <1>2, <1>3, <1>4, <1>5, <1>6, <1>7, <1>8, <1>9 DEF User

\* The reply to i continues with refreshRouting, or fails.
LEMMA RefreshRoutingOrder ==
  ASSUME SessionInv, OrderInv, NEW i \in Slots, Live(i), NEW r, NEW p, RefreshRouting(i, r, p),
         UNCHANGED <<overlap, session>>, delivered' = Undelivered,
         ~overlap => (p # None => account'.selection.config \in {p, None})
  PROVE  OrderInv'
  <1>1. CASE Fail(i) BY <1>1, ReplyEnds, UndeliveredMatches DEF Fail
  <1>2. ASSUME NEW kind \in Carrying, NEW arg, Send(i, kind, arg, session.token), pending' = p
        PROVE  OrderInv'
    BY <1>2, ReplySends DEF Carrying, Fetching
  <1> QED BY <1>1, <1>2 DEF RefreshRouting, Carrying

\* The replies.
LEMMA ReplyOrder ==
  ASSUME SessionInv, TypeInv, OrderInv, NEW i \in Slots, Reply(i) PROVE OrderInv'
  <1>0. DOMAIN account = {"configs", "selection", "deletion"}
        /\ DOMAIN session = {"token", "email", "linked"}
    BY DEF SessionInv, AccountIsSound, SessionIsSound
  <1>1. ASSUME NEW kind, NEW code, Read(i, kind, code) PROVE Live(i) /\ net[i].kind = kind
    BY <1>1 DEF Read, Live
  <1>2. ~overlap /\ pending # None => account.selection.config \in {pending, None}
    BY DEF OrderInv, FetchesSelected
  <1>3. CASE AuthDone(i)
    <2>1. Live(i) /\ net[i].kind = "auth" BY <1>1, <1>3 DEF AuthDone
    <2>2. session.token = NoToken BY <2>1 DEF OrderInv, NoSignInLeft
    <2>3. ~overlap BY <2>2 DEF OrderInv, OverlapIsOfSession
    <2>4. (\A j \in Slots : j # i => ~Live(j)) /\ pending = None
      BY <2>1, <2>3, ReplyIsAlone DEF Carrying
    <2>5. /\ Send(i, "register", None, net[i].gen + 1) /\ delivered' = Undelivered
          /\ UNCHANGED <<overlap, pending>>
      BY <1>3 DEF AuthDone, Silent
    <2>6. OverlapIsOfSession' BY <2>3, <2>5 DEF OverlapIsOfSession
    <2> QED BY <2>3, <2>4, <2>5, <2>6, UndeliveredMatches, SendOrder DEF Fetching
  <1>4. ASSUME NEW kind, Live(i), net[i].kind \notin Carrying, NEW next, NEW arg, NEW token,
               Send(i, next, arg, token), next # "auth", next \notin Fetching,
               delivered' = Undelivered, UNCHANGED <<overlap, pending>>,
               session'.token = session.token
        PROVE  OrderInv'
    <2>1. ~overlap => pending' = None BY <1>4, ReplyIsAlone
    <2> QED BY <1>4, <2>1, ReplySends
  <1>5. CASE RegisterDone(i)
    BY <1>1, <1>4, <1>5 DEF RegisterDone, StartRefresh, Silent, local, Carrying, Fetching
  <1>6. CASE LinkDone(i)
    BY <1>0, <1>1, <1>4, <1>6 DEF LinkDone, StartRefresh, Silent, Carrying, Fetching
  <1>7. CASE MeDone(i)
    BY <1>0, <1>1, <1>4, <1>7 DEF MeDone, Silent, Carrying, Fetching
  <1>8. CASE SelectionDone(i)
    BY <1>1, <1>4, <1>8 DEF SelectionDone, Silent, local, Carrying, Fetching
  <1>9. CASE SelectionMissing(i)
    BY <1>1, <1>4, <1>9 DEF SelectionMissing, Silent, Carrying, Fetching
  <1>10. CASE DeleteDone(i)
    <2>1. Live(i) /\ net[i].kind = "delete" BY <1>1, <1>10 DEF DeleteDone
    <2>2. ~overlap => pending = None BY <2>1, ReplyIsAlone DEF Carrying
    <2> QED BY <1>10, <2>1, <2>2, ReplyEnds, UndeliveredMatches
        DEF DeleteDone, Finish, Silent, local
  <1>11. CASE SignedOut(i) \/ Unauthorized(i)
    <2>1. Forget /\ net' = Over(i) /\ delivered' = Undelivered
      BY <1>11 DEF SignedOut, Unauthorized
    <2>2. \A j \in Slots : net'[j] = net[j] \/ ~Live(j)' BY <2>1, OverLive
    <2> QED BY <2>1, <2>2, ForgetOrder
  <1>12. CASE RegionsDone(i) \/ RegionsLegacy(i)
    <2>1. Live(i) BY <1>1, <1>12 DEF RegionsDone, RegionsLegacy
    <2>2. PICK r : RefreshRouting(i, r, pending) BY <1>12 DEF RegionsDone, RegionsLegacy
    <2>3. UNCHANGED <<overlap, session, account>> /\ delivered' = Undelivered
      BY <1>12 DEF RegionsDone, RegionsLegacy, Silent, local
    <2> QED BY <1>2, <2>1, <2>2, <2>3, RefreshRoutingOrder
  <1>13. CASE RoutingDone(i) \/ RoutingLegacy(i)
    <2>1. Live(i) BY <1>1, <1>13 DEF RoutingDone, RoutingLegacy
    <2>2. UNCHANGED <<overlap, session, account>> /\ delivered' = Undelivered
      BY <1>13 DEF RoutingDone, RoutingLegacy, Silent, local
    <2>3. CASE Send(i, "configs", None, session.token) /\ pending' = pending
      BY <1>2, <2>1, <2>2, <2>3, ReplySends DEF Carrying, Fetching
    <2>4. CASE Fail(i) BY <2>1, <2>2, <2>4, ReplyEnds, UndeliveredMatches DEF Fail
    <2> QED BY <1>13, <2>3, <2>4 DEF RoutingDone, RoutingLegacy
  <1>14. CASE ConfigsDone(i)
    <2> DEFINE configs == [of |-> net[i].token, ids |-> net[i].answer.list,
                           form |-> net[i].answer.mode]
    <2>1. Live(i) BY <1>1, <1>14 DEF ConfigsDone
    <2>2. session' = session /\ account'.selection = account.selection
      BY <1>0, <1>14 DEF ConfigsDone, local
    <2>3. pending \in configs.ids => pending # None
      <3>1. net[i].answer.list \subseteq Locations
        BY <1>14, ReadTyped DEF ConfigsDone, Read, AnswerIsApt
      <3> QED BY <3>1, LocationsAssumption
    <2>4. CASE pending = None /\ Finish(i) /\ UNCHANGED pending /\ Silent
      BY <2>1, <2>2, <2>4, ReplyEnds, UndeliveredMatches DEF Finish, Silent
    <2>5. CASE SelectConfig(i, configs, pending) /\ pending' = None /\ pending # None
      <3>1. PICK kind \in Fetching : Send(i, kind, pending, session.token)
        BY <2>5 DEF SelectConfig, Fetching
      <3>2. delivered' = Undelivered /\ UNCHANGED overlap BY <2>5 DEF SelectConfig, Silent
      <3> QED BY <1>2, <2>1, <2>2, <2>5, <3>1, <3>2, ReplySends DEF Fetching
    <2>6. CASE Deliver(pending, net[i].token) /\ Finish(i) /\ pending' = None /\ pending # None
      <3>1. ProfileMatches' BY <1>2, <2>6 DEF ProfileMatches, Deliver
      <3> QED BY <2>1, <2>2, <2>6, <3>1, ReplyEnds DEF Finish, Deliver
    <2>7. CASE Fail(i) /\ Silent
      BY <2>1, <2>2, <2>7, ReplyEnds, UndeliveredMatches DEF Fail, Silent
    <2> QED BY <1>14, <2>3, <2>4, <2>5, <2>6, <2>7 DEF ConfigsDone
  <1>15. CASE SelectDone(i)
    <2>1. Live(i) BY <1>1, <1>15 DEF SelectDone
    <2>2. account'.selection = Selection(net[i]) BY <1>0, <1>15 DEF SelectDone
    <2>3. account'.selection.config = net[i].answer.config BY <2>2 DEF Selection
    <2> QED BY <1>15, <2>1, <2>3, RefreshRoutingOrder DEF SelectDone, Silent, local
  <1>16. CASE ConfigDone(i) \/ DownloadDone(i)
    <2>1. Live(i) /\ net[i].kind \in Fetching
      BY <1>1, <1>16 DEF ConfigDone, DownloadDone, Fetching
    <2>2. UNCHANGED <<pending, session, account>> BY <1>16 DEF ConfigDone, DownloadDone, local
    <2>3. ~overlap => pending = None /\ account.selection.config \in {net[i].arg, None}
      BY <2>1, ReplyIsAlone DEF Carrying, Fetching
    <2>4. CASE Deliver(net[i].arg, net[i].token) /\ Finish(i)
      <3>1. ProfileMatches' BY <2>3, <2>4 DEF ProfileMatches, Deliver
      <3> QED BY <2>1, <2>2, <2>3, <2>4, <3>1, ReplyEnds DEF Finish, Deliver
    <2>5. CASE Send(i, "download", net[i].arg, net[i].token) /\ Silent
      BY <2>1, <2>2, <2>3, <2>5, ReplySends DEF Silent
    <2> QED BY <1>16, <2>4, <2>5 DEF ConfigDone, DownloadDone
  <1>17. CASE Lost(i)
    BY <1>17, ReplyEnds, UndeliveredMatches DEF Lost, Live, Fail, Silent, local
  <1>18. CASE Ignored(i)
    <2>1. /\ net' = Over(i) /\ delivered' = Undelivered
          /\ UNCHANGED <<busy, pending, generation, session, overlap, account>>
      BY <1>18 DEF Ignored, Silent, local
    <2>2. \A j \in Slots : Live(j)' => Live(j) /\ net'[j] = net[j] BY <2>1, OverLive DEF Live
    <2> QED BY <2>1, <2>2, QuietOrder, UndeliveredMatches
  <1> QED BY <1>3, <1>5, <1>6, <1>7, <1>8, <1>9, <1>10, <1>11, <1>12, <1>13, <1>14, <1>15,
             <1>16, <1>17, <1>18 DEF Reply

\* What the server's answer, or the loss of a request, does to request i.
LEMMA ServedIs ==
  ASSUME SessionInv, NEW i \in Slots, Serve(i) \/ Drop(i)
  PROVE  /\ net[i] # Idle
         /\ \A j \in Slots : j # i => net'[j] = net[j]
         /\ \/ net'[i] = Idle /\ ~net[i].heard
            \/ /\ net[i].heard /\ net'[i] # Idle /\ net'[i].heard = net[i].heard
               /\ net'[i].kind = net[i].kind
               /\ net'[i].arg = net[i].arg /\ net'[i].gen = net[i].gen
               /\ net'[i].token = net[i].token /\ net'[i].answered /\ ~net[i].answered
  <1>1. net[i] # Idle /\ DOMAIN net = Slots /\ DOMAIN net[i] = RequestFields
    BY DEF Serve, Drop, SessionInv, RequestsAreSound, RequestIsSound
  <1>2. CASE Drop(i) BY <1>1, <1>2 DEF Drop
  <1>3. CASE Serve(i)
    <2>1. PICK a : net' = [net EXCEPT ![i] = IF @.heard
              THEN [@ EXCEPT !.answered = TRUE, !.answer = a] ELSE Idle]
      BY <1>3 DEF Serve
    <2>2. CASE net[i].heard
      <3>1. net'[i] = [net[i] EXCEPT !.answered = TRUE, !.answer = a] BY <1>1, <2>1, <2>2
      <3>2. DOMAIN net'[i] = RequestFields BY <1>1, <3>1
      <3>3. DOMAIN Idle # RequestFields BY DEF Idle, RequestFields
      <3>4. /\ net'[i].heard = net[i].heard /\ net'[i].kind = net[i].kind
            /\ net'[i].arg = net[i].arg /\ net'[i].gen = net[i].gen
            /\ net'[i].token = net[i].token /\ net'[i].answered
        BY <1>1, <3>1 DEF RequestFields
      <3> QED BY <1>1, <1>3, <2>1, <2>2, <3>2, <3>3, <3>4 DEF Serve
    <2>3. CASE ~net[i].heard BY <1>1, <2>1, <2>3
    <2> QED BY <2>2, <2>3
  <1> QED BY <1>2, <1>3

\* A restart: what it waits for is the registration of the device.
LEMMA RestartIs ==
  ASSUME SessionInv, Restart
  PROVE  /\ generation' = generation /\ session' = session
         /\ \/ /\ session.token = NoToken /\ busy' = FALSE
               /\ \A j \in Slots : net'[j] = Unheard(net[j])
            \/ /\ session.token # NoToken /\ busy' = TRUE
               /\ \E i \in Slots :
                    /\ net'[i] = NewRequest("register", None, generation, session.token)
                    /\ \A j \in Slots : j # i => net'[j] = Unheard(net[j])
  <1>1. saved = session BY DEF SessionInv, SessionIsSound
  <1> DEFINE after == [j \in Slots |-> Unheard(net[j])]
  <1>2. \/ session.token = NoToken /\ busy' = FALSE /\ net' = after
        \/ /\ session.token # NoToken /\ busy' = TRUE
           /\ \E i \in Slots : net' = [after EXCEPT ![i] =
                NewRequest("register", None, generation, session.token)]
    BY <1>1, Zenon DEF Restart, Unheard, NewRequest
  <1> QED BY <1>1, <1>2 DEF Restart

LEMMA RestartOrder == ASSUME SessionInv, OrderInv, Restart PROVE OrderInv'
  <1>1. /\ generation' = generation /\ session' = session /\ overlap' = overlap
        /\ pending' = None /\ account' = NoAccount /\ delivered' = Undelivered
    BY RestartIs DEF Restart, Silent
  <1>2. \A j \in Slots : net'[j] = Unheard(net[j]) => ~Live(j)'
    BY UnheardIs DEF Live, SessionInv, RequestsAreSound, RequestIsSound
  <1>3. OverlapIsOfSession' BY <1>1 DEF OrderInv, OverlapIsOfSession
  <1>4. CASE busy' = FALSE /\ \A j \in Slots : net'[j] = Unheard(net[j])
    BY <1>1, <1>2, <1>3, <1>4, UndeliveredMatches, EndOrder
  <1>5. ASSUME busy' = TRUE, NEW i \in Slots,
               net'[i] = NewRequest("register", None, generation, session.token),
               \A j \in Slots : j # i => net'[j] = Unheard(net[j])
        PROVE  OrderInv'
    <2>1. \A j \in Slots : Live(j)' => j = i BY <1>2, <1>5
    <2>2. net'[i].kind = "register" BY <1>5 DEF NewRequest
    <2>3. NoSignInLeft' BY <2>1, <2>2 DEF NoSignInLeft
    <2>4. OneAtATime' BY <1>1, <1>5, <2>1 DEF OneAtATime
    <2>5. FetchesSelected' BY <1>1, <2>1, <2>2 DEF FetchesSelected, Fetching
    <2> QED BY <1>1, <1>3, <2>3, <2>4, <2>5, UndeliveredMatches DEF OrderInv
  <1> QED BY <1>4, <1>5, RestartIs

\* Every step keeps the order.
LEMMA OrderNext ==
  SessionInv /\ TypeInv /\ BusyIsServed /\ DeviceIsKnown /\ OrderInv /\ [Next]_vars => OrderInv'
  <1> SUFFICES ASSUME SessionInv, TypeInv, BusyIsServed, DeviceIsKnown, OrderInv, [Next]_vars
               PROVE  OrderInv'
    OBVIOUS
  <1>1. CASE /\ UNCHANGED <<control, local, account, overlap>>
             /\ delivered' \in {delivered, Undelivered}
    <2>1. ProfileMatches' BY <1>1, UndeliveredMatches DEF OrderInv, ProfileMatches
    <2>2. UNCHANGED <<busy, pending, generation, session, net>> BY <1>1 DEF control, local
    <2>3. \A j \in Slots : Live(j)' => Live(j) BY <2>2 DEF Live
    <2> QED BY <1>1, <2>1, <2>2, <2>3, QuietOrder
  <1>2. CASE \E b \in background : BackgroundDone(b) \/ ServeBackground(b)
    BY <1>1, <1>2 DEF BackgroundDone, ServeBackground, Silent
  <1>3. CASE Expire \/ RemoveDevice \/ Publish \/ Age \/ EditSites
    BY <1>1, <1>3 DEF Expire, RemoveDevice, Publish, Age, EditSites, Silent
  <1>4. CASE UNCHANGED vars BY <1>1, <1>4 DEF vars, history
  <1>5. CASE User BY <1>5, UserOrder
  <1>6. CASE \E i \in Slots : Reply(i) BY <1>6, ReplyOrder
  <1>7. ASSUME NEW i \in Slots, Serve(i) \/ Drop(i) PROVE OrderInv'
    <2>1. UNCHANGED <<busy, pending, generation, session, account, overlap>>
          /\ delivered' = Undelivered
      BY <1>7 DEF Serve, Drop, Silent, local
    <2>2. \A j \in Slots : Live(j)' => /\ Live(j) /\ net'[j].kind = net[j].kind
                                       /\ net'[j].arg = net[j].arg
      BY <1>7, <2>1, ServedIs DEF Live
    <2> QED BY <2>1, <2>2, QuietOrder, UndeliveredMatches
  <1>8. CASE Restart BY <1>8, RestartOrder
  <1> QED BY <1>2, <1>3, <1>4, <1>5, <1>6, <1>7, <1>8 DEF Next

\* A client that starts for the first time.
LEMMA OrderInit == Init => DeviceIsKnown /\ OrderInv
  BY DEF Init, DeviceIsKnown, OrderInv, OverlapIsOfSession, NoSignInLeft, OneAtATime,
     FetchesSelected, ProfileMatches, Live, NoSession, Undelivered

\* What the later invariants rest on.
LEMMA TunnelCoreOrder ==
  Spec => [](SessionInv /\ TypeInv /\ BusyIsServed /\ DeviceIsKnown /\ OrderInv)
  <1>1. Init => BusyIsServed BY DEF Init, BusyIsServed
  <1> QED BY <1>1, SessionInit, SessionNext, TypeInit, TypeStep, BusyNext, DeviceNext, OrderInit,
         OrderNext, PTL
      DEF Spec

\* A configuration is imported under the profile of its own location, for any
\* number of replies in flight, unless signing out met another request.
THEOREM TunnelCoreProfileMatches == Spec => []ProfileMatches
  <1>1. OrderInv => ProfileMatches BY DEF OrderInv
  <1> QED BY <1>1, TunnelCoreOrder, PTL

-----------------------------------------------------------------------------
(* Device slots.                                                           *)

Revoking == {"revoke", "revokeAll"}

\* Sessions that were released are of earlier generations.
ReleasedIsOld == \A r \in released : r.token \in 1 .. generation

\* Without an overlap nothing that is left can give their slot back to them.
ReleasedIsFree ==
  \A r \in released : ~r.overlap =>
    /\ r.token \notin server.slots
    /\ \A i \in Slots : net[i] # Idle => net[i].token # r.token

\* Without an overlap a sign-out is the only request of its session, and the
\* slot is free once it was carried out.
SignOutIsAlone ==
  ~overlap => \A i \in Slots : Live(i) /\ net[i].kind \in Revoking =>
    /\ \A j \in Slots : j # i => net[j] = Idle \/ net[j].token # session.token
    /\ net[i].answered /\ net[i].answer.code \in {"ok", "missing"} =>
         session.token \notin server.slots

SlotInv == ReleasedIsOld /\ ReleasedIsFree /\ SignOutIsAlone

\* A request is made with a token of this generation, or with none.
LEMMA SendSlots ==
  ASSUME SessionInv, OrderInv', SlotInv, NEW i \in Slots, NEW kind, NEW arg, NEW token,
         Send(i, kind, arg, token), token \in {NoToken, generation + 1},
         UNCHANGED <<released, server>>,
         ~overlap' /\ kind \in Revoking =>
           \A j \in Slots : j # i => net[j] = Idle \/ net[j].token # session'.token
  PROVE  SlotInv'
  <1>0. generation \in Nat BY DEF SessionInv, SessionIsSound
  <1>1. /\ Live(i)' /\ net'[i].kind = kind /\ net'[i].token = token /\ ~net'[i].answered
        /\ \A j \in Slots : j # i => net'[j] = net[j]
        /\ generation' = generation
    BY SendLive
  <1>2. ReleasedIsOld' BY <1>1 DEF SlotInv, ReleasedIsOld
  <1>3. \A r \in released : token # r.token
    BY <1>0 DEF SlotInv, ReleasedIsOld, NoToken
  <1>4. ReleasedIsFree' BY <1>1, <1>3 DEF SlotInv, ReleasedIsFree
  <1>5. ~overlap' => \A j \in Slots : Live(j)' => j = i BY <1>1 DEF OrderInv, OneAtATime
  <1>6. SignOutIsAlone' BY <1>1, <1>5 DEF SignOutIsAlone
  <1> QED BY <1>2, <1>4, <1>6 DEF SlotInv

\* A step that makes no request and takes no slot.
LEMMA QuietSlots ==
  ASSUME SessionInv, SlotInv, UNCHANGED released, server'.slots \subseteq server.slots,
         \A j \in Slots : \/ net'[j] = net[j] \/ net'[j] = Idle
                          \/ ~Live(j)' /\ net[j] # Idle /\ net'[j].token = net[j].token,
         \/ generation' = generation /\ overlap' = overlap /\ session'.token = session.token
         \/ generation' = generation + 1 /\ \A j \in Slots : ~Live(j)'
  PROVE  SlotInv'
  <1>0. generation \in Nat BY DEF SessionInv, SessionIsSound
  <1>1. ReleasedIsOld' BY <1>0 DEF SlotInv, ReleasedIsOld
  <1>2. ReleasedIsFree' BY DEF SlotInv, ReleasedIsFree
  <1>3. SignOutIsAlone'
    <2>1. CASE \A j \in Slots : ~Live(j)' BY <2>1 DEF SignOutIsAlone
    <2>2. CASE generation' = generation /\ overlap' = overlap /\ session'.token = session.token
      <3>1. \A j \in Slots : Live(j)' => net'[j] = net[j] /\ Live(j) BY <2>2 DEF Live
      <3>2. \A j \in Slots : (net[j] = Idle \/ net[j].token # session.token) =>
                             (net'[j] = Idle \/ net'[j].token # session'.token)
        BY <2>2
      <3> QED BY <2>2, <3>1, <3>2 DEF SlotInv, SignOutIsAlone
    <2> QED BY <2>1, <2>2
  <1> QED BY <1>1, <1>2, <1>3 DEF SlotInv

\* A request that is over, seen from the slots.
LEMMA OverIs ==
  ASSUME SessionInv, NEW i \in Slots, net' = Over(i)
  PROVE  \A j \in Slots : \/ net'[j] = net[j] \/ net'[j] = Idle
                          \/ ~Live(j)' /\ net[j] # Idle /\ net'[j].token = net[j].token
  BY OverLive

\* The token a client asks with is of its generation.
LEMMA TokenIs == SessionInv => session.token \in {NoToken, generation + 1}
  BY DEF SessionInv, SessionIsSound

\* The operations of the user.
LEMMA UserSlots ==
  ASSUME SessionInv, OrderInv', DeviceIsKnown, SlotInv, User PROVE SlotInv'
  <1>1. session.token \in {NoToken, generation + 1} /\ NoToken \in {NoToken, generation + 1}
    BY TokenIs
  <1>2. ASSUME NEW i \in Slots, NEW kind, kind \notin Revoking, NEW arg, NEW token,
               Send(i, kind, arg, token), token \in {NoToken, session.token},
               UNCHANGED <<released, server>>
        PROVE  SlotInv'
    BY <1>1, <1>2, SendSlots
  <1>3. CASE UNCHANGED <<generation, net, session, released, server, overlap>>
    BY <1>3, QuietSlots
  <1>4. CASE \E way \in Accounts : SignIn(way)
    BY <1>2, <1>4 DEF SignIn, Silent, Revoking
  <1>5. CASE RejectInput BY <1>3, <1>5 DEF RejectInput, Reject, Silent, local
  <1>6. CASE LinkTelegram \/ RequestAccountDeletion \/ Refresh
    BY <1>2, <1>6 DEF LinkTelegram, RequestAccountDeletion, Refresh, StartRefresh, Silent,
       Revoking
  <1>7. CASE CancelSignIn
    <2>1. /\ generation' = generation + 1 /\ UNCHANGED <<released, server>>
          /\ net' = net \/ net' = Over(reply)
      BY <1>7 DEF CancelSignIn, Forget
    <2>2. \A j \in Slots : \/ net'[j] = net[j] \/ net'[j] = Idle
                           \/ ~Live(j)' /\ net[j] # Idle /\ net'[j].token = net[j].token
      <3>1. CASE net' = net BY <3>1
      <3>2. CASE net' = Over(reply) /\ reply \in Slots BY <3>2, OverIs
      <3>3. CASE net' = Over(reply) /\ reply \notin Slots
        BY <3>3 DEF Over, SessionInv, RequestsAreSound
      <3> QED BY <2>1, <3>1, <3>2, <3>3
    <2>3. \A j \in Slots : ~Live(j)'
      <3>1. \A j \in Slots : net'[j] = net[j] \/ ~Live(j)' BY <2>2 DEF Live
      <3> QED BY <2>1, <3>1, NewGeneration
    <2> QED BY <2>1, <2>2, <2>3, QuietSlots
  <1>8. ASSUME NEW kind \in {"revoke", "revokeAll"}, SignOut(kind) PROVE SlotInv'
    <2>1. UNCHANGED <<session, released, server>> /\ session.token # NoToken
      BY <1>8 DEF SignOut, Authenticated, local
    <2>2. PICK i \in Slots : Send(i, kind, None, session.token)
                             /\ overlap' = (overlap \/ ~Alone)
      BY <1>8, <2>1 DEF SignOut, DeviceIsKnown
    <2>3. ~overlap' => Alone BY <2>2
    <2> QED BY <1>1, <2>1, <2>2, <2>3, SendSlots DEF Alone
  <1>9. ASSUME NEW mode, SelectVpnCountry(mode) PROVE SlotInv'
    BY <1>2, <1>9 DEF SelectVpnCountry, Silent, Revoking
  <1>10. CASE SelectCurrentConfig
    <2>1. UNCHANGED <<session, server>> BY <1>10 DEF SelectCurrentConfig, local
    <2>2. CASE Reject /\ Silent BY <1>3, <2>1, <2>2 DEF Reject, Silent
    <2>3. ASSUME NEW c, NEW i \in Slots, SelectConfig(i, account.configs, c) PROVE SlotInv'
      BY <1>2, <2>1, <2>3 DEF SelectConfig, Silent, Revoking
    <2>4. ASSUME NEW c, Deliver(c, account.configs.of), UNCHANGED control PROVE SlotInv'
      BY <1>3, <2>1, <2>4 DEF Deliver, control
    <2> QED BY <1>10, <2>2, <2>3, <2>4 DEF SelectCurrentConfig
  <1>11. ASSUME NEW region, SelectRegion(region) PROVE SlotInv'
    <2>1. UNCHANGED <<session, server, released, overlap>> BY <1>11 DEF SelectRegion, Silent, local
    <2>2. CASE Reject BY <1>3, <2>1, <2>2 DEF Reject
    <2>3. ASSUME NEW i \in Slots, Fail(i) PROVE SlotInv'
      <3>1. net' = Over(i) /\ generation' = generation BY <2>3 DEF Fail
      <3> QED BY <2>1, <3>1, OverIs, QuietSlots
    <2>4. ASSUME NEW i \in Slots, NEW r, RefreshRouting(i, r, pending) PROVE SlotInv'
      BY <1>2, <2>1, <2>3, <2>4 DEF RefreshRouting, Revoking
    <2> QED BY <1>11, <2>2, <2>4 DEF SelectRegion
  <1> QED BY <1>4, <1>5, <1>6, <1>7, <1>8, <1>9, <1>10, <1>11 DEF User

\* The replies: the confirmed sign-out is the one that releases.
LEMMA ReplySlots ==
  ASSUME SessionInv, OrderInv', SlotInv, NEW i \in Slots, Reply(i) PROVE SlotInv'
  <1>0. DOMAIN session = {"token", "email", "linked"} /\ generation \in Nat
    BY DEF SessionInv, SessionIsSound
  <1>1. session.token \in {NoToken, generation + 1} BY TokenIs
  <1>2. ASSUME NEW kind, kind \notin Revoking, NEW arg, NEW token,
               Send(i, kind, arg, token), token \in {NoToken, generation + 1},
               UNCHANGED <<released, server>>
        PROVE  SlotInv'
    BY <1>2, SendSlots
  <1>3. CASE net' = Over(i) /\ UNCHANGED <<generation, session, released, server, overlap>>
    BY <1>3, OverIs, QuietSlots
  <1>4. CASE AuthDone(i) BY <1>0, <1>2, <1>4 DEF AuthDone, Read, Silent, Revoking
  <1>5. CASE RegisterDone(i) \/ LinkDone(i) \/ MeDone(i) \/ SelectionDone(i)
             \/ SelectionMissing(i) \/ RoutingLegacy(i)
    BY <1>1, <1>2, <1>5 DEF RegisterDone, LinkDone, MeDone, SelectionDone, SelectionMissing,
       RoutingLegacy, StartRefresh, Silent, Revoking
  <1>6. CASE DeleteDone(i) \/ Lost(i) \/ Ignored(i)
    BY <1>3, <1>6 DEF DeleteDone, Lost, Ignored, Finish, Fail, Silent, local
  <1>7. CASE SignedOut(i)
    <2>1. /\ Forget /\ net' = Over(i) /\ UNCHANGED server
          /\ released' = released \cup {[token |-> session.token, overlap |-> overlap]}
          /\ Live(i) /\ net[i].kind \in Revoking /\ net[i].answered
          /\ net[i].answer.code \in {"ok", "missing"}
      BY <1>7 DEF SignedOut, Read, Live, Revoking
    <2>2. session.token = generation + 1 /\ generation' = generation + 1
      BY <1>1, <2>1, LiveIs DEF Revoking, Forget
    <2>3. net'[i] = Idle /\ \A j \in Slots : j # i => net'[j] = net[j]
      <3>1. DOMAIN net = Slots BY DEF SessionInv, RequestsAreSound
      <3> QED BY <2>1, <3>1 DEF Over
    <2>4. ReleasedIsOld' BY <1>0, <2>1, <2>2 DEF SlotInv, ReleasedIsOld
    <2>5. ReleasedIsFree'
      <3>1. ~overlap => /\ session.token \notin server.slots
                        /\ \A j \in Slots : net'[j] # Idle => net'[j].token # session.token
        BY <2>1, <2>3 DEF SlotInv, SignOutIsAlone
      <3> QED BY <2>1, <2>3, <3>1 DEF SlotInv, ReleasedIsFree
    <2>6. \A j \in Slots : ~Live(j)'
      <3>1. \A j \in Slots : net'[j] = net[j] \/ ~Live(j)' BY <2>3 DEF Live
      <3> QED BY <2>2, <3>1, NewGeneration
    <2>7. SignOutIsAlone' BY <2>6 DEF SignOutIsAlone
    <2> QED BY <2>4, <2>5, <2>7 DEF SlotInv
  <1>8. CASE Unauthorized(i)
    <2>1. net' = Over(i) /\ generation' = generation + 1 /\ UNCHANGED <<released, server>>
      BY <1>8 DEF Unauthorized, Forget
    <2>2. \A j \in Slots : ~Live(j)'
      <3>1. \A j \in Slots : net'[j] = net[j] \/ ~Live(j)' BY <2>1, OverIs DEF Live
      <3> QED BY <2>1, <3>1, NewGeneration
    <2> QED BY <2>1, <2>2, OverIs, QuietSlots
  <1>9. CASE Fail(i) /\ UNCHANGED <<session, released, server, overlap>> BY <1>3, <1>9 DEF Fail
  <1>10. CASE RegionsDone(i) \/ RegionsLegacy(i) \/ SelectDone(i)
    <2>1. PICK r, p : RefreshRouting(i, r, p) BY <1>10 DEF RegionsDone, RegionsLegacy, SelectDone
    <2>2. UNCHANGED <<session, released, server, overlap>>
      BY <1>10 DEF RegionsDone, RegionsLegacy, SelectDone, Silent, local
    <2> QED BY <1>1, <1>2, <1>9, <2>1, <2>2 DEF RefreshRouting, Revoking
  <1>11. CASE RoutingDone(i)
    <2>1. UNCHANGED <<session, released, server, overlap>> BY <1>11 DEF RoutingDone, Silent, local
    <2>2. Fail(i) \/ Send(i, "configs", None, session.token) BY <1>11 DEF RoutingDone
    <2> QED BY <1>1, <1>2, <1>9, <2>1, <2>2 DEF Revoking
  <1>12. CASE ConfigsDone(i)
    <2>1. UNCHANGED <<session, server>> BY <1>12 DEF ConfigsDone, local
    <2>2. ASSUME NEW c, SelectConfig(i, c, pending) PROVE SlotInv'
      BY <1>1, <1>2, <2>1, <2>2 DEF SelectConfig, Silent, Revoking
    <2>3. CASE (Finish(i) \/ Fail(i)) /\ UNCHANGED <<overlap, released>>
      BY <1>3, <2>1, <2>3 DEF Finish, Fail
    <2> QED BY <1>12, <2>2, <2>3 DEF ConfigsDone, Silent, Deliver
  <1>13. CASE ConfigDone(i) \/ DownloadDone(i)
    <2>1. UNCHANGED <<session, server, overlap, released>>
      BY <1>13 DEF ConfigDone, DownloadDone, local, Silent, Deliver
    <2>2. CASE Finish(i) BY <1>3, <2>1, <2>2 DEF Finish
    <2>3. CASE Read(i, "config", "ok") /\ Send(i, "download", net[i].arg, net[i].token)
      <3>1. net[i].token = session.token BY <2>3, ReadIs
      <3> QED BY <1>1, <1>2, <2>1, <2>3, <3>1 DEF Revoking
    <2> QED BY <1>13, <2>2, <2>3 DEF ConfigDone, DownloadDone
  <1> QED BY <1>4, <1>5, <1>6, <1>7, <1>8, <1>10, <1>11, <1>12, <1>13 DEF Reply

\* What answering a request does to the slots.
LEMMA EffectSlots ==
  ASSUME TypeInv, NEW r \in Request, NEW a \in Answers(r)
  PROVE  /\ Effect(r, a).slots \subseteq server.slots \cup {r.token}
         /\ r.kind \in Revoking /\ a.code \in {"ok", "missing"} =>
              r.token \notin Effect(r, a).slots
  <1>0. server \in ServerType BY TypeParts DEF ServerOK
  <1>1. Effect(r, a).slots \subseteq server.slots \cup {r.token}
    <2>1. Effect(r, a) \in {server, [server EXCEPT !.valid = @ \cup {r.gen + 1}],
                            [server EXCEPT !.slots = @ \cup {r.token}],
                            [server EXCEPT !.slots = @ \ {r.token}],
                            [server EXCEPT !.slots = @ \ {r.token}, !.valid = @ \ {r.token}],
                            [server EXCEPT !.linked = @ \cup {r.token}],
                            [server EXCEPT !.deleting = @ \cup {r.token}]}
      BY DEF Effect
    <2> QED BY <1>0, <2>1 DEF ServerType
  <1>2. ASSUME r.kind \in Revoking, a.code = "ok" PROVE r.token \notin Effect(r, a).slots
    <2>1. Effect(r, a) \in {[server EXCEPT !.slots = @ \ {r.token}],
                            [server EXCEPT !.slots = @ \ {r.token}, !.valid = @ \ {r.token}]}
      BY <1>2 DEF Effect, Revoking
    <2> QED BY <1>0, <2>1 DEF ServerType
  <1>3. ASSUME r.kind \in Revoking, a.code = "missing" PROVE r.token \notin Effect(r, a).slots
    <2>1. Effect(r, a) = server BY <1>3 DEF Effect
    <2>2. a = Answer("missing") => r.token \notin server.slots
      BY <1>3 DEF Answers, Answer, Revoking
    <2>3. a \in {Answer("gone"), Answer("ok"), Answer("missing")} BY <1>3 DEF Answers, Revoking
    <2>4. a = Answer("missing") BY <1>3, <2>3 DEF Answer
    <2> QED BY <2>1, <2>2, <2>4
  <1> QED BY <1>1, <1>2, <1>3

\* The server answers a request, or it is lost.
LEMMA ServeSlots ==
  ASSUME SessionInv, TypeInv, OrderInv, SlotInv, NEW i \in Slots, Serve(i) \/ Drop(i)
  PROVE  SlotInv'
  <1>1. UNCHANGED <<generation, session, overlap, released>>
    BY DEF Serve, Drop, Silent, local
  <1>2. /\ net[i] # Idle /\ \A j \in Slots : j # i => net'[j] = net[j]
        /\ \/ net'[i] = Idle /\ ~net[i].heard
           \/ /\ net[i].heard /\ net'[i] # Idle /\ net'[i].heard = net[i].heard
              /\ net'[i].kind = net[i].kind /\ net'[i].gen = net[i].gen
              /\ net'[i].token = net[i].token
    BY ServedIs
  <1>3. CASE Drop(i)
    <2>1. \A j \in Slots : net'[j] = net[j] \/ net'[j] = Idle
      BY <1>2, <1>3 DEF Drop
    <2> QED BY <1>1, <1>3, <2>1, QuietSlots DEF Drop
  <1>4. CASE Serve(i)
    <2>0. ControlOK BY TypeParts
    <2>1. net[i] \in Request BY <1>2, <2>0 DEF ControlOK
    <2>2. PICK a \in Answers(net[i]) :
            /\ net' = [net EXCEPT ![i] = IF @.heard THEN [@ EXCEPT !.answered = TRUE, !.answer = a]
                                         ELSE Idle]
            /\ server' = Effect(net[i], a)
      BY <1>4 DEF Serve
    <2>3. /\ server'.slots \subseteq server.slots \cup {net[i].token}
          /\ net[i].kind \in Revoking /\ a.code \in {"ok", "missing"} =>
               net[i].token \notin server'.slots
      BY <2>1, <2>2, EffectSlots
    <2>4. net[i].heard => net'[i].answer = a
      BY <2>0, <2>1, <2>2 DEF ControlOK, Request
    <2>5. ReleasedIsOld' BY <1>1 DEF SlotInv, ReleasedIsOld
    <2>6. ReleasedIsFree' BY <1>1, <1>2, <2>3 DEF SlotInv, ReleasedIsFree
    <2>7. SignOutIsAlone'
      <3> SUFFICES ASSUME ~overlap', NEW k \in Slots, Live(k)', net'[k].kind \in Revoking
                   PROVE  /\ \A j \in Slots : j # k => net'[j] = Idle \/ net'[j].token # session'.token
                          /\ net'[k].answered /\ net'[k].answer.code \in {"ok", "missing"} =>
                               session'.token \notin server'.slots
        BY DEF SignOutIsAlone
      <3>1. Live(k) /\ net[k].kind \in Revoking /\ ~overlap BY <1>1, <1>2 DEF Live
      <3>2. \A j \in Slots : j # k => net[j] = Idle \/ net[j].token # session.token
        BY <3>1 DEF SlotInv, SignOutIsAlone
      <3>3. \A j \in Slots : j # k => net'[j] = Idle \/ net'[j].token # session'.token
        BY <1>1, <1>2, <3>2
      <3>4. net[k].token = session.token BY <3>1, LiveIs DEF Revoking
      <3>5. CASE k = i BY <1>1, <2>3, <2>4, <3>1, <3>3, <3>4, <3>5 DEF Live
      <3>6. CASE k # i
        <4>1. net[i].token # session.token BY <1>2, <3>2, <3>6
        <4>2. net'[k] = net[k] BY <1>2, <3>6
        <4>3. net[k].answered /\ net[k].answer.code \in {"ok", "missing"} =>
                session.token \notin server.slots
          BY <3>1 DEF SlotInv, SignOutIsAlone
        <4> QED BY <1>1, <2>3, <3>3, <4>1, <4>2, <4>3
      <3> QED BY <3>5, <3>6
    <2> QED BY <2>5, <2>6, <2>7 DEF SlotInv
  <1> QED BY <1>3, <1>4

\* A restart asks with the saved token, which is of this generation.
LEMMA RestartSlots == ASSUME SessionInv, SlotInv, Restart PROVE SlotInv'
  <1>0. generation \in Nat BY DEF SessionInv, SessionIsSound
  <1>1. UNCHANGED <<released, server, overlap>> /\ generation' = generation /\ session' = session
    BY RestartIs DEF Restart, Silent
  <1>2. \A j \in Slots : net'[j] = Unheard(net[j]) =>
          \/ net'[j] = Idle
          \/ ~Live(j)' /\ net[j] # Idle /\ net'[j].token = net[j].token
    BY UnheardIs DEF Live, SessionInv, RequestsAreSound, RequestIsSound
  <1>3. CASE \A j \in Slots : net'[j] = Unheard(net[j]) BY <1>1, <1>2, <1>3, QuietSlots
  <1>4. ASSUME session.token # NoToken, NEW i \in Slots,
               net'[i] = NewRequest("register", None, generation, session.token),
               \A j \in Slots : j # i => net'[j] = Unheard(net[j])
        PROVE  SlotInv'
    <2>1. net'[i].token = generation + 1 /\ net'[i].kind = "register"
      BY <1>4, TokenIs DEF NewRequest
    <2>2. ReleasedIsOld' BY <1>1 DEF SlotInv, ReleasedIsOld
    <2>3. \A r \in released : r.token # generation + 1 BY <1>0 DEF SlotInv, ReleasedIsOld
    <2>4. ReleasedIsFree' BY <1>1, <1>2, <1>4, <2>1, <2>3 DEF SlotInv, ReleasedIsFree
    <2>5. \A j \in Slots : Live(j)' => j = i BY <1>2, <1>4 DEF Live
    <2>6. SignOutIsAlone' BY <2>1, <2>5 DEF SignOutIsAlone, Revoking
    <2> QED BY <2>2, <2>4, <2>6 DEF SlotInv
  <1> QED BY <1>3, <1>4, RestartIs

\* Every step keeps released slots free.
LEMMA SlotNext ==
  SessionInv /\ TypeInv /\ DeviceIsKnown /\ OrderInv /\ OrderInv' /\ SlotInv /\ [Next]_vars
    => SlotInv'
  <1> SUFFICES ASSUME SessionInv, TypeInv, DeviceIsKnown, OrderInv, OrderInv', SlotInv, [Next]_vars
               PROVE  SlotInv'
    OBVIOUS
  <1>0. server \in ServerType BY TypeParts DEF ServerOK
  <1>1. CASE /\ UNCHANGED <<control, local, overlap, released>>
             /\ server'.slots \subseteq server.slots
    BY <1>1, QuietSlots DEF control, local
  <1>2. CASE \E b \in background : BackgroundDone(b) \/ ServeBackground(b)
    BY <1>1, <1>2 DEF BackgroundDone, ServeBackground, Silent
  <1>3. CASE Expire \/ RemoveDevice \/ Publish \/ Age \/ EditSites
    <2>1. server'.slots \subseteq server.slots
      BY <1>0, <1>3 DEF Expire, RemoveDevice, Publish, Age, EditSites, ServerType
    <2> QED BY <1>1, <1>3, <2>1 DEF Expire, RemoveDevice, Publish, Age, EditSites, Silent
  <1>4. CASE UNCHANGED vars BY <1>1, <1>4 DEF vars, history
  <1>5. CASE User BY <1>5, UserSlots
  <1>6. CASE \E i \in Slots : Reply(i) BY <1>6, ReplySlots
  <1>7. CASE \E i \in Slots : Serve(i) \/ Drop(i) BY <1>7, ServeSlots
  <1>8. CASE Restart BY <1>8, RestartSlots
  <1> QED BY <1>2, <1>3, <1>4, <1>5, <1>6, <1>7, <1>8 DEF Next

\* A session ended by a confirmed sign-out holds no device slot, however many
\* requests of other sessions are in flight or arrive later, unless signing out
\* met another request of the session.
THEOREM TunnelCoreSlotReleased == Spec => []SlotReleased
  <1>1. Init => SlotInv
    BY DEF Init, SlotInv, ReleasedIsOld, ReleasedIsFree, SignOutIsAlone, Live
  <1>2. SlotInv => SlotReleased BY DEF SlotInv, ReleasedIsFree, SlotReleased
  <1> QED BY <1>1, <1>2, TunnelCoreOrder, SlotNext, PTL DEF Spec

-----------------------------------------------------------------------------
(* The region and the rules in force.                                      *)

InForce == routing.region # None => routing.applied[1] \in {routing.region, Edited}

\* The rules asked for are those of the region chosen; a server without the
\* interface says so of the default rules only; and configurations are asked
\* for with the rules of the region in force.
FollowsRegion(i) ==
  /\ net[i].kind = "routing" =>
       /\ net[i].arg = routing.region
       /\ net[i].answered /\ net[i].answer.code = "legacy" => net[i].arg = None
  /\ net[i].kind = "configs" => InForce

RegionInv == ~overlap => \A i \in Slots : Live(i) => FollowsRegion(i)

\* A step after which no request waits that the region matters to.
LEMMA NoneFollows ==
  ASSUME ~overlap' => \A j \in Slots : Live(j)' => net'[j].kind \notin Carrying
  PROVE  RegionInv'
  BY DEF RegionInv, FollowsRegion, Carrying

\* A step that leaves region and rules alone, or edits them by hand, and asks
\* for neither rules nor configurations.
LEMMA QuietFollows ==
  ASSUME RegionInv, ~overlap' => ~overlap, routing'.region = routing.region,
         routing'.applied = routing.applied \/ routing'.applied[1] = Edited,
         \A j \in Slots : Live(j)' => \/ net'[j].kind \notin Carrying
                                      \/ Live(j) /\ net'[j] = net[j]
  PROVE  RegionInv'
  BY DEF RegionInv, FollowsRegion, InForce, Carrying

\* A request that replaces the only one there is.
LEMMA SendFollows ==
  ASSUME SessionInv, OrderInv', NEW i \in Slots, NEW kind, NEW arg, NEW token,
         Send(i, kind, arg, token),
         kind = "routing" => arg = routing'.region, kind = "configs" => InForce'
  PROVE  RegionInv'
  <1>1. Live(i)' /\ net'[i].kind = kind /\ net'[i].arg = arg /\ ~net'[i].answered BY SendLive
  <1>2. ~overlap' => \A j \in Slots : Live(j)' => j = i BY <1>1 DEF OrderInv, OneAtATime
  <1>3. FollowsRegion(i)' BY <1>1 DEF FollowsRegion
  <1> QED BY <1>2, <1>3 DEF RegionInv

\* An idle client waits for nothing.
LEMMA IdleFollows == ASSUME OrderInv', busy' = FALSE PROVE RegionInv'
  BY DEF OrderInv, OneAtATime, RegionInv

\* Applying the rules of the region chosen puts them in force, also where
\* applyRouting skips the rules it remembers.
LEMMA ApplyInForce ==
  ASSUME NEW r, RoutingIsSound(r), NEW revision, r.region # None
  PROVE  LET s == ApplyRouting(r, Key(r.region), revision)
         IN s.region = r.region /\ s.applied[1] \in {r.region, Edited}
  <1>1. Key(r.region) = r.region BY DEF Key
  <1>2. CASE r.last = <<r.region, revision>>
    <2>1. r.last[1] = r.region BY <1>2
    <2> QED BY <1>1, <1>2, <2>1 DEF ApplyRouting, RoutingIsSound
  <1>3. CASE r.last # <<r.region, revision>>
    BY <1>1, <1>3 DEF ApplyRouting, RoutingIsSound, RoutingFields
  <1> QED BY <1>2, <1>3

LEMMA ApplyRegion ==
  ASSUME NEW r, RoutingIsSound(r), NEW key, NEW revision
  PROVE  ApplyRouting(r, key, revision).region = r.region
  BY DEF ApplyRouting, RoutingIsSound, RoutingFields

\* refreshRouting, from the cache or from the server.
LEMMA RefreshRoutingFollows ==
  ASSUME SessionInv, OrderInv', NEW i \in Slots, NEW r, RoutingIsSound(r), NEW p,
         RefreshRouting(i, r, p)
  PROVE  RegionInv'
  <1> DEFINE key == Key(r.region)
             revision == r.cache[key]
  <1>1. CASE Send(i, "routing", r.region, session.token) /\ routing' = r
    BY <1>1, SendFollows
  <1>2. CASE Send(i, "configs", None, session.token)
             /\ routing' = ApplyRouting(r, key, revision)
    <2>1. InForce' BY <1>2, ApplyInForce, ApplyRegion DEF InForce
    <2> QED BY <1>2, <2>1, SendFollows
  <1>3. CASE Fail(i) BY <1>3, IdleFollows DEF Fail
  <1> QED BY <1>1, <1>2, <1>3 DEF RefreshRouting

\* The operations of the user.
LEMMA UserFollows ==
  ASSUME SessionInv, DeviceIsKnown, RulesInv, OrderInv', RegionInv, User PROVE RegionInv'
  <1>0. RoutingIsSound(routing) BY DEF RulesInv
  <1>1. ASSUME NEW i \in Slots, NEW kind, NEW arg, NEW token, Send(i, kind, arg, token),
               kind \notin Carrying
        PROVE  RegionInv'
    BY <1>1, SendFollows DEF Carrying
  <1>2. CASE busy' = FALSE BY <1>2, IdleFollows
  <1>3. CASE RejectInput \/ CancelSignIn BY <1>2, <1>3 DEF RejectInput, CancelSignIn, Reject, Forget
  <1>4. ASSUME NEW kind \in {"revoke", "revokeAll"}, SignOut(kind) PROVE RegionInv'
    BY <1>1, <1>2, <1>4 DEF SignOut, Reject, Carrying
  <1>5. CASE SelectCurrentConfig
    <2>1. CASE UNCHANGED control /\ UNCHANGED <<rules, overlap>>
      <3>1. UNCHANGED <<net, generation, routing, overlap>> BY <2>1 DEF control, rules
      <3>2. \A j \in Slots : Live(j)' => Live(j) /\ net'[j] = net[j] BY <3>1 DEF Live
      <3> QED BY <3>1, <3>2, QuietFollows
    <2>2. ASSUME NEW i \in Slots, NEW c, SelectConfig(i, account.configs, c) PROVE RegionInv'
      BY <1>1, <2>2 DEF SelectConfig, Carrying
    <2> QED BY <1>2, <1>5, <2>1, <2>2 DEF SelectCurrentConfig, Reject, Deliver
  <1>6. ASSUME NEW region, SelectRegion(region) PROVE RegionInv'
    <2> DEFINE r == [routing EXCEPT !.region = region, !.savedRegion = region]
    <2>1. RoutingIsSound(r) BY <1>0 DEF RoutingIsSound, RoutingFields
    <2>2. ASSUME NEW i \in Slots, RefreshRouting(i, r, pending) PROVE RegionInv'
      <3> HIDE DEF r
      <3> QED BY <2>1, <2>2, RefreshRoutingFollows
    <2> QED BY <1>2, <1>6, <2>2 DEF SelectRegion, Reject
  <1>7. CASE (\E way \in Accounts : SignIn(way)) \/ LinkTelegram \/ RequestAccountDeletion
             \/ Refresh \/ \E mode \in {"auto"} \cup Locations : SelectVpnCountry(mode)
    BY <1>1, <1>7 DEF SignIn, LinkTelegram, RequestAccountDeletion, Refresh, StartRefresh,
       SelectVpnCountry, Carrying
  <1> QED BY <1>3, <1>4, <1>5, <1>6, <1>7 DEF User

\* The replies: the rules that arrive are those of the region still chosen.
LEMMA ReplyFollows ==
  ASSUME SessionInv, RulesInv, OrderInv', RegionInv, NEW i \in Slots, Reply(i) PROVE RegionInv'
  <1>0. RoutingIsSound(routing) BY DEF RulesInv
  <1>1. ASSUME NEW kind, NEW arg, NEW token, Send(i, kind, arg, token), kind \notin Carrying
        PROVE  RegionInv'
    BY <1>1, SendFollows DEF Carrying
  <1>2. CASE busy' = FALSE BY <1>2, IdleFollows
  <1>3. CASE AuthDone(i) \/ RegisterDone(i) \/ LinkDone(i) \/ MeDone(i) \/ SelectionDone(i)
             \/ SelectionMissing(i)
    BY <1>1, <1>3 DEF AuthDone, RegisterDone, LinkDone, MeDone, SelectionDone, SelectionMissing,
       StartRefresh, Carrying
  <1>4. CASE DeleteDone(i) \/ SignedOut(i) \/ Unauthorized(i) \/ Lost(i)
    BY <1>2, <1>4 DEF DeleteDone, SignedOut, Unauthorized, Lost, Finish, Fail, Forget
  <1>5. CASE Ignored(i)
    <2>1. net' = Over(i) /\ UNCHANGED <<generation, routing, overlap>>
      BY <1>5 DEF Ignored, rules, Silent
    <2>2. \A j \in Slots : Live(j)' => Live(j) /\ net'[j] = net[j] BY <2>1, OverLive DEF Live
    <2> QED BY <2>1, <2>2, QuietFollows
  <1>6. CASE RegionsDone(i)
    <2> DEFINE offered == net[i].answer.list
               gone == routing.region \notin offered \cup {None}
               kept(region) == IF gone THEN None ELSE region
               r == [routing EXCEPT !.offered = offered, !.region = kept(@),
                                    !.savedRegion = kept(@)]
    <2>1. RefreshRouting(i, r, pending) BY <1>6 DEF RegionsDone
    <2>2. RoutingIsSound(r) BY <1>0 DEF RoutingIsSound, RoutingFields
    <2> HIDE DEF r
    <2> QED BY <2>1, <2>2, RefreshRoutingFollows
  <1>7. CASE RegionsLegacy(i)
    <2>1. RoutingIsSound([routing EXCEPT !.offered = {}, !.region = None])
      BY <1>0 DEF RoutingIsSound, RoutingFields
    <2> QED BY <1>7, <2>1, RefreshRoutingFollows DEF RegionsLegacy
  <1>8. CASE SelectDone(i) BY <1>0, <1>8, RefreshRoutingFollows DEF SelectDone
  <1>9. CASE RoutingDone(i)
    <2> DEFINE key == Key(net[i].arg)
               revision == net[i].answer.revision
               r == Store(routing, key, revision)
    <2>1. Live(i) /\ net[i].kind = "routing" /\ UNCHANGED overlap
      BY <1>9 DEF RoutingDone, Read, Live, Silent
    <2>2. CASE Fail(i) BY <1>2, <2>2 DEF Fail
    <2>3. CASE Send(i, "configs", None, session.token)
               /\ routing' = ApplyRouting(r, key, revision)
      <3>1. RoutingIsSound(r) /\ r.region = routing.region
        BY <1>0, StoreSound DEF Store, RoutingIsSound, RoutingFields
      <3>2. ~overlap => net[i].arg = r.region BY <2>1, <3>1 DEF RegionInv, FollowsRegion
      <3>3. CASE ~overlap
        <4>1. routing' = ApplyRouting(r, Key(r.region), revision) BY <2>3, <3>2, <3>3
        <4> HIDE DEF r
        <4>2. InForce' BY <3>1, <4>1, ApplyInForce, ApplyRegion DEF InForce
        <4> QED BY <2>3, <4>2, SendFollows
      <3>4. CASE overlap BY <2>1, <3>4 DEF RegionInv
      <3> QED BY <3>3, <3>4
    <2> QED BY <1>9, <2>2, <2>3 DEF RoutingDone
  <1>10. CASE RoutingLegacy(i)
    <2>1. /\ Live(i) /\ net[i].kind = "routing" /\ net[i].answered
          /\ net[i].answer.code = "legacy" /\ UNCHANGED <<overlap, routing>>
          /\ Send(i, "configs", None, session.token)
      BY <1>10 DEF RoutingLegacy, Read, Live, Silent, rules
    <2>2. CASE overlap BY <2>1, <2>2 DEF RegionInv
    <2>3. CASE ~overlap
      <3>1. routing.region = None BY <2>1, <2>3 DEF RegionInv, FollowsRegion
      <3>2. InForce' BY <2>1, <3>1 DEF InForce
      <3> QED BY <2>1, <3>2, SendFollows
    <2> QED BY <2>2, <2>3
  <1>11. CASE ConfigsDone(i) \/ ConfigDone(i) \/ DownloadDone(i)
    <2>1. CASE Finish(i) \/ Fail(i) BY <1>2, <2>1 DEF Finish, Fail
    <2>2. ASSUME NEW configs, SelectConfig(i, configs, pending) PROVE RegionInv'
      BY <1>1, <2>2 DEF SelectConfig, Carrying
    <2>3. CASE Send(i, "download", net[i].arg, net[i].token) BY <1>1, <2>3 DEF Carrying
    <2> QED BY <1>11, <2>1, <2>2, <2>3 DEF ConfigsDone, ConfigDone, DownloadDone
  <1> QED BY <1>3, <1>4, <1>5, <1>6, <1>7, <1>8, <1>9, <1>10, <1>11 DEF Reply

\* The server's answer: only the default rules may be unknown to it.
LEMMA ServeFollows ==
  ASSUME SessionInv, RegionInv, NEW i \in Slots, Serve(i) \/ Drop(i) PROVE RegionInv'
  <1>1. UNCHANGED <<generation, overlap, routing>> BY DEF Serve, Drop, Silent, rules
  <1>2. /\ \A j \in Slots : j # i => net'[j] = net[j]
        /\ \/ net'[i] = Idle
           \/ /\ net'[i].heard = net[i].heard /\ net'[i].kind = net[i].kind
              /\ net'[i].arg = net[i].arg /\ net'[i].gen = net[i].gen /\ net[i] # Idle
    BY ServedIs
  <1>3. net'[i] # Idle /\ net[i].kind = "routing" /\ net'[i].answer.code = "legacy" =>
          net[i].arg = None
    <2>1. CASE Drop(i)
      <3>1. DOMAIN net = Slots BY DEF SessionInv, RequestsAreSound
      <3> QED BY <2>1, <3>1 DEF Drop
    <2>2. CASE Serve(i)
      <3>0. DOMAIN net = Slots /\ DOMAIN net[i] = RequestFields
        BY <2>2 DEF SessionInv, RequestsAreSound, RequestIsSound, Serve
      <3>1. PICK a \in Answers(net[i]) :
              net' = [net EXCEPT ![i] = IF @.heard THEN [@ EXCEPT !.answered = TRUE, !.answer = a]
                                        ELSE Idle]
        BY <2>2 DEF Serve
      <3>2. net'[i] # Idle => net'[i].answer = a BY <3>0, <3>1 DEF RequestFields
      <3>3. ASSUME net[i].kind = "routing", net[i].arg # None, a.code = "legacy" PROVE FALSE
        <4>1. a \in {Answer("gone")} \cup Told({{}}, {None}, {None}, {server.revision})
          BY <3>3 DEF Answers
        <4> QED BY <3>3, <4>1 DEF Answer, Told
      <3> QED BY <3>2, <3>3
    <2> QED BY <2>1, <2>2
  <1>4. \A j \in Slots : Live(j)' => Live(j) BY <1>1, <1>2 DEF Live
  <1>5. ASSUME NEW j \in Slots, ~overlap, Live(j)' PROVE FollowsRegion(j)'
    <2>1. FollowsRegion(j) BY <1>4, <1>5 DEF RegionInv
    <2>2. CASE j = i BY <1>1, <1>2, <1>3, <1>5, <2>1, <2>2 DEF FollowsRegion, InForce, Live
    <2>3. CASE j # i BY <1>1, <1>2, <2>1, <2>3 DEF FollowsRegion, InForce
    <2> QED BY <2>2, <2>3
  <1> QED BY <1>1, <1>5 DEF RegionInv

\* Every step.
LEMMA RegionNext ==
  SessionInv /\ DeviceIsKnown /\ RulesInv /\ OrderInv' /\ RegionInv /\ [Next]_vars => RegionInv'
  <1> SUFFICES ASSUME SessionInv, DeviceIsKnown, RulesInv, OrderInv', RegionInv, [Next]_vars
               PROVE  RegionInv'
    OBVIOUS
  <1>0. RoutingIsSound(routing) BY DEF RulesInv
  <1>1. CASE /\ UNCHANGED <<net, generation, overlap>> /\ routing'.region = routing.region
             /\ routing'.applied = routing.applied \/ routing'.applied[1] = Edited
    <2>1. \A j \in Slots : Live(j)' => Live(j) /\ net'[j] = net[j] BY <1>1 DEF Live
    <2> QED BY <1>1, <2>1, QuietFollows
  <1>2. ASSUME NEW b \in background, BackgroundDone(b) \/ ServeBackground(b) PROVE RegionInv'
    <2>1. routing' = routing \/ routing' = Store(routing, b.key, b.revision)
      BY <1>2 DEF BackgroundDone, ServeBackground
    <2>2. routing'.region = routing.region /\ routing'.applied = routing.applied
      BY <1>0, <2>1 DEF Store, RoutingIsSound, RoutingFields
    <2> QED BY <1>1, <1>2, <2>2 DEF BackgroundDone, ServeBackground, control, Silent
  <1>3. CASE Expire \/ RemoveDevice \/ Publish
    BY <1>1, <1>3 DEF Expire, RemoveDevice, Publish, control, rules, Silent
  <1>4. CASE Age \/ EditSites
    <2>1. /\ routing'.region = routing.region
          /\ routing'.applied = routing.applied \/ routing'.applied[1] = Edited
      BY <1>0, <1>4 DEF Age, EditSites, RoutingIsSound, RoutingFields
    <2> QED BY <1>1, <1>4, <2>1 DEF Age, EditSites, control, Silent
  <1>5. CASE Restart
    <2>1. \A j \in Slots : net'[j] = Unheard(net[j]) => ~Live(j)'
      BY UnheardIs DEF Live, SessionInv, RequestsAreSound, RequestIsSound
    <2>2. \A j \in Slots : Live(j)' => net'[j].kind \notin Carrying
      <3>1. CASE \A j \in Slots : net'[j] = Unheard(net[j]) BY <2>1, <3>1
      <3>2. ASSUME NEW i \in Slots,
                   net'[i] = NewRequest("register", None, generation, session.token),
                   \A j \in Slots : j # i => net'[j] = Unheard(net[j])
            PROVE  \A j \in Slots : Live(j)' => net'[j].kind \notin Carrying
        <4>1. net'[i].kind = "register" BY <3>2 DEF NewRequest
        <4> QED BY <2>1, <3>2, <4>1 DEF Carrying
      <3> QED BY <1>5, <3>1, <3>2, RestartIs
    <2> QED BY <2>2, NoneFollows
  <1>6. CASE UNCHANGED vars BY <1>1, <1>6 DEF vars, control, rules, history
  <1>7. CASE User BY <1>7, UserFollows
  <1>8. CASE \E i \in Slots : Reply(i) BY <1>8, ReplyFollows
  <1>9. CASE \E i \in Slots : Serve(i) \/ Drop(i) BY <1>9, ServeFollows
  <1> QED BY <1>2, <1>3, <1>4, <1>5, <1>6, <1>7, <1>8, <1>9 DEF Next

\* Whoever chooses a region gets configurations with its rules in force, or with
\* the settings the user made of them, for any sessions, revisions, failures,
\* restarts and background refreshes, unless signing out met another request.
THEOREM TunnelCoreRulesFollowRegion == Spec => []RulesFollowRegion
  <1>1. Init => RegionInv BY DEF Init, RegionInv, Live
  <1>2. RegionInv => RulesFollowRegion
    BY DEF RegionInv, RulesFollowRegion, FollowsRegion, InForce, Live
  <1> QED BY <1>1, <1>2, TunnelCoreOrder, RulesInit, RulesNext, RegionNext, PTL DEF Spec
=============================================================================
