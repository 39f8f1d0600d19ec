-------------------------- MODULE TunnelCoreProofs --------------------------
(***************************************************************************)
(* For any number of requests in flight, sessions, locations, regions and  *)
(* revisions: what one session was told never reaches another, the stored  *)
(* session is the current one, a key has one background refresh at a time, *)
(* and every variable has its type.                                        *)
(***************************************************************************)
EXTENDS TunnelCore, TLAPS

-----------------------------------------------------------------------------
(* Routing rules.                                                          *)

RoutingFields == {"region", "savedRegion", "offered", "cache", "stale", "last", "applied"}

\* What applyRouting relies on: the rules it remembers are in force, unless the
\* user has changed them since.
RoutingIsSound(r) ==
  /\ DOMAIN r = RoutingFields
  /\ r.last[1] # None => r.applied[1] \in {r.last[1], Edited}

\* Every refresh in flight is registered, and no two are for one key.
RefreshesAreRegistered ==
  /\ \A b \in background : "key" \in DOMAIN b /\ b.key \in refreshing
  /\ \A a, b \in background : a.key = b.key => a = b

RulesInv == RoutingIsSound(routing) /\ RefreshesAreRegistered

\* Applying rules makes them the ones in force and the ones remembered.
LEMMA ApplySound ==
  ASSUME NEW r, RoutingIsSound(r), NEW key, NEW revision
  PROVE  RoutingIsSound(ApplyRouting(r, key, revision))
  BY DEF RoutingIsSound, ApplyRouting, RoutingFields

\* Caching rules changes nothing in force.
LEMMA StoreSound ==
  ASSUME NEW r, RoutingIsSound(r), NEW key, NEW revision
  PROVE  RoutingIsSound(Store(r, key, revision))
  BY DEF RoutingIsSound, Store, RoutingFields

\* A background refresh is started only for a key that has none.
LEMMA RefreshInBackgroundKeeps ==
  ASSUME RefreshesAreRegistered, NEW key, RefreshInBackground(key)
  PROVE  RefreshesAreRegistered'
  BY DEF RefreshesAreRegistered, RefreshInBackground

\* refreshRouting, whatever it does with the cache.
LEMMA RefreshRoutingKeeps ==
  ASSUME RulesInv, NEW i, NEW r, RoutingIsSound(r), NEW p, RefreshRouting(i, r, p)
  PROVE  RulesInv'
  <1> DEFINE key == Key(r.region)
             revision == r.cache[key]
  <1>1. routing' = r \/ routing' = ApplyRouting(r, key, revision)
    BY DEF RefreshRouting
  <1>2. RoutingIsSound(routing') BY <1>1, ApplySound
  <1>3. RefreshInBackground(key) \/ UNCHANGED <<refreshing, background>>
    BY DEF RefreshRouting
  <1>4. RefreshesAreRegistered'
    <2>1. CASE RefreshInBackground(key) BY <2>1, RefreshInBackgroundKeeps DEF RulesInv
    <2>2. CASE UNCHANGED <<refreshing, background>> BY <2>2 DEF RulesInv, RefreshesAreRegistered
    <2> QED BY <1>3, <2>1, <2>2
  <1> QED BY <1>2, <1>4 DEF RulesInv

\* Steps that leave the rules alone.
LEMMA RulesUnchanged == RulesInv /\ UNCHANGED rules => RulesInv'
  BY DEF RulesInv, RefreshesAreRegistered, RoutingIsSound, rules

\* The steps that change the rules, and all others.
LEMMA RulesNext == RulesInv /\ [Next]_vars => RulesInv'
  <1> SUFFICES ASSUME RulesInv, [Next]_vars PROVE RulesInv'
    OBVIOUS
  <1>0. RoutingIsSound(routing) /\ RefreshesAreRegistered BY DEF RulesInv
  <1>1. CASE UNCHANGED rules BY <1>1, RulesUnchanged
  <1>2. CASE Forget /\ UNCHANGED <<refreshing, background>>
    <2>1. routing' = [routing EXCEPT !.last = <<None, 0>>] BY <1>2 DEF Forget
    <2>2. RoutingIsSound(routing') BY <1>0, <2>1 DEF RoutingIsSound, RoutingFields
    <2> QED BY <1>0, <1>2, <2>2 DEF RulesInv, RefreshesAreRegistered
  <1>3. ASSUME NEW region, SelectRegion(region) PROVE RulesInv'
    <2>1. CASE UNCHANGED rules BY <2>1, RulesUnchanged
    <2>2. ASSUME NEW i \in Slots,
                 RefreshRouting(i, [routing EXCEPT !.region = region, !.savedRegion = region],
                                pending)
          PROVE  RulesInv'
      <3>1. RoutingIsSound([routing EXCEPT !.region = region, !.savedRegion = region])
        BY <1>0 DEF RoutingIsSound, RoutingFields
      <3> QED BY <2>2, <3>1, RefreshRoutingKeeps
    <2> QED BY <1>3, <2>1, <2>2 DEF SelectRegion
  <1>4. ASSUME NEW i \in Slots, RegionsDone(i) PROVE RulesInv'
    <2>1. PICK r : RoutingIsSound(r) /\ RefreshRouting(i, r, pending)
      <3> DEFINE offered == net[i].answer.list
                 gone == routing.region \notin offered \cup {None}
                 kept(region) == IF gone THEN None ELSE region
                 r == [routing EXCEPT !.offered = offered, !.region = kept(@),
                                      !.savedRegion = kept(@)]
      <3>1. RefreshRouting(i, r, pending) BY <1>4 DEF RegionsDone
      <3>2. RoutingIsSound(r) BY <1>0 DEF RoutingIsSound, RoutingFields
      <3> QED BY <3>1, <3>2
    <2> QED BY <2>1, RefreshRoutingKeeps
  <1>5. ASSUME NEW i \in Slots, RegionsLegacy(i) PROVE RulesInv'
    <2>1. RoutingIsSound([routing EXCEPT !.offered = {}, !.region = None])
      BY <1>0 DEF RoutingIsSound, RoutingFields
    <2> QED BY <1>5, <2>1, RefreshRoutingKeeps DEF RegionsLegacy
  <1>6. ASSUME NEW i \in Slots, SelectDone(i) PROVE RulesInv'
    BY <1>0, <1>6, RefreshRoutingKeeps DEF SelectDone
  <1>7. ASSUME NEW i \in Slots, RoutingDone(i) PROVE RulesInv'
    <2> DEFINE key == Key(net[i].arg)
               revision == net[i].answer.revision
               r == Store(routing, key, revision)
    <2>1. routing' = r \/ routing' = ApplyRouting(r, key, revision) BY <1>7 DEF RoutingDone
    <2>2. RoutingIsSound(r) BY <1>0, StoreSound
    <2>3. RoutingIsSound(routing') BY <2>1, <2>2, ApplySound
    <2> QED BY <1>0, <1>7, <2>3 DEF RulesInv, RoutingDone, RefreshesAreRegistered
  <1>8. ASSUME NEW b \in background, BackgroundDone(b) PROVE RulesInv'
    <2>1. RoutingIsSound(routing') BY <1>0, <1>8, StoreSound DEF BackgroundDone
    <2>2. RefreshesAreRegistered' BY <1>0, <1>8 DEF BackgroundDone, RefreshesAreRegistered
    <2> QED BY <2>1, <2>2 DEF RulesInv
  <1>9. ASSUME NEW b \in background, ServeBackground(b) PROVE RulesInv'
    <2> DEFINE c == [b EXCEPT !.revision = server.revision]
    <2>1. "key" \in DOMAIN c /\ c.key = b.key BY <1>0 DEF RefreshesAreRegistered
    <2>2. background' = (background \ {b}) \cup {c} /\ UNCHANGED <<routing, refreshing>>
      BY <1>9 DEF ServeBackground
    <2> HIDE DEF c
    <2>3. RefreshesAreRegistered' BY <1>0, <2>1, <2>2 DEF RefreshesAreRegistered
    <2> QED BY <1>0, <2>2, <2>3 DEF RulesInv
  <1>10. CASE Age
    <2>1. RoutingIsSound(routing') BY <1>0, <1>10 DEF Age, RoutingIsSound, RoutingFields
    <2> QED BY <1>0, <1>10, <2>1 DEF Age, RulesInv, RefreshesAreRegistered
  <1>11. CASE Restart
    <2>1. /\ routing' = [routing EXCEPT !.region = routing.savedRegion, !.offered = {},
                                        !.last = <<None, 0>>]
          /\ background' = {}
      BY <1>11 DEF Restart
    <2>2. RoutingIsSound(routing') BY <1>0, <2>1 DEF RoutingIsSound, RoutingFields
    <2>3. RefreshesAreRegistered' BY <2>1 DEF RefreshesAreRegistered
    <2> QED BY <2>2, <2>3 DEF RulesInv
  <1>12. CASE User
    <2>1. CASE \E region \in Regions \cup {None} : SelectRegion(region) BY <1>3, <2>1
    <2>2. CASE CancelSignIn BY <1>2, <2>2 DEF CancelSignIn
    <2>3. CASE \E kind \in {"revoke", "revokeAll"} : SignOut(kind) BY <1>1, <2>3 DEF SignOut
    <2> QED BY <1>1, <1>12, <2>1, <2>2, <2>3
        DEF User, SignIn, RejectInput, LinkTelegram, RequestAccountDeletion, Refresh,
            SelectVpnCountry, SelectCurrentConfig
  <1>13. ASSUME NEW i \in Slots, Reply(i) PROVE RulesInv'
    <2>1. CASE AuthDone(i) \/ RegisterDone(i) \/ LinkDone(i) \/ DeleteDone(i) \/ MeDone(i)
               \/ SelectionDone(i) \/ SelectionMissing(i) \/ RoutingLegacy(i)
               \/ ConfigsDone(i) \/ ConfigDone(i) \/ DownloadDone(i) \/ Lost(i) \/ Ignored(i)
      BY <1>1, <2>1 DEF AuthDone, RegisterDone, LinkDone, DeleteDone, MeDone, SelectionDone,
         SelectionMissing, RoutingLegacy, ConfigsDone, ConfigDone, DownloadDone, Lost, Ignored
    <2>2. CASE SignedOut(i) \/ Unauthorized(i) BY <1>2, <2>2 DEF SignedOut, Unauthorized
    <2> QED BY <1>4, <1>5, <1>6, <1>7, <1>13, <2>1, <2>2 DEF Reply
  <1>14. ASSUME NEW i \in Slots, Serve(i) \/ Drop(i) PROVE RulesInv'
    BY <1>1, <1>14 DEF Serve, Drop
  <1>15. CASE Expire \/ RemoveDevice \/ Publish BY <1>1, <1>15 DEF Expire, RemoveDevice, Publish
  <1>16. CASE UNCHANGED vars BY <1>1, <1>16 DEF vars
  <1>17. CASE EditSites
    <2>1. RoutingIsSound(routing') BY <1>0, <1>17 DEF EditSites, RoutingIsSound, RoutingFields
    <2> QED BY <1>0, <1>17, <2>1 DEF EditSites, RulesInv, RefreshesAreRegistered
  <1> QED BY <1>8, <1>9, <1>10, <1>11, <1>12, <1>13, <1>14, <1>15, <1>16, <1>17 DEF Next

\* A client that starts for the first time has no rules.
LEMMA RulesInit == Init => RulesInv
  BY DEF Init, RulesInv, RoutingIsSound, RoutingFields, RefreshesAreRegistered

\* No two background refreshes of one key are in flight: m_routingRefreshInFlight
\* holds the key of each, also of one whose session has ended.
THEOREM TunnelCoreOneRefreshPerKey == Spec => []OneRefreshPerKey
  <1>1. RulesInv => OneRefreshPerKey BY DEF RulesInv, RefreshesAreRegistered, OneRefreshPerKey
  <1> QED BY <1>1, RulesInit, RulesNext, PTL DEF Spec

-----------------------------------------------------------------------------
(* Sessions.                                                               *)

RequestFields == {"kind", "arg", "gen", "token", "heard", "answered", "answer"}

\* A request r, seen in generation g by a client with token t: if its reply will
\* be read, it was made with that token, or to obtain one.
RequestIsSound(r, g, t) ==
  r # Idle =>
    /\ DOMAIN r = RequestFields
    /\ r.gen \in 0 .. g
    /\ r.heard /\ r.gen = g => r.kind = "auth" \/ (t # NoToken /\ r.token = t)

RequestsAreSound ==
  DOMAIN net = Slots /\ \A i \in Slots : RequestIsSound(net[i], generation, session.token)

\* A session's token is that of its generation.
SessionIsSound ==
  /\ generation \in Nat /\ saved = session
  /\ DOMAIN session = {"token", "email", "linked"}
  /\ session.token \in {NoToken, generation + 1}

\* What account a keeps was told to the holder of token t.
AccountIsSound(a, t) ==
  /\ DOMAIN a = {"configs", "selection", "deletion"}
  /\ a.configs.of \in {NoToken, t} /\ a.selection.of \in {NoToken, t}
  /\ a.configs.ids # {} => t # NoToken /\ a.configs.of = t

SessionInv ==
  /\ SessionIsSound /\ RequestsAreSound
  /\ AccountIsSound(account, session.token)
  /\ delivered.of = delivered.to

\* The record that request() makes.
NewRequest(kind, arg, g, token) ==
  [kind |-> kind, arg |-> arg, gen |-> g, token |-> token, heard |-> TRUE,
   answered |-> FALSE, answer |-> Answer(None)]

\* A request that nobody listens to, or that is over.
Unheard(r) == IF r = Idle \/ r.answered THEN Idle ELSE [r EXCEPT !.heard = FALSE]

\* A request made with the session's token, or to obtain one, is sound.
LEMMA NewRequestSound ==
  ASSUME NEW kind, NEW arg, NEW g \in Nat, NEW token, NEW t,
         kind = "auth" \/ (t # NoToken /\ token = t)
  PROVE  RequestIsSound(NewRequest(kind, arg, g, token), g, t)
  BY DEF RequestIsSound, NewRequest, RequestFields

\* A request nobody listens to is sound for any session.
LEMMA UnheardSound ==
  ASSUME NEW r, NEW g \in Nat, NEW t, RequestIsSound(r, g, t), NEW u
  PROVE  RequestIsSound(Unheard(r), g, u) /\ RequestIsSound(Unheard(r), g + 1, u)
  BY DEF RequestIsSound, Unheard, RequestFields

\* A new generation reads no reply of an earlier one.
LEMMA OldRequestSound ==
  ASSUME NEW r, NEW g \in Nat, NEW t, RequestIsSound(r, g, t), NEW u
  PROVE  RequestIsSound(r, g + 1, u)
  BY DEF RequestIsSound, RequestFields

\* An answer does not change what was asked.
LEMMA AnsweredSound ==
  ASSUME NEW r, r # Idle, NEW g \in Nat, NEW t, RequestIsSound(r, g, t), NEW a
  PROVE  RequestIsSound([r EXCEPT !.answered = TRUE, !.answer = a], g, t)
  BY DEF RequestIsSound, RequestFields

\* request(), by a client that has a token or asks for one.
LEMMA SendKeeps ==
  ASSUME SessionIsSound, RequestsAreSound, NEW i \in Slots, NEW kind, NEW arg, NEW token,
         Send(i, kind, arg, token), session'.token \in {session.token, generation + 1},
         kind = "auth" \/ (session'.token # NoToken /\ token = session'.token)
  PROVE  RequestsAreSound'
  <1>1. net' = [net EXCEPT ![i] = NewRequest(kind, arg, generation, token)]
        /\ generation' = generation
    BY DEF Send, NewRequest
  <1>2. DOMAIN net' = Slots BY <1>1 DEF RequestsAreSound
  <1>3. RequestIsSound(NewRequest(kind, arg, generation, token), generation, session'.token)
    BY NewRequestSound DEF SessionIsSound
  <1>4. \A j \in Slots : RequestIsSound(net[j], generation, session'.token)
    BY DEF RequestsAreSound, RequestIsSound, SessionIsSound, NoToken
  <1>5. \A j \in Slots : RequestIsSound(net'[j], generation, session'.token)
    <2> TAKE j \in Slots
    <2>1. CASE j = i
      <3>1. net'[j] = NewRequest(kind, arg, generation, token) BY <1>1, <2>1 DEF RequestsAreSound
      <3> QED BY <1>3, <3>1
    <2>2. CASE j # i
      <3>1. net'[j] = net[j] BY <1>1, <2>2 DEF RequestsAreSound
      <3> QED BY <1>4, <3>1
    <2> QED BY <2>1, <2>2
  <1> QED BY <1>1, <1>2, <1>5 DEF RequestsAreSound

\* A request that is over.
LEMMA OverKeeps ==
  ASSUME SessionIsSound, RequestsAreSound, NEW i \in Slots, net' = Over(i),
         \/ generation' = generation /\ session'.token = session.token
         \/ generation' = generation + 1
  PROVE  RequestsAreSound'
  <1>1. net' = [net EXCEPT ![i] = Unheard(net[i])] BY DEF Over, Unheard
  <1>2. DOMAIN net' = Slots BY <1>1 DEF RequestsAreSound
  <1>3. ASSUME NEW j \in Slots PROVE RequestIsSound(net'[j], generation', session'.token)
    <2>1. generation \in Nat /\ RequestIsSound(net[j], generation, session.token)
      BY DEF SessionIsSound, RequestsAreSound
    <2>2. net'[j] = net[j] \/ net'[j] = Unheard(net[j]) BY <1>1 DEF RequestsAreSound
    <2>3. CASE generation' = generation /\ session'.token = session.token
      BY <2>1, <2>2, <2>3, UnheardSound
    <2>4. CASE generation' = generation + 1
      BY <2>1, <2>2, <2>4, UnheardSound, OldRequestSound
    <2> QED BY <2>3, <2>4
  <1> QED BY <1>2, <1>3 DEF RequestsAreSound

\* A step that makes and ends no request.
LEMMA NetUnchanged ==
  ASSUME SessionIsSound, RequestsAreSound, net' = net,
         \/ generation' = generation /\ session'.token = session.token
         \/ generation' = generation + 1
  PROVE  RequestsAreSound'
  <1>1. ASSUME NEW j \in Slots PROVE RequestIsSound(net'[j], generation', session'.token)
    <2>1. generation \in Nat /\ RequestIsSound(net[j], generation, session.token)
      BY DEF SessionIsSound, RequestsAreSound
    <2> QED BY <2>1, OldRequestSound
  <1> QED BY <1>1 DEF RequestsAreSound

\* A reply that is read was asked for with the session's token, unless it is the
\* answer to a sign-in.
LEMMA ReadIs ==
  ASSUME SessionInv, NEW i \in Slots, NEW kind, NEW code, Read(i, kind, code), kind # "auth"
  PROVE  session.token # NoToken /\ net[i].token = session.token
  BY DEF SessionInv, RequestsAreSound, RequestIsSound, Read

\* refreshRouting asks with the session's token.
LEMMA RefreshRoutingSends ==
  ASSUME SessionInv, NEW i \in Slots, NEW r, NEW p, RefreshRouting(i, r, p),
         session.token # NoToken, session' = session
  PROVE  RequestsAreSound' /\ generation' = generation
  <1>1. \/ Send(i, "routing", r.region, session.token) \/ Send(i, "configs", None, session.token)
        \/ Fail(i)
    BY DEF RefreshRouting
  <1>2. SessionIsSound /\ RequestsAreSound BY DEF SessionInv
  <1>3. CASE Send(i, "routing", r.region, session.token)
    BY <1>2, <1>3, SendKeeps DEF Send
  <1>4. CASE Send(i, "configs", None, session.token)
    BY <1>2, <1>4, SendKeeps DEF Send
  <1>5. CASE Fail(i) BY <1>2, <1>5, OverKeeps DEF Fail
  <1> QED BY <1>1, <1>3, <1>4, <1>5

\* What the changes of an account keep.
LEMMA AccountChanges ==
  ASSUME NEW a, NEW t, AccountIsSound(a, t)
  PROVE  /\ AccountIsSound([a EXCEPT !.configs = NoConfigs], t)
         /\ \A d : AccountIsSound([a EXCEPT !.deletion = d], t)
         /\ \A c : t # NoToken /\ c.of = t => AccountIsSound([a EXCEPT !.configs = c], t)
  BY DEF AccountIsSound, NoConfigs

\* An account without data is anybody's.
LEMMA NoAccountSound == ASSUME NEW t PROVE AccountIsSound(NoAccount, t)
  BY DEF AccountIsSound, NoAccount, NoConfigs, NoSelection

\* A step that keeps the session and says nothing.
LEMMA QuietStep ==
  ASSUME SessionInv, UNCHANGED <<session, saved, generation>>, RequestsAreSound',
         AccountIsSound(account', session.token),
         delivered' = Undelivered
  PROVE  SessionInv'
  BY DEF SessionInv, SessionIsSound, Undelivered

\* clearSession: nothing of the session is left, and its replies are old.
LEMMA ForgetKeeps ==
  ASSUME SessionInv, Forget, RequestsAreSound', delivered' = Undelivered PROVE SessionInv'
  <1>1. SessionIsSound' BY DEF SessionInv, SessionIsSound, Forget, NoSession, NoToken
  <1>2. AccountIsSound(account', session'.token) BY NoAccountSound DEF Forget
  <1> QED BY <1>1, <1>2 DEF SessionInv, Undelivered

\* The operations of the user.
LEMMA UserKeeps == SessionInv /\ User => SessionInv'
  <1> SUFFICES ASSUME SessionInv, User PROVE SessionInv'
    OBVIOUS
  <1>0. SessionIsSound /\ RequestsAreSound /\ AccountIsSound(account, session.token)
    BY DEF SessionInv
  <1>1. CASE /\ UNCHANGED <<session, saved, account, generation>> /\ delivered' = Undelivered
             /\ RequestsAreSound'
    BY <1>0, <1>1, QuietStep
  <1>2. ASSUME NEW i \in Slots, NEW kind, NEW arg, NEW token, Send(i, kind, arg, token),
               kind = "auth" \/ (Authenticated /\ token = session.token),
               UNCHANGED <<session, saved, account>>, delivered' = Undelivered
        PROVE  SessionInv'
    <2>1. RequestsAreSound' BY <1>0, <1>2, SendKeeps DEF Authenticated
    <2> QED BY <1>1, <1>2, <2>1 DEF Send
  <1>3. CASE Reject /\ UNCHANGED <<session, saved, account>> /\ delivered' = Undelivered
    <2>1. RequestsAreSound' BY <1>0, <1>3, NetUnchanged DEF Reject
    <2> QED BY <1>1, <1>3, <2>1 DEF Reject
  <1>4. ASSUME NEW way \in Accounts, SignIn(way) PROVE SessionInv'
    BY <1>2, <1>4 DEF SignIn, Silent, local
  <1>5. CASE RejectInput BY <1>3, <1>5 DEF RejectInput, Silent, local
  <1>6. CASE LinkTelegram BY <1>2, <1>6 DEF LinkTelegram, May, Silent, local
  <1>7. CASE RequestAccountDeletion
    BY <1>2, <1>7 DEF RequestAccountDeletion, May, Silent, local
  <1>8. CASE Refresh
    <2>1. PICK i \in Slots : StartRefresh(i, account) BY <1>8 DEF Refresh
    <2>2. Authenticated /\ UNCHANGED local /\ delivered' = Undelivered
      BY <1>8 DEF Refresh, May, Silent
    <2>3. RequestsAreSound' BY <1>0, <2>1, <2>2, SendKeeps DEF StartRefresh, Authenticated, local
    <2>4. AccountIsSound(account', session.token)
      BY <1>0, <2>1, AccountChanges DEF StartRefresh
    <2> QED BY <2>1, <2>2, <2>3, <2>4, QuietStep DEF StartRefresh, Send, local
  <1>9. CASE CancelSignIn
    <2>1. net' = net \/ net' = Over(reply) BY <1>9 DEF CancelSignIn
    <2>2. generation' = generation + 1 BY <1>9 DEF CancelSignIn, Forget
    <2>3. RequestsAreSound'
      <3>1. CASE net' = net BY <1>0, <2>2, <3>1, NetUnchanged
      <3>2. CASE net' = Over(reply) /\ reply \in Slots BY <1>0, <2>2, <3>2, OverKeeps
      <3>3. CASE net' = Over(reply) /\ reply \notin Slots
        <4>1. net' = [net EXCEPT ![reply] = Unheard(net[reply])] BY <3>3 DEF Over, Unheard
        <4>2. DOMAIN net' = Slots /\ \A j \in Slots : net'[j] = net[j]
          BY <1>0, <3>3, <4>1 DEF RequestsAreSound
        <4>3. \A j \in Slots : RequestIsSound(net[j], generation + 1, session'.token)
          BY <1>0, OldRequestSound DEF RequestsAreSound, SessionIsSound
        <4> QED BY <2>2, <4>2, <4>3 DEF RequestsAreSound
      <3> QED BY <2>1, <3>1, <3>2, <3>3
    <2> QED BY <1>9, <2>3, ForgetKeeps DEF CancelSignIn
  <1>10. ASSUME NEW kind, SignOut(kind) PROVE SessionInv'
    <2>1. UNCHANGED <<session, saved, account>> /\ delivered' = Undelivered /\ Authenticated
      BY <1>10 DEF SignOut, local
    <2>2. Reject \/ \E i \in Slots : Send(i, kind, None, session.token) BY <1>10 DEF SignOut
    <2> QED BY <1>2, <1>3, <2>1, <2>2
  <1>11. ASSUME NEW mode, SelectVpnCountry(mode) PROVE SessionInv'
    BY <1>2, <1>11 DEF SelectVpnCountry, May, Silent
  <1>12. CASE SelectCurrentConfig
    <2>1. UNCHANGED <<session, saved, account>> /\ Authenticated
      BY <1>12 DEF SelectCurrentConfig, May, local
    <2>2. CASE Reject /\ Silent BY <1>3, <2>1, <2>2 DEF Silent
    <2>3. ASSUME NEW c \in Current, NEW i \in Slots, SelectConfig(i, account.configs, c)
          PROVE  SessionInv'
      BY <1>2, <2>1, <2>3 DEF SelectConfig, Silent
    <2>4. ASSUME NEW c \in Current, Deliver(c, account.configs.of), UNCHANGED control
          PROVE  SessionInv'
      <3>1. account.configs.of = session.token
        BY <1>0 DEF Current, AccountIsSound
      <3>2. delivered'.of = delivered'.to BY <2>4, <3>1 DEF Deliver
      <3>3. RequestsAreSound' BY <1>0, <2>1, <2>4, NetUnchanged DEF control
      <3> QED BY <1>0, <2>1, <2>4, <3>2, <3>3 DEF SessionInv, SessionIsSound, control
    <2> QED BY <1>12, <2>2, <2>3, <2>4 DEF SelectCurrentConfig
  <1>13. ASSUME NEW region, SelectRegion(region) PROVE SessionInv'
    <2>1. UNCHANGED <<session, saved, account>> /\ Authenticated /\ delivered' = Undelivered
      BY <1>13 DEF SelectRegion, May, Silent, local
    <2>2. CASE Reject BY <1>3, <2>1, <2>2
    <2>3. ASSUME NEW i \in Slots, NEW r, RefreshRouting(i, r, pending) PROVE SessionInv'
      BY <1>1, <2>1, <2>3, RefreshRoutingSends DEF Authenticated
    <2> QED BY <1>13, <2>2, <2>3 DEF SelectRegion
  <1> QED BY <1>4, <1>5, <1>6, <1>7, <1>8, <1>9, <1>10, <1>11, <1>12, <1>13 DEF User

\* The replies.
LEMMA ReplyKeeps == ASSUME SessionInv, NEW i \in Slots, Reply(i) PROVE SessionInv'
  <1>0. SessionIsSound /\ RequestsAreSound /\ AccountIsSound(account, session.token)
    BY DEF SessionInv
  <1>1. ASSUME NEW kind, NEW arg, Send(i, kind, arg, session.token), session.token # NoToken,
               UNCHANGED <<session, saved>>, AccountIsSound(account', session.token),
               delivered' = Undelivered
        PROVE  SessionInv'
    <2>1. RequestsAreSound' BY <1>0, <1>1, SendKeeps
    <2> QED BY <1>1, <2>1, QuietStep DEF Send
  <1>2. ASSUME net' = Over(i), UNCHANGED <<session, saved, generation>>,
               AccountIsSound(account', session.token), delivered'.of = delivered'.to
        PROVE  SessionInv'
    <2>1. RequestsAreSound' BY <1>0, <1>2, OverKeeps
    <2> QED BY <1>0, <1>2, <2>1 DEF SessionInv, SessionIsSound
  <1>3. CASE AuthDone(i)
    <2>1. /\ net[i].gen = generation
          /\ session' = [token |-> generation + 1, email |-> net[i].arg = "email", linked |-> FALSE]
          /\ saved' = session' /\ Send(i, "register", None, generation + 1)
          /\ account' = account /\ delivered' = Undelivered
      BY <1>3 DEF AuthDone, Read, Silent
    <2>2. session'.token = generation + 1 /\ generation + 1 # NoToken
          /\ DOMAIN session' = {"token", "email", "linked"} /\ generation' = generation
      BY <1>0, <2>1 DEF SessionIsSound, NoToken, Send
    <2>3. RequestsAreSound' BY <1>0, <2>1, <2>2, SendKeeps
    <2>4. AccountIsSound(account', session'.token)
      BY <1>0, <2>1, <2>2 DEF AccountIsSound, SessionIsSound
    <2>5. SessionIsSound' BY <1>0, <2>1, <2>2 DEF SessionIsSound
    <2> QED BY <2>1, <2>3, <2>4, <2>5 DEF SessionInv, Undelivered
  <1>4. CASE RegisterDone(i)
    <2>1. session.token # NoToken BY <1>4, ReadIs DEF RegisterDone
    <2>2. AccountIsSound(account', session.token)
      BY <1>0, <1>4, AccountChanges DEF RegisterDone, StartRefresh
    <2> QED BY <1>1, <1>4, <2>1, <2>2 DEF RegisterDone, StartRefresh, Silent, local
  <1>5. ASSUME NEW l, session' = [session EXCEPT !.linked = l], saved' = session',
               NEW kind, Send(i, kind, None, session.token), session.token # NoToken,
               AccountIsSound(account', session.token), delivered' = Undelivered
        PROVE  SessionInv'
    <2>1. session'.token = session.token /\ DOMAIN session' = DOMAIN session
          /\ generation' = generation
      BY <1>0, <1>5 DEF SessionIsSound, Send
    <2>2. RequestsAreSound' BY <1>0, <1>5, <2>1, SendKeeps
    <2>3. SessionIsSound' BY <1>0, <1>5, <2>1 DEF SessionIsSound
    <2> QED BY <1>5, <2>1, <2>2, <2>3 DEF SessionInv, Undelivered
  <1>6. CASE LinkDone(i)
    <2>1. session.token # NoToken BY <1>6, ReadIs DEF LinkDone
    <2>2. AccountIsSound(account', session.token)
      BY <1>0, <1>6, AccountChanges DEF LinkDone, StartRefresh
    <2> QED BY <1>5, <1>6, <2>1, <2>2 DEF LinkDone, StartRefresh, Silent
  <1>7. CASE MeDone(i)
    <2>1. session.token # NoToken BY <1>7, ReadIs DEF MeDone
    <2>2. AccountIsSound(account', session.token) BY <1>0, <1>7, AccountChanges DEF MeDone
    <2> QED BY <1>5, <1>7, <2>1, <2>2 DEF MeDone, Silent
  <1>8. CASE DeleteDone(i)
    <2>1. AccountIsSound(account', session.token) BY <1>0, <1>8, AccountChanges DEF DeleteDone
    <2> QED BY <1>2, <1>8, <2>1 DEF DeleteDone, Finish, Silent, Undelivered, local
  <1>9. CASE SignedOut(i) \/ Unauthorized(i)
    <2>1. Forget /\ net' = Over(i) /\ delivered' = Undelivered
      BY <1>9 DEF SignedOut, Unauthorized
    <2>2. RequestsAreSound' BY <1>0, <2>1, OverKeeps DEF Forget
    <2> QED BY <2>1, <2>2, ForgetKeeps
  <1>10. CASE SelectionDone(i)
    <2>1. session.token # NoToken /\ net[i].token = session.token
      BY <1>10, ReadIs DEF SelectionDone
    <2>2. AccountIsSound(account', session.token)
      <3>1. PICK s \in {Selection(net[i]), NoSelection} :
              account' = [account EXCEPT !.selection = s]
        BY <1>10 DEF SelectionDone
      <3>2. s.of \in {NoToken, session.token} BY <2>1, <3>1 DEF Selection, NoSelection
      <3> QED BY <1>0, <3>1, <3>2 DEF AccountIsSound, NoConfigs
    <2> QED BY <1>1, <1>10, <2>1, <2>2 DEF SelectionDone, Silent, local
  <1>11. CASE SelectionMissing(i)
    <2>1. session.token # NoToken BY <1>11, ReadIs DEF SelectionMissing
    <2> QED BY <1>0, <1>1, <1>11, <2>1 DEF SelectionMissing, Silent
  <1>12. CASE RegionsDone(i) \/ RegionsLegacy(i)
    <2>1. session.token # NoToken BY <1>12, ReadIs DEF RegionsDone, RegionsLegacy
    <2>2. PICK r : RefreshRouting(i, r, pending) BY <1>12 DEF RegionsDone, RegionsLegacy
    <2>3. UNCHANGED <<session, saved, account>> /\ delivered' = Undelivered
      BY <1>12 DEF RegionsDone, RegionsLegacy, Silent, local
    <2> QED BY <1>0, <2>1, <2>2, <2>3, RefreshRoutingSends, QuietStep
  <1>13. CASE RoutingDone(i)
    <2>1. session.token # NoToken BY <1>13, ReadIs DEF RoutingDone
    <2>2. UNCHANGED <<session, saved, account>> /\ delivered' = Undelivered
      BY <1>13 DEF RoutingDone, Silent, local
    <2>3. Send(i, "configs", None, session.token) \/ Fail(i) BY <1>13 DEF RoutingDone
    <2> QED BY <1>0, <1>1, <1>2, <2>1, <2>2, <2>3 DEF Fail, Undelivered
  <1>14. CASE RoutingLegacy(i)
    <2>1. session.token # NoToken BY <1>14, ReadIs DEF RoutingLegacy
    <2> QED BY <1>0, <1>1, <1>14, <2>1 DEF RoutingLegacy, Silent, local
  <1>15. CASE ConfigsDone(i)
    <2> DEFINE configs == [of |-> net[i].token, ids |-> net[i].answer.list,
                           form |-> net[i].answer.mode]
    <2>1. session.token # NoToken /\ net[i].token = session.token
      BY <1>15, ReadIs DEF ConfigsDone
    <2>2. UNCHANGED <<session, saved>> /\ account' = [account EXCEPT !.configs = configs]
      BY <1>15 DEF ConfigsDone, local
    <2>3. AccountIsSound(account', session.token)
      <3>1. configs.of = session.token BY <2>1
      <3> QED BY <1>0, <2>1, <2>2, <3>1, AccountChanges
    <2>4. \/ Finish(i) /\ Silent
          \/ SelectConfig(i, configs, pending)
          \/ Deliver(pending, net[i].token) /\ Finish(i)
          \/ Fail(i) /\ Silent
      BY <1>15 DEF ConfigsDone
    <2>5. CASE (Finish(i) \/ Fail(i)) /\ Silent
      BY <1>2, <2>2, <2>3, <2>5 DEF Finish, Fail, Silent, Undelivered
    <2>6. CASE SelectConfig(i, configs, pending)
      BY <1>1, <2>1, <2>2, <2>3, <2>6 DEF SelectConfig, Silent
    <2>7. CASE Deliver(pending, net[i].token) /\ Finish(i)
      BY <1>2, <2>1, <2>2, <2>3, <2>7 DEF Deliver, Finish
    <2> QED BY <2>4, <2>5, <2>6, <2>7
  <1>16. CASE SelectDone(i)
    <2>1. session.token # NoToken /\ net[i].token = session.token
      BY <1>16, ReadIs DEF SelectDone
    <2>2. AccountIsSound(account', session.token)
      <3>1. PICK s \in {Selection(net[i])} :
              account' = [account EXCEPT !.selection = s, !.configs = NoConfigs]
        BY <1>16 DEF SelectDone
      <3>2. s.of \in {NoToken, session.token} BY <2>1, <3>1 DEF Selection
      <3> QED BY <1>0, <3>1, <3>2 DEF AccountIsSound, NoConfigs
    <2>3. UNCHANGED <<session, saved>> /\ delivered' = Undelivered
      BY <1>16 DEF SelectDone, Silent, local
    <2>4. RequestsAreSound' /\ generation' = generation
      BY <1>16, <2>1, <2>3, RefreshRoutingSends DEF SelectDone
    <2> QED BY <2>2, <2>3, <2>4, QuietStep
  <1>17. CASE ConfigDone(i)
    <2>1. session.token # NoToken /\ net[i].token = session.token
      BY <1>17, ReadIs DEF ConfigDone
    <2>2. UNCHANGED <<session, saved, account>> BY <1>17 DEF ConfigDone, local
    <2>3. CASE Deliver(net[i].arg, net[i].token) /\ Finish(i)
      BY <1>0, <1>2, <2>1, <2>2, <2>3 DEF Deliver, Finish
    <2>4. CASE Send(i, "download", net[i].arg, net[i].token) /\ Silent
      BY <1>0, <1>1, <2>1, <2>2, <2>4 DEF Silent
    <2> QED BY <1>17, <2>3, <2>4 DEF ConfigDone
  <1>18. CASE DownloadDone(i)
    <2>1. net[i].token = session.token BY <1>18, ReadIs DEF DownloadDone
    <2> QED BY <1>0, <1>2, <1>18, <2>1 DEF DownloadDone, Deliver, Finish, local
  <1>19. CASE Lost(i) \/ Ignored(i)
    BY <1>0, <1>2, <1>19 DEF Lost, Ignored, Fail, Silent, Undelivered, local
  <1> QED BY <1>3, <1>4, <1>6, <1>7, <1>8, <1>9, <1>10, <1>11, <1>12, <1>13, <1>14, <1>15,
             <1>16, <1>17, <1>18, <1>19 DEF Reply

\* The server and the network change neither what a request asked nor for whom.
LEMMA ServerKeeps == ASSUME SessionInv, NEW i \in Slots, Serve(i) \/ Drop(i) PROVE SessionInv'
  <1>0. SessionIsSound /\ RequestsAreSound /\ AccountIsSound(account, session.token)
    BY DEF SessionInv
  <1>1. UNCHANGED <<generation, session, saved, account>> /\ delivered' = Undelivered
    BY DEF Serve, Drop, Silent, local
  <1>2. PICK b : net' = [net EXCEPT ![i] = b] /\ RequestIsSound(b, generation, session.token)
    <2>1. RequestIsSound(Idle, generation, session.token) BY DEF RequestIsSound
    <2>2. CASE net' = [net EXCEPT ![i] = Idle] BY <2>1, <2>2
    <2>3. ASSUME NEW a, net[i] # Idle,
                 net' = [net EXCEPT ![i] = [net[i] EXCEPT !.answered = TRUE, !.answer = a]]
          PROVE  \E b : net' = [net EXCEPT ![i] = b]
                        /\ RequestIsSound(b, generation, session.token)
      <3>1. RequestIsSound([net[i] EXCEPT !.answered = TRUE, !.answer = a],
                           generation, session.token)
        BY <1>0, <2>3, AnsweredSound DEF RequestsAreSound, SessionIsSound
      <3> QED BY <2>3, <3>1
    <2>4. CASE Drop(i) BY <2>2, <2>4 DEF Drop
    <2>5. CASE Serve(i)
      <3>1. net[i] # Idle /\ \E a : net' = [net EXCEPT ![i] = IF @.heard
              THEN [@ EXCEPT !.answered = TRUE, !.answer = a] ELSE Idle]
        BY <2>5 DEF Serve
      <3>2. CASE net[i].heard
        <4>1. PICK a : net' = [net EXCEPT ![i] = [net[i] EXCEPT !.answered = TRUE, !.answer = a]]
          BY <3>1, <3>2
        <4> QED BY <2>3, <3>1, <4>1
      <3>3. CASE ~net[i].heard
        <4>1. net' = [net EXCEPT ![i] = Idle] BY <3>1, <3>3
        <4> QED BY <2>2, <4>1
      <3> QED BY <3>2, <3>3
    <2> QED BY <2>4, <2>5
  <1>3. DOMAIN net' = Slots BY <1>0, <1>2 DEF RequestsAreSound
  <1>4. \A j \in Slots : RequestIsSound(net'[j], generation, session.token)
    BY <1>0, <1>2 DEF RequestsAreSound
  <1>5. RequestsAreSound' BY <1>1, <1>3, <1>4 DEF RequestsAreSound
  <1> QED BY <1>0, <1>1, <1>5, QuietStep

\* A restart brings back the session that was saved, which is the current one,
\* and listens to no request of before.
LEMMA RestartKeeps == SessionInv /\ Restart => SessionInv'
  <1> SUFFICES ASSUME SessionInv, Restart PROVE SessionInv'
    OBVIOUS
  <1>0. SessionIsSound /\ RequestsAreSound BY DEF SessionInv
  <1>1. /\ session' = session /\ saved' = saved /\ generation' = generation
        /\ account' = NoAccount /\ delivered' = Undelivered
    BY <1>0 DEF Restart, SessionIsSound, Silent
  <1> DEFINE after == [j \in Slots |-> Unheard(net[j])]
  <1>2. \/ net' = after
        \/ /\ session.token # NoToken
           /\ \E i \in Slots : net' = [after EXCEPT ![i] =
                NewRequest("register", None, generation, session.token)]
    BY <1>0, Zenon DEF Restart, SessionIsSound, Unheard, NewRequest
  <1>3. \A j \in Slots : RequestIsSound(after[j], generation, session.token)
    BY <1>0, UnheardSound DEF RequestsAreSound, SessionIsSound
  <1>4. DOMAIN after = Slots OBVIOUS
  <1> HIDE DEF after
  <1>5. RequestsAreSound'
    <2>1. CASE net' = after BY <1>1, <1>3, <1>4, <2>1 DEF RequestsAreSound
    <2>2. ASSUME session.token # NoToken, NEW i \in Slots,
                 net' = [after EXCEPT ![i] =
                           NewRequest("register", None, generation, session.token)]
          PROVE  RequestsAreSound'
      <3>1. RequestIsSound(NewRequest("register", None, generation, session.token),
                           generation, session.token)
        BY <1>0, <2>2, NewRequestSound DEF SessionIsSound
      <3>2. DOMAIN net' = Slots BY <1>4, <2>2
      <3>3. \A j \in Slots : RequestIsSound(net'[j], generation, session.token)
        <4> TAKE j \in Slots
        <4>1. CASE j = i
          <5>1. net'[j] = NewRequest("register", None, generation, session.token)
            BY <1>4, <2>2, <4>1
          <5> QED BY <3>1, <5>1
        <4>2. CASE j # i
          <5>1. net'[j] = after[j] BY <1>4, <2>2, <4>2
          <5> QED BY <1>3, <5>1
        <4> QED BY <4>1, <4>2
      <3> QED BY <1>1, <3>2, <3>3 DEF RequestsAreSound
    <2> QED BY <1>2, <2>1, <2>2
  <1>6. AccountIsSound(account', session.token) BY <1>1, NoAccountSound
  <1> QED BY <1>1, <1>5, <1>6, QuietStep

\* Every step keeps the sessions apart.
LEMMA SessionNext == SessionInv /\ [Next]_vars => SessionInv'
  <1> SUFFICES ASSUME SessionInv, [Next]_vars PROVE SessionInv'
    OBVIOUS
  <1>0. SessionIsSound /\ RequestsAreSound /\ AccountIsSound(account, session.token)
    BY DEF SessionInv
  <1>1. CASE UNCHANGED <<control, local, account>> /\ delivered' \in {delivered, Undelivered}
    <2>1. RequestsAreSound' BY <1>0, <1>1, NetUnchanged DEF control, local
    <2>2. delivered'.of = delivered'.to BY <1>1 DEF SessionInv, Undelivered
    <2> QED BY <1>0, <1>1, <2>1, <2>2 DEF SessionInv, SessionIsSound, control, local
  <1>2. CASE \E b \in background : BackgroundDone(b) \/ ServeBackground(b)
    BY <1>1, <1>2 DEF BackgroundDone, ServeBackground, Silent
  <1>3. CASE Expire \/ RemoveDevice \/ Publish \/ Age \/ EditSites
    BY <1>1, <1>3 DEF Expire, RemoveDevice, Publish, Age, EditSites, Silent
  <1>4. CASE UNCHANGED vars BY <1>1, <1>4 DEF vars, history
  <1>5. CASE User BY <1>5, UserKeeps
  <1>6. CASE \E i \in Slots : Reply(i) \/ Serve(i) \/ Drop(i) BY <1>6, ReplyKeeps, ServerKeeps
  <1>7. CASE Restart BY <1>7, RestartKeeps
  <1> QED BY <1>2, <1>3, <1>4, <1>5, <1>6, <1>7 DEF Next

\* A client that starts for the first time has no session.
LEMMA SessionInit == Init => SessionInv
  <1> SUFFICES ASSUME Init PROVE SessionInv
    OBVIOUS
  <1>1. SessionIsSound BY DEF Init, SessionIsSound, NoSession, NoToken
  <1>2. RequestsAreSound BY DEF Init, RequestsAreSound, RequestIsSound
  <1>3. AccountIsSound(account, session.token) BY NoAccountSound DEF Init
  <1> QED BY <1>1, <1>2, <1>3 DEF SessionInv, Init, Undelivered

\* What the client shows or imports was obtained with the token of its session,
\* for any number of requests of earlier sessions still in flight.
THEOREM TunnelCoreSessionIsolation == Spec => []SessionIsolation
  <1>1. SessionInv => SessionIsolation BY DEF SessionInv, AccountIsSound, SessionIsolation
  <1> QED BY <1>1, SessionInit, SessionNext, PTL DEF Spec

\* The stored session is the current one, wherever the program is interrupted.
THEOREM TunnelCoreSavedIsCurrent == Spec => []SavedIsCurrent
  <1>1. SessionInv => SavedIsCurrent BY DEF SessionInv, SessionIsSound, SavedIsCurrent
  <1> QED BY <1>1, SessionInit, SessionNext, PTL DEF Spec

-----------------------------------------------------------------------------
(* m_busy.                                                                 *)

\* Whoever sets m_busy has a request in flight.
LEMMA SendServes ==
  ASSUME SessionInv, NEW i \in Slots, NEW kind, NEW arg, NEW token, Send(i, kind, arg, token)
  PROVE  BusyIsServed'
  <1>1. /\ net' = [net EXCEPT ![i] = NewRequest(kind, arg, generation, token)]
        /\ generation' = generation /\ DOMAIN net = Slots
    BY DEF Send, NewRequest, SessionInv, RequestsAreSound
  <1>2. net'[i] = NewRequest(kind, arg, generation, token) BY <1>1
  <1>3. net'[i] # Idle
    <2>1. DOMAIN NewRequest(kind, arg, generation, token) # DOMAIN Idle
      BY DEF NewRequest, Idle
    <2> QED BY <1>2, <2>1
  <1>4. net'[i].heard /\ net'[i].gen = generation BY <1>2 DEF NewRequest
  <1> QED BY <1>1, <1>3, <1>4 DEF BusyIsServed

\* A step after which the client is idle, or that changes no request.
LEMMA IdleServes == BusyIsServed /\ (busy' = FALSE \/ UNCHANGED control) => BusyIsServed'
  BY DEF BusyIsServed, control

\* A step that changes request i and leaves a request that is listened to one.
LEMMA ChangeServes ==
  ASSUME SessionInv, BusyIsServed, UNCHANGED <<busy, generation>>,
         NEW i \in Slots, NEW b, net' = [net EXCEPT ![i] = b],
         net[i].heard /\ net[i].gen = generation =>
           b # Idle /\ b.heard /\ b.gen = generation
  PROVE  BusyIsServed'
  BY DEF BusyIsServed, SessionInv, RequestsAreSound

\* refreshRouting waits for a request or has failed.
LEMMA RefreshRoutingServes ==
  ASSUME SessionInv, BusyIsServed, NEW i \in Slots, NEW r, NEW p, RefreshRouting(i, r, p)
  PROVE  BusyIsServed'
  <1>1. \/ Send(i, "routing", r.region, session.token) \/ Send(i, "configs", None, session.token)
        \/ Fail(i)
    BY DEF RefreshRouting
  <1>2. CASE Fail(i) BY <1>2, IdleServes DEF Fail
  <1> QED BY <1>1, <1>2, SendServes

\* Every step leaves the client idle or with a request to wait for.
LEMMA BusyNext == SessionInv /\ BusyIsServed /\ [Next]_vars => BusyIsServed'
  <1> SUFFICES ASSUME SessionInv, BusyIsServed, [Next]_vars PROVE BusyIsServed'
    OBVIOUS
  <1>1. CASE busy' = FALSE \/ UNCHANGED control BY <1>1, IdleServes
  <1>2. ASSUME NEW i \in Slots, NEW kind, NEW arg, NEW token, Send(i, kind, arg, token)
        PROVE  BusyIsServed'
    BY <1>2, SendServes
  <1>3. CASE User
    <2>1. CASE CancelSignIn BY <1>1, <2>1 DEF CancelSignIn, Forget
    <2>2. CASE SelectCurrentConfig
      BY <1>1, <1>2, <2>2 DEF SelectCurrentConfig, SelectConfig, Reject
    <2>3. ASSUME NEW region, SelectRegion(region) PROVE BusyIsServed'
      <3>1. CASE Reject BY <1>1, <3>1 DEF Reject
      <3>2. ASSUME NEW i \in Slots, NEW r, RefreshRouting(i, r, pending) PROVE BusyIsServed'
        BY <3>2, RefreshRoutingServes
      <3> QED BY <2>3, <3>1, <3>2 DEF SelectRegion
    <2>4. ASSUME NEW kind, SignOut(kind) PROVE BusyIsServed'
      BY <1>1, <1>2, <2>4 DEF SignOut, Reject
    <2>5. CASE RejectInput BY <1>1, <2>5 DEF RejectInput, Reject
    <2> QED BY <1>2, <1>3, <2>1, <2>2, <2>3, <2>4, <2>5
        DEF User, SignIn, LinkTelegram, RequestAccountDeletion, Refresh, StartRefresh,
            SelectVpnCountry
  <1>4. ASSUME NEW i \in Slots, Reply(i) PROVE BusyIsServed'
    <2>1. CASE AuthDone(i) \/ RegisterDone(i) \/ LinkDone(i) \/ MeDone(i) \/ SelectionDone(i)
               \/ SelectionMissing(i) \/ RoutingLegacy(i)
      BY <1>2, <2>1 DEF AuthDone, RegisterDone, LinkDone, MeDone, SelectionDone,
         SelectionMissing, RoutingLegacy, StartRefresh
    <2>2. CASE DeleteDone(i) \/ SignedOut(i) \/ Unauthorized(i) \/ DownloadDone(i) \/ Lost(i)
      BY <1>1, <2>2 DEF DeleteDone, SignedOut, Unauthorized, DownloadDone, Lost, Forget,
         Finish, Fail
    <2>3. CASE RegionsDone(i) \/ RegionsLegacy(i) \/ SelectDone(i)
      <3>1. \E r, p : RefreshRouting(i, r, p) BY <2>3 DEF RegionsDone, RegionsLegacy, SelectDone
      <3> QED BY <3>1, RefreshRoutingServes
    <2>4. CASE RoutingDone(i)
      <3>1. Send(i, "configs", None, session.token) \/ busy' = FALSE
        BY <2>4 DEF RoutingDone, Fail
      <3> QED BY <1>1, <1>2, <3>1
    <2>5. CASE ConfigsDone(i)
      <3>1. busy' = FALSE \/ \E configs : SelectConfig(i, configs, pending)
        BY <2>5 DEF ConfigsDone, Finish, Fail
      <3> QED BY <1>1, <1>2, <3>1 DEF SelectConfig
    <2>6. CASE ConfigDone(i) BY <1>1, <1>2, <2>6 DEF ConfigDone, Finish
    <2>7. CASE Ignored(i)
      <3>1. /\ net' = [net EXCEPT ![i] = Unheard(net[i])] /\ UNCHANGED <<busy, generation>>
            /\ net[i].gen # generation
        BY <2>7 DEF Ignored, Over, Unheard
      <3> QED BY <3>1, ChangeServes
    <2> QED BY <1>4, <2>1, <2>2, <2>3, <2>4, <2>5, <2>6, <2>7 DEF Reply
  <1>5. ASSUME NEW i \in Slots, Serve(i) PROVE BusyIsServed'
    <2>1. net[i] # Idle /\ UNCHANGED <<busy, generation>> BY <1>5 DEF Serve
    <2>2. PICK a : net' = [net EXCEPT ![i] = IF @.heard
              THEN [@ EXCEPT !.answered = TRUE, !.answer = a] ELSE Idle]
      BY <1>5 DEF Serve
    <2> DEFINE b == IF net[i].heard THEN [net[i] EXCEPT !.answered = TRUE, !.answer = a] ELSE Idle
    <2>3. net' = [net EXCEPT ![i] = b] BY <2>2
    <2>4. net[i].heard => b # Idle /\ b.heard /\ b.gen = net[i].gen
      <3> SUFFICES ASSUME net[i].heard PROVE b # Idle /\ b.heard /\ b.gen = net[i].gen
        OBVIOUS
      <3>1. DOMAIN net[i] = RequestFields
        BY <2>1 DEF SessionInv, RequestsAreSound, RequestIsSound
      <3>2. b = [net[i] EXCEPT !.answered = TRUE, !.answer = a] OBVIOUS
      <3>3. DOMAIN b = RequestFields /\ b.heard = net[i].heard /\ b.gen = net[i].gen
        BY <3>1, <3>2 DEF RequestFields
      <3>4. DOMAIN Idle # RequestFields BY DEF Idle, RequestFields
      <3> QED BY <3>3, <3>4
    <2> HIDE DEF b
    <2> QED BY <2>1, <2>3, <2>4, ChangeServes
  <1>6. ASSUME NEW i \in Slots, Drop(i) PROVE BusyIsServed'
    BY <1>6, ChangeServes DEF Drop
  <1>7. CASE \E b \in background : BackgroundDone(b) \/ ServeBackground(b)
    BY <1>1, <1>7 DEF BackgroundDone, ServeBackground
  <1>8. CASE Expire \/ RemoveDevice \/ Publish \/ Age \/ EditSites
    BY <1>1, <1>8 DEF Expire, RemoveDevice, Publish, Age, EditSites
  <1>9. CASE Restart
    <2>1. CASE busy' = FALSE BY <1>1, <2>1
    <2>2. CASE busy' # FALSE
      <3> DEFINE after == [j \in Slots |-> IF net[j] = Idle \/ net[j].answered THEN Idle
                                           ELSE [net[j] EXCEPT !.heard = FALSE]]
      <3>1. PICK i \in Slots : net' = [after EXCEPT ![i] =
                                 NewRequest("register", None, generation, saved.token)]
        BY <1>9, <2>2, Zenon DEF Restart, NewRequest
      <3>2. net'[i] = NewRequest("register", None, generation, saved.token) BY <3>1
      <3>3. DOMAIN net'[i] # DOMAIN Idle BY <3>2 DEF NewRequest, Idle
      <3>4. net'[i].heard /\ net'[i].gen = generation BY <3>2 DEF NewRequest
      <3>5. generation' = generation BY <1>9 DEF Restart
      <3> QED BY <3>3, <3>4, <3>5 DEF BusyIsServed
    <2> QED BY <2>1, <2>2
  <1>10. CASE UNCHANGED vars BY <1>1, <1>10 DEF vars
  <1> QED BY <1>3, <1>4, <1>5, <1>6, <1>7, <1>8, <1>9, <1>10 DEF Next

\* A busy client waits for a request of its own session that will call back: the
\* busy indicator cannot stay on for nothing.
THEOREM TunnelCoreBusyIsServed == Spec => []BusyIsServed
  <1>1. Init => BusyIsServed BY DEF Init, BusyIsServed
  <1> QED BY <1>1, SessionInit, SessionNext, BusyNext, PTL DEF Spec

-----------------------------------------------------------------------------
(* Types.  The type invariant is inductive only with what the requests in  *)
(* flight may ask and be told: a reply is stored without another look.     *)

\* What an answer a to a request of some kind tells, if it tells anything.
AnswerIsApt(kind, a) ==
  a.code = "ok" =>
    /\ kind \in {"selection", "select"} => a.mode \in {"auto"} \cup Locations
    /\ kind = "regions" => a.list \subseteq Regions
    /\ kind = "configs" => a.list \subseteq Locations /\ a.mode \in {"listed", "text", "url"}

\* A request asks for something there is, and is answered as what it asked.
Apt(r) ==
  /\ r.kind = "auth" => r.gen < MaxGeneration
  /\ r.kind = "routing" => r.arg \in Regions \cup {None}
  /\ r.kind = "select" => r.arg \in {"auto"} \cup Locations
  /\ r.answered => AnswerIsApt(r.kind, r.answer)

RequestsAreApt == \A i \in Slots : net[i] # Idle => Apt(net[i])

TypeInv == TypeOK /\ RequestsAreApt

\* The server answers every request as what it asked.
LEMMA AnswersApt ==
  ASSUME TypeOK, NEW r \in Request, Apt(r), NEW a \in Answers(r)
  PROVE  a \in Answered /\ AnswerIsApt(r.kind, a)
  <1> DEFINE known == r.token \in server.slots
             flags == {"linked" : t \in server.linked \cap {r.token}}
                      \cup {"deleting" : t \in server.deleting \cap {r.token}}
  <1>0. server.revision \in Revision /\ 0 \in Revision BY BoundsAssumption DEF TypeOK, Revision
  <1>1. \A code \in {None, "ok", "gone", "missing", "legacy"} :
          /\ Answer(code) \in Answered /\ Answer(code).code = code
    BY <1>0 DEF Answer, Answered, None
  <1>2. ASSUME NEW code \in {"gone", "missing", "legacy"}, a = Answer(code)
        PROVE  a \in Answered /\ AnswerIsApt(r.kind, a)
    BY <1>1, <1>2 DEF AnswerIsApt
  <1>3. ASSUME a \in Legacy PROVE a = Answer("legacy") BY <1>3 DEF Legacy
  <1>4. CASE r.kind \notin {"auth", "download"} /\ r.token \notin server.valid
    BY <1>2, <1>4 DEF Answers
  <1>5. CASE ~(r.kind \notin {"auth", "download"} /\ r.token \notin server.valid)
    <2>1. CASE r.kind = "revoke"
      <3>1. a = Answer("ok") \/ a = Answer("missing") BY <1>5, <2>1 DEF Answers
      <3> QED BY <1>1, <1>2, <2>1, <3>1 DEF AnswerIsApt
    <2>2. CASE r.kind = "me"
      <3>1. a \in Told({flags}, {None}, {None}, {0}) BY <1>5, <2>2 DEF Answers
      <3>2. flags \subseteq {"linked", "deleting"} OBVIOUS
      <3> QED BY <1>0, <2>2, <3>1, <3>2 DEF Told, Answered, AnswerIsApt
    <2>3. CASE r.kind = "selection"
      <3>1. \/ a = Answer("missing") \/ a \in Legacy
            \/ a \in Told({{}}, {"auto"} \cup Locations, Locations \cup {None}, {0})
        BY <1>5, <2>3 DEF Answers
      <3>2. CASE a \in Told({{}}, {"auto"} \cup Locations, Locations \cup {None}, {0})
        BY <1>0, <2>3, <3>2 DEF Told, Answered, AnswerIsApt
      <3> QED BY <1>2, <1>3, <3>1, <3>2
    <2>4. CASE r.kind = "select"
      <3>1. a \in Told({{}}, {r.arg}, IF r.arg = "auto" THEN Locations ELSE {r.arg}, {0})
        BY <1>5, <2>4 DEF Answers
      <3>2. r.arg \in {"auto"} \cup Locations BY <2>4 DEF Apt
      <3> QED BY <1>0, <2>4, <3>1, <3>2 DEF Told, Answered, AnswerIsApt
    <2>5. CASE r.kind = "regions"
      <3>1. a \in Legacy \/ a \in Told(SUBSET Regions, {None}, {None}, {0})
        BY <1>5, <2>5 DEF Answers
      <3>2. CASE a \in Told(SUBSET Regions, {None}, {None}, {0})
        BY <1>0, <2>5, <3>2 DEF Told, Answered, AnswerIsApt
      <3> QED BY <1>2, <1>3, <3>1, <3>2
    <2>6. CASE r.kind = "routing"
      <3>1. a \in Legacy \/ a \in Told({{}}, {None}, {None}, {server.revision})
        BY <1>5, <2>6 DEF Answers
      <3>2. CASE a \in Told({{}}, {None}, {None}, {server.revision})
        BY <1>0, <2>6, <3>2 DEF Told, Answered, AnswerIsApt
      <3> QED BY <1>2, <1>3, <3>1, <3>2
    <2>7. CASE r.kind = "configs"
      <3>1. a \in Told(SUBSET Locations, Forms, {None}, {0}) BY <1>5, <2>7 DEF Answers
      <3>2. Forms \subseteq {"listed", "text", "url"} BY BoundsAssumption
      <3> QED BY <1>0, <2>7, <3>1, <3>2 DEF Told, Answered, AnswerIsApt
    <2>8. CASE r.kind = "config"
      <3>1. a \in Told({{}}, {"text", "url"}, {None}, {0}) BY <1>5, <2>8 DEF Answers
      <3> QED BY <1>0, <2>8, <3>1 DEF Told, Answered, AnswerIsApt
    <2>9. CASE r.kind \notin {"revoke", "me", "selection", "select", "regions", "routing",
                              "configs", "config"}
      <3>1. a = Answer("ok") BY <1>5, <2>9 DEF Answers
      <3> QED BY <1>1, <2>9, <3>1 DEF AnswerIsApt
    <2> QED BY <2>1, <2>2, <2>3, <2>4, <2>5, <2>6, <2>7, <2>8, <2>9
  <1> QED BY <1>4, <1>5

\* The server's lists hold tokens it has issued.
ServerType == [valid: SUBSET Tokens, slots: SUBSET Tokens, linked: SUBSET Tokens,
               deleting: SUBSET Tokens, revision: Revision]

LEMMA EffectTyped ==
  ASSUME TypeOK, NEW r \in Request, Apt(r), NEW a \in Answers(r)
  PROVE  Effect(r, a) \in ServerType
  <1>0. server \in ServerType BY DEF TypeOK, ServerType
  <1>1. CASE a.code # "ok" BY <1>0, <1>1 DEF Effect
  <1>2. CASE a.code = "ok" /\ r.kind = "auth"
    <2>1. r.gen + 1 \in Tokens BY <1>2, BoundsAssumption DEF Apt, Request, Tokens
    <2>2. Effect(r, a) = [server EXCEPT !.valid = @ \cup {r.gen + 1}] BY <1>2 DEF Effect
    <2> QED BY <1>0, <2>1, <2>2 DEF ServerType
  <1>3. CASE a.code = "ok" /\ r.kind \in {"register", "link", "delete"}
    <2>1. r.token \in Tokens
      <3>1. CASE r.token \notin server.valid
        <4>1. a = Answer("gone") BY <1>3, <3>1 DEF Answers
        <4>2. a.code = "gone" BY <4>1 DEF Answer
        <4> QED BY <1>3, <4>2
      <3> QED BY <1>0, <3>1 DEF ServerType
    <2>2. Effect(r, a) \in {[server EXCEPT !.slots = @ \cup {r.token}],
                            [server EXCEPT !.linked = @ \cup {r.token}],
                            [server EXCEPT !.deleting = @ \cup {r.token}]}
      BY <1>3 DEF Effect
    <2> QED BY <1>0, <2>1, <2>2 DEF ServerType
  <1>4. CASE a.code = "ok" /\ r.kind \in {"revoke", "revokeAll"}
    <2>1. Effect(r, a) \in {[server EXCEPT !.slots = @ \ {r.token}],
                            [server EXCEPT !.slots = @ \ {r.token}, !.valid = @ \ {r.token}]}
      BY <1>4 DEF Effect
    <2> QED BY <1>0, <2>1 DEF ServerType
  <1>5. CASE a.code = "ok" /\ r.kind \notin {"auth", "register", "link", "delete", "revoke",
                                             "revokeAll"}
    BY <1>0, <1>5 DEF Effect
  <1> QED BY <1>1, <1>2, <1>3, <1>4, <1>5

\* The parts of the type invariant, by what changes together.
LocalOK == session \in Session /\ saved \in Session /\ deviceId \in BOOLEAN
AccountOK == account \in Account
ControlOK ==
  /\ busy \in BOOLEAN /\ pending \in Locations \cup {None}
  /\ generation \in 0 .. MaxGeneration /\ reply \in 0 .. MaxInFlight
  /\ net \in [Slots -> Request \cup {Idle}] /\ RequestsAreApt
Refreshes == [key: Keys, gen: 0 .. MaxGeneration, token: Tokens \cup {NoToken},
              revision: Revision]
RulesOK == routing \in Routing /\ refreshing \subseteq Keys /\ background \subseteq Refreshes
ServerOK == server \in ServerType

LEMMA TypeParts == TypeInv <=> LocalOK /\ AccountOK /\ ControlOK /\ RulesOK /\ ServerOK
  BY DEF TypeInv, TypeOK, LocalOK, AccountOK, ControlOK, RulesOK, ServerOK, ServerType, Refreshes

LEMMA TypeNext == LocalOK' /\ AccountOK' /\ ControlOK' /\ RulesOK' /\ ServerOK' => TypeInv'
  BY DEF TypeInv, TypeOK, LocalOK, AccountOK, ControlOK, RulesOK, ServerOK, ServerType, Refreshes

\* A part of the state that a step leaves alone.
LEMMA PartsUnchanged ==
  ASSUME TypeInv
  PROVE  /\ UNCHANGED local => LocalOK'
         /\ UNCHANGED account => AccountOK'
         /\ UNCHANGED control => ControlOK'
         /\ UNCHANGED rules => RulesOK'
         /\ UNCHANGED server => ServerOK'
  <1>1. LocalOK /\ AccountOK /\ ControlOK /\ RulesOK /\ ServerOK BY TypeParts
  <1>2. UNCHANGED control => ControlOK' BY <1>1 DEF ControlOK, RequestsAreApt, control
  <1> QED BY <1>1, <1>2 DEF LocalOK, AccountOK, RulesOK, ServerOK, local, rules

\* What a request may be about.
Args == {None, "auto"} \cup Locations \cup Regions \cup Accounts

LEMMA SendControl ==
  ASSUME TypeInv, NEW i \in Slots, NEW kind \in Kinds, NEW arg \in Args,
         NEW token \in Tokens \cup {NoToken}, Send(i, kind, arg, token),
         pending' \in Locations \cup {None},
         kind = "auth" => generation < MaxGeneration,
         kind = "routing" => arg \in Regions \cup {None},
         kind = "select" => arg \in {"auto"} \cup Locations
  PROVE  ControlOK'
  <1> DEFINE new == NewRequest(kind, arg, generation, token)
  <1>0. ControlOK BY TypeParts
  <1>1. net' = [net EXCEPT ![i] = new] /\ busy' = TRUE /\ reply' = i /\ generation' = generation
    BY DEF Send, NewRequest
  <1>2. Answer(None) \in Answered
    BY BoundsAssumption DEF Answer, Answered, Revision, None
  <1>3. new \in Request BY <1>0, <1>2 DEF NewRequest, Request, ControlOK, Args
  <1>4. Apt(new) BY DEF Apt, NewRequest
  <1> HIDE DEF new
  <1>5. net' \in [Slots -> Request \cup {Idle}] BY <1>0, <1>1, <1>3 DEF ControlOK
  <1>6. RequestsAreApt'
    <2>1. \A j \in Slots : net'[j] = net[j] \/ net'[j] = new BY <1>0, <1>1 DEF ControlOK
    <2> QED BY <1>0, <1>4, <2>1 DEF ControlOK, RequestsAreApt
  <1>7. reply' \in 0 .. MaxInFlight BY <1>1, BoundsAssumption DEF Slots
  <1> QED BY <1>0, <1>1, <1>5, <1>6, <1>7 DEF ControlOK

\* A request that is over is still what it was.
LEMMA UnheardTyped ==
  ASSUME NEW r \in Request \cup {Idle}, r # Idle => Apt(r)
  PROVE  Unheard(r) \in Request \cup {Idle} /\ (Unheard(r) # Idle => Apt(Unheard(r)))
  <1>1. CASE r = Idle \/ r.answered BY <1>1 DEF Unheard
  <1>2. CASE r # Idle /\ ~r.answered
    <2>1. Unheard(r) = [r EXCEPT !.heard = FALSE] /\ r \in Request BY <1>2 DEF Unheard
    <2>2. Unheard(r) \in Request BY <2>1 DEF Request
    <2>3. /\ Unheard(r).kind = r.kind /\ Unheard(r).gen = r.gen /\ Unheard(r).arg = r.arg
          /\ Unheard(r).answered = r.answered
      BY <2>1 DEF Request
    <2> QED BY <1>2, <2>2, <2>3 DEF Apt
  <1> QED BY <1>1, <1>2

LEMMA OverControl ==
  ASSUME TypeInv, NEW i \in Slots, net' = Over(i) \/ net' = net,
         busy' \in BOOLEAN, pending' \in Locations \cup {None}, reply' \in {0, reply},
         generation' \in 0 .. MaxGeneration
  PROVE  ControlOK'
  <1>0. ControlOK BY TypeParts
  <1>1. net' = [net EXCEPT ![i] = Unheard(net[i])] \/ net' = net BY DEF Over, Unheard
  <1>2. Unheard(net[i]) \in Request \cup {Idle} /\ (Unheard(net[i]) # Idle => Apt(Unheard(net[i])))
    BY <1>0, UnheardTyped DEF ControlOK, RequestsAreApt
  <1>3. net' \in [Slots -> Request \cup {Idle}] BY <1>0, <1>1, <1>2 DEF ControlOK
  <1>4. RequestsAreApt'
    <2>1. \A j \in Slots : net'[j] = net[j] \/ net'[j] = Unheard(net[i])
      BY <1>0, <1>1 DEF ControlOK
    <2> QED BY <1>0, <1>2, <2>1 DEF ControlOK, RequestsAreApt
  <1>5. reply' \in 0 .. MaxInFlight BY <1>0, BoundsAssumption DEF ControlOK
  <1> QED BY <1>0, <1>3, <1>4, <1>5 DEF ControlOK

LEMMA FailControl ==
  ASSUME TypeInv, NEW i \in Slots, Fail(i) PROVE ControlOK'
  <1>0. ControlOK BY TypeParts
  <1>1. /\ net' = Over(i) /\ busy' = FALSE /\ pending' = None /\ reply' \in {0, reply}
        /\ generation' = generation
    BY DEF Fail
  <1> QED BY <1>0, <1>1, OverControl DEF ControlOK

LEMMA RejectControl == ASSUME TypeInv, Reject PROVE ControlOK'
  <1>0. ControlOK BY TypeParts
  <1> QED BY <1>0 DEF ControlOK, Reject, RequestsAreApt

LEMMA FinishControl ==
  ASSUME TypeInv, NEW i \in Slots, Finish(i), pending' \in Locations \cup {None} PROVE ControlOK'
  <1>0. ControlOK BY TypeParts
  <1> QED BY <1>0, OverControl DEF ControlOK, Finish

\* The cache and the rules in force.
LEMMA KeyTyped == ASSUME NEW region \in Regions \cup {None} PROVE Key(region) \in Keys
  BY DEF Key, Keys

LEMMA ApplyTyped ==
  ASSUME NEW r \in Routing, NEW key \in Keys, NEW revision \in Revision
  PROVE  ApplyRouting(r, key, revision) \in Routing
  <1>1. /\ <<key, revision>> \in (Keys \cup {None}) \X Revision
        /\ <<key, revision>> \in (Keys \cup {None, Edited}) \X Revision
    OBVIOUS
  <1> QED BY <1>1 DEF ApplyRouting, Routing

LEMMA StoreTyped ==
  ASSUME NEW r \in Routing, NEW key \in Keys, NEW revision \in Revision
  PROVE  Store(r, key, revision) \in Routing
  <1>1. [r.cache EXCEPT ![key] = revision] \in [Keys -> Revision] BY DEF Routing
  <1>2. r.stale \ {key} \in SUBSET Keys BY DEF Routing
  <1>3. Store(r, key, revision) = [r EXCEPT !.cache = [r.cache EXCEPT ![key] = revision],
                                            !.stale = r.stale \ {key}]
    BY DEF Store
  <1> QED BY <1>1, <1>2, <1>3 DEF Routing

\* clearSession and a restart remember no rules as applied.
LEMMA NoRules == 0 \in Revision /\ <<None, 0>> \in (Keys \cup {None}) \X Revision
  BY BoundsAssumption DEF Revision

LEMMA RefreshInBackgroundTyped ==
  ASSUME TypeInv, NEW key \in Keys, RefreshInBackground(key)
  PROVE  refreshing' \subseteq Keys /\ background' \subseteq Refreshes
  <1>0. RulesOK /\ LocalOK /\ ControlOK BY TypeParts
  <1>1. [key |-> key, gen |-> generation, token |-> session.token, revision |-> 0] \in Refreshes
    BY <1>0, NoRules DEF Refreshes, LocalOK, ControlOK, Session
  <1> QED BY <1>0, <1>1 DEF RefreshInBackground, RulesOK

LEMMA RefreshRoutingTyped ==
  ASSUME TypeInv, NEW i \in Slots, NEW r \in Routing, NEW p \in Locations \cup {None},
         RefreshRouting(i, r, p)
  PROVE  ControlOK' /\ RulesOK'
  <1> DEFINE key == Key(r.region)
             revision == r.cache[key]
  <1>0. RulesOK /\ LocalOK BY TypeParts
  <1>1. r.region \in Regions \cup {None} BY DEF Routing
  <1>2. key \in Keys BY <1>1, KeyTyped
  <1>3. revision \in Revision BY <1>2 DEF Routing
  <1>4. session.token \in Tokens \cup {NoToken} BY <1>0 DEF LocalOK, Session
  <1>5. ControlOK'
    <2>1. CASE Fail(i) BY <2>1, FailControl
    <2>2. CASE Send(i, "routing", r.region, session.token) /\ pending' = p
      BY <1>1, <1>4, <2>2, SendControl DEF Kinds, Args
    <2>3. CASE Send(i, "configs", None, session.token) /\ pending' = p
      BY <1>4, <2>3, SendControl DEF Kinds, Args
    <2> QED BY <2>1, <2>2, <2>3 DEF RefreshRouting
  <1>6. routing' \in Routing
    <2>1. routing' = r \/ routing' = ApplyRouting(r, key, revision) BY DEF RefreshRouting
    <2> HIDE DEF key, revision
    <2> QED BY <1>2, <1>3, <2>1, ApplyTyped
  <1>7. refreshing' \subseteq Keys /\ background' \subseteq Refreshes
    <2>1. RefreshInBackground(key) \/ UNCHANGED <<refreshing, background>> BY DEF RefreshRouting
    <2> HIDE DEF key
    <2> QED BY <1>0, <1>2, <2>1, RefreshInBackgroundTyped DEF RulesOK
  <1> QED BY <1>5, <1>6, <1>7 DEF RulesOK

\* clearSession, while another session may still begin.
LEMMA ForgetTyped ==
  ASSUME TypeInv, Forget, generation < MaxGeneration, UNCHANGED <<refreshing, background>>,
         NEW i \in Slots, net' = Over(i) \/ net' = net
  PROVE  LocalOK' /\ AccountOK' /\ ControlOK' /\ RulesOK'
  <1>0. LocalOK /\ ControlOK /\ RulesOK BY TypeParts
  <1>1. NoSession \in Session BY DEF NoSession, Session
  <1>2. NoAccount \in Account
    BY DEF NoAccount, Account, NoConfigs, NoSelection
  <1>3. generation + 1 \in 0 .. MaxGeneration BY <1>0, BoundsAssumption DEF ControlOK
  <1>4. ControlOK' BY <1>3, OverControl DEF Forget
  <1>5. routing' \in Routing BY <1>0, NoRules DEF Forget, RulesOK, Routing
  <1> QED BY <1>0, <1>1, <1>2, <1>4, <1>5 DEF Forget, LocalOK, AccountOK, RulesOK

\* What the changes of an account keep.
LEMMA AccountTyped ==
  ASSUME NEW a \in Account
  PROVE  /\ [a EXCEPT !.configs = NoConfigs] \in Account
         /\ \A d \in BOOLEAN : [a EXCEPT !.deletion = d] \in Account
  BY DEF Account, NoConfigs

\* What a request that is read may hold.
LEMMA ReadTyped ==
  ASSUME TypeInv, NEW i \in Slots, NEW kind, NEW code, Read(i, kind, code)
  PROVE  net[i] \in Request /\ Apt(net[i]) /\ AnswerIsApt(kind, net[i].answer)
  <1>0. ControlOK BY TypeParts
  <1>1. net[i] \in Request /\ Apt(net[i]) BY <1>0 DEF ControlOK, RequestsAreApt, Read
  <1> QED BY <1>1 DEF Read, Apt

\* The operations of the user.
LEMMA UserTyped == TypeInv /\ User => TypeInv'
  <1> SUFFICES ASSUME TypeInv, User PROVE TypeInv'
    OBVIOUS
  <1>0. LocalOK /\ AccountOK /\ ControlOK /\ RulesOK /\ ServerOK BY TypeParts
  <1>1. /\ session.token \in Tokens \cup {NoToken} /\ pending \in Locations \cup {None}
        /\ NoToken \in Tokens \cup {NoToken}
    BY <1>0 DEF LocalOK, Session, ControlOK
  <1>2. CASE ControlOK' /\ UNCHANGED <<local, account, rules, server>>
    BY <1>2, PartsUnchanged, TypeNext
  <1>3. CASE Reject /\ UNCHANGED <<local, account, rules, server>> BY <1>2, <1>3, RejectControl
  <1>4. CASE \E way \in Accounts : SignIn(way)
    <2>1. PICK way \in Accounts, i \in Slots : SignIn(way) /\ Send(i, "auth", way, NoToken)
      BY <1>4 DEF SignIn
    <2>2. ControlOK' BY <1>1, <2>1, SendControl DEF SignIn, Kinds, Args
    <2> QED BY <1>2, <2>1, <2>2 DEF SignIn
  <1>5. CASE RejectInput BY <1>3, <1>5 DEF RejectInput
  <1>6. CASE LinkTelegram \/ RequestAccountDeletion
    <2>1. PICK i \in Slots, kind \in {"link", "delete"} : Send(i, kind, None, session.token)
      BY <1>6 DEF LinkTelegram, RequestAccountDeletion
    <2>2. UNCHANGED <<pending, local, account, rules, server>>
      BY <1>6 DEF LinkTelegram, RequestAccountDeletion
    <2>3. ControlOK' BY <1>1, <2>1, <2>2, SendControl DEF Kinds, Args
    <2> QED BY <1>2, <2>2, <2>3
  <1>7. CASE Refresh
    <2>1. PICK i \in Slots : StartRefresh(i, account) BY <1>7 DEF Refresh
    <2>2. ControlOK' BY <1>1, <2>1, SendControl DEF StartRefresh, Kinds, Args
    <2>3. AccountOK' BY <1>0, <2>1, AccountTyped DEF StartRefresh, AccountOK
    <2> QED BY <1>7, <2>2, <2>3, PartsUnchanged, TypeNext DEF Refresh
  <1>8. CASE CancelSignIn
    <2>1. /\ Forget /\ generation < MaxGeneration /\ UNCHANGED <<refreshing, background, server>>
          /\ net' = net \/ (reply # 0 /\ net' = Over(reply))
      BY <1>8 DEF CancelSignIn
    <2>2. \E i \in Slots : net' = net \/ net' = Over(i)
      <3>1. reply \in Slots \/ reply = 0 BY <1>0 DEF ControlOK, Slots
      <3>2. 1 \in Slots BY BoundsAssumption DEF Slots
      <3> QED BY <2>1, <3>1, <3>2
    <2> QED BY <2>1, <2>2, ForgetTyped, PartsUnchanged, TypeNext
  <1>9. ASSUME NEW kind \in {"revoke", "revokeAll"}, SignOut(kind) PROVE TypeInv'
    <2>1. UNCHANGED <<local, account, rules, server>> BY <1>9 DEF SignOut
    <2>2. ASSUME NEW i \in Slots, Send(i, kind, None, session.token), UNCHANGED pending
          PROVE  ControlOK'
      BY <1>1, <2>2, SendControl DEF Kinds, Args
    <2> QED BY <1>2, <1>3, <1>9, <2>1, <2>2 DEF SignOut
  <1>10. ASSUME NEW mode \in {"auto"} \cup Locations, SelectVpnCountry(mode) PROVE TypeInv'
    <2>1. PICK i \in Slots : Send(i, "select", mode, session.token)
      BY <1>10 DEF SelectVpnCountry
    <2>2. /\ UNCHANGED <<pending, session, saved, account, rules, server>> /\ deviceId' = TRUE
      BY <1>10 DEF SelectVpnCountry
    <2>3. ControlOK' BY <1>1, <2>1, <2>2, SendControl DEF Kinds, Args
    <2>4. LocalOK' BY <1>0, <2>2 DEF LocalOK
    <2> QED BY <2>2, <2>3, <2>4, PartsUnchanged, TypeNext
  <1>11. CASE SelectCurrentConfig
    <2>1. UNCHANGED <<local, account, rules, server>> BY <1>11 DEF SelectCurrentConfig
    <2>2. CASE Reject BY <1>3, <2>1, <2>2
    <2>3. ASSUME NEW c \in Current, NEW i \in Slots, SelectConfig(i, account.configs, c),
                 pending' = pending
          PROVE  TypeInv'
      <3>1. c \in Args BY <1>0 DEF Current, AccountOK, Account, Args
      <3>2. PICK kind \in {"config", "download"} : Send(i, kind, c, session.token)
        BY <2>3 DEF SelectConfig
      <3>3. ControlOK' BY <1>1, <2>3, <3>1, <3>2, SendControl DEF Kinds
      <3> QED BY <1>2, <2>1, <3>3
    <2>4. CASE UNCHANGED control BY <2>1, <2>4, PartsUnchanged, TypeNext
    <2> QED BY <1>11, <2>2, <2>3, <2>4 DEF SelectCurrentConfig
  <1>12. ASSUME NEW region \in Regions \cup {None}, SelectRegion(region) PROVE TypeInv'
    <2>1. UNCHANGED <<local, account, server>> BY <1>12 DEF SelectRegion
    <2>2. CASE Reject /\ UNCHANGED rules BY <1>3, <2>1, <2>2
    <2>3. ASSUME NEW i \in Slots,
                 RefreshRouting(i, [routing EXCEPT !.region = region, !.savedRegion = region],
                                pending)
          PROVE  TypeInv'
      <3>1. [routing EXCEPT !.region = region, !.savedRegion = region] \in Routing
        BY <1>0 DEF RulesOK, Routing
      <3>2. ControlOK' /\ RulesOK' BY <1>1, <2>3, <3>1, RefreshRoutingTyped
      <3> QED BY <2>1, <3>2, PartsUnchanged, TypeNext
    <2> QED BY <1>12, <2>2, <2>3 DEF SelectRegion
  <1> QED BY <1>4, <1>5, <1>6, <1>7, <1>8, <1>9, <1>10, <1>11, <1>12 DEF User

\* The replies.  A session that ends leaves a generation for the next.
LEMMA ReplyTyped == ASSUME SessionInv, TypeInv, NEW i \in Slots, Reply(i) PROVE TypeInv'
  <1>0. LocalOK /\ AccountOK /\ ControlOK /\ RulesOK /\ ServerOK BY TypeParts
  <1>1. session.token \in Tokens \cup {NoToken} /\ pending \in Locations \cup {None}
    BY <1>0 DEF LocalOK, Session, ControlOK
  <1>2. ASSUME NEW kind \in Kinds \ {"auth", "routing", "select"}, NEW arg \in Args,
               Send(i, kind, arg, session.token), pending' \in Locations \cup {None}
        PROVE  ControlOK'
    BY <1>1, <1>2, SendControl
  <1>3. None \in Args /\ {"register", "me", "selection", "regions", "configs", "config",
                          "download"} \subseteq Kinds \ {"auth", "routing", "select"}
    BY DEF Args, Kinds
  <1>4. CASE AuthDone(i)
    <2>1. Read(i, "auth", "ok") BY <1>4 DEF AuthDone
    <2>2. net[i].gen + 1 \in Tokens
      BY <2>1, ReadTyped, BoundsAssumption DEF Apt, Request, Tokens, Read
    <2>3. session' \in Session /\ saved' \in Session /\ deviceId' = TRUE
      BY <1>4, <2>2 DEF AuthDone, Session
    <2>4. ControlOK'
      BY <1>1, <1>3, <1>4, <2>2, SendControl DEF AuthDone
    <2> QED BY <1>4, <2>3, <2>4, PartsUnchanged, TypeNext DEF AuthDone, LocalOK
  <1>5. CASE RegisterDone(i)
    <2>1. StartRefresh(i, account) BY <1>5 DEF RegisterDone
    <2>2. ControlOK' BY <1>1, <1>2, <1>3, <2>1 DEF StartRefresh
    <2>3. AccountOK' BY <1>0, <2>1, AccountTyped DEF StartRefresh, AccountOK
    <2> QED BY <1>5, <2>2, <2>3, PartsUnchanged, TypeNext DEF RegisterDone
  <1>6. CASE LinkDone(i)
    <2>1. StartRefresh(i, account) BY <1>6 DEF LinkDone
    <2>2. ControlOK' BY <1>1, <1>2, <1>3, <2>1 DEF StartRefresh
    <2>3. AccountOK' BY <1>0, <2>1, AccountTyped DEF StartRefresh, AccountOK
    <2>4. LocalOK' BY <1>0, <1>6 DEF LinkDone, LocalOK, Session
    <2> QED BY <1>6, <2>2, <2>3, <2>4, PartsUnchanged, TypeNext DEF LinkDone
  <1>7. CASE DeleteDone(i)
    <2>1. ControlOK' BY <1>1, <1>7, FinishControl DEF DeleteDone
    <2>2. AccountOK' BY <1>0, <1>7, AccountTyped DEF DeleteDone, AccountOK
    <2> QED BY <1>7, <2>1, <2>2, PartsUnchanged, TypeNext DEF DeleteDone
  <1>8. CASE SignedOut(i) \/ Unauthorized(i)
    <2>1. /\ Forget /\ net' = Over(i) /\ UNCHANGED <<refreshing, background, server>>
          /\ net[i] # Idle /\ net[i].heard /\ net[i].gen = generation
      BY <1>8 DEF SignedOut, Unauthorized, Read
    <2>2. generation < MaxGeneration
      <3>1. CASE net[i].kind = "auth"
        BY <1>0, <2>1, <3>1 DEF ControlOK, RequestsAreApt, Apt
      <3>2. CASE net[i].kind # "auth"
        <4>1. session.token # NoToken
          BY <2>1, <3>2 DEF SessionInv, RequestsAreSound, RequestIsSound
        <4>2. session.token = generation + 1 BY <4>1 DEF SessionInv, SessionIsSound
        <4> QED BY <1>0, <1>1, <4>1, <4>2, BoundsAssumption DEF Tokens, ControlOK
      <3> QED BY <3>1, <3>2
    <2> QED BY <2>1, <2>2, ForgetTyped, PartsUnchanged, TypeNext
  <1>9. CASE MeDone(i)
    <2>1. ControlOK' BY <1>1, <1>2, <1>3, <1>9 DEF MeDone
    <2>2. AccountOK'
      <3>1. ("deleting" \in net[i].answer.list) \in BOOLEAN OBVIOUS
      <3> QED BY <1>0, <1>9, <3>1, AccountTyped DEF MeDone, AccountOK
    <2>3. LocalOK'
      <3>1. ("linked" \in net[i].answer.list) \in BOOLEAN OBVIOUS
      <3>2. \A l \in BOOLEAN : [session EXCEPT !.linked = l] \in Session
        BY <1>0 DEF LocalOK, Session
      <3>3. session' \in Session BY <1>9, <3>1, <3>2 DEF MeDone
      <3> QED BY <1>0, <1>9, <3>3 DEF MeDone, LocalOK
    <2> QED BY <1>9, <2>1, <2>2, <2>3, PartsUnchanged, TypeNext DEF MeDone
  <1>10. CASE SelectionDone(i)
    <2>1. ControlOK' BY <1>1, <1>2, <1>3, <1>10 DEF SelectionDone
    <2>2. AccountOK'
      <3>1. CASE account' = [account EXCEPT !.selection = NoSelection]
        BY <1>0, <3>1 DEF AccountOK, Account, NoSelection
      <3>2. CASE Read(i, "selection", "ok")
                 /\ account' = [account EXCEPT !.selection = Selection(net[i])]
        <4>1. net[i] \in Request /\ AnswerIsApt("selection", net[i].answer)
              /\ net[i].answer.code = "ok"
          BY <3>2, ReadTyped DEF Read
        <4>2. Selection(net[i]) \in [of: Tokens \cup {NoToken}, mode: {"auto"} \cup Locations,
                                     config: Locations \cup {None}]
          BY <4>1 DEF Selection, AnswerIsApt, Request, Answered
        <4> QED BY <1>0, <3>2, <4>2 DEF AccountOK, Account
      <3> QED BY <1>10, <3>1, <3>2 DEF SelectionDone
    <2> QED BY <1>10, <2>1, <2>2, PartsUnchanged, TypeNext DEF SelectionDone
  <1>11. CASE SelectionMissing(i)
    <2>1. ControlOK' BY <1>1, <1>2, <1>3, <1>11 DEF SelectionMissing
    <2>2. LocalOK' BY <1>0, <1>11 DEF SelectionMissing, LocalOK
    <2> QED BY <1>11, <2>1, <2>2, PartsUnchanged, TypeNext DEF SelectionMissing
  <1>12. CASE RegionsDone(i)
    <2> DEFINE offered == net[i].answer.list
               gone == routing.region \notin offered \cup {None}
               kept(region) == IF gone THEN None ELSE region
               r == [routing EXCEPT !.offered = offered, !.region = kept(@),
                                    !.savedRegion = kept(@)]
    <2>1. Read(i, "regions", "ok") /\ RefreshRouting(i, r, pending)
      BY <1>12 DEF RegionsDone
    <2>2. offered \subseteq Regions BY <2>1, ReadTyped DEF AnswerIsApt, Read
    <2>3. r \in Routing BY <1>0, <2>2 DEF RulesOK, Routing
    <2> HIDE DEF r
    <2>4. ControlOK' /\ RulesOK' BY <1>1, <2>1, <2>3, RefreshRoutingTyped
    <2> QED BY <1>12, <2>4, PartsUnchanged, TypeNext DEF RegionsDone
  <1>13. CASE RegionsLegacy(i)
    <2>1. [routing EXCEPT !.offered = {}, !.region = None] \in Routing
      BY <1>0 DEF RulesOK, Routing
    <2>2. ControlOK' /\ RulesOK' BY <1>1, <1>13, <2>1, RefreshRoutingTyped DEF RegionsLegacy
    <2> QED BY <1>13, <2>2, PartsUnchanged, TypeNext DEF RegionsLegacy
  <1>14. CASE RoutingDone(i)
    <2> DEFINE key == Key(net[i].arg)
               revision == net[i].answer.revision
               r == Store(routing, key, revision)
    <2>1. Read(i, "routing", "ok") BY <1>14 DEF RoutingDone
    <2>2. net[i].arg \in Regions \cup {None} /\ revision \in Revision
      BY <2>1, ReadTyped DEF Apt, Request, Answered, Read
    <2>3. key \in Keys BY <2>2, KeyTyped
    <2>4. routing' = r \/ routing' = ApplyRouting(r, key, revision) BY <1>14 DEF RoutingDone
    <2>5. ControlOK'
      <3>1. CASE Fail(i) BY <3>1, FailControl
      <3>2. CASE Send(i, "configs", None, session.token) /\ UNCHANGED pending
        BY <1>1, <1>2, <1>3, <3>2
      <3> QED BY <1>14, <3>1, <3>2 DEF RoutingDone
    <2> HIDE DEF key, revision
    <2>6. r \in Routing BY <1>0, <2>2, <2>3, StoreTyped DEF RulesOK
    <2> HIDE DEF r
    <2>7. routing' \in Routing BY <2>2, <2>3, <2>4, <2>6, ApplyTyped
    <2> QED BY <1>0, <1>14, <2>5, <2>7, PartsUnchanged, TypeNext DEF RoutingDone, RulesOK
  <1>15. CASE RoutingLegacy(i)
    <2>1. ControlOK' BY <1>1, <1>2, <1>3, <1>15 DEF RoutingLegacy
    <2> QED BY <1>15, <2>1, PartsUnchanged, TypeNext DEF RoutingLegacy
  <1>16. CASE ConfigsDone(i)
    <2> DEFINE configs == [of |-> net[i].token, ids |-> net[i].answer.list,
                           form |-> net[i].answer.mode]
    <2>1. Read(i, "configs", "ok") BY <1>16 DEF ConfigsDone
    <2>2. net[i] \in Request /\ AnswerIsApt("configs", net[i].answer)
          /\ net[i].answer.code = "ok"
      BY <2>1, ReadTyped DEF Read
    <2>3. configs \in [of: Tokens \cup {NoToken}, ids: SUBSET Locations,
                       form: {"listed", "text", "url"}]
      BY <2>2 DEF AnswerIsApt, Request
    <2>4. account' = [account EXCEPT !.configs = configs] BY <1>16 DEF ConfigsDone
    <2>5. \/ pending = None /\ Finish(i) /\ UNCHANGED pending
          \/ pending' = None /\ SelectConfig(i, configs, pending)
          \/ pending' = None /\ Finish(i)
          \/ Fail(i)
      BY <1>16 DEF ConfigsDone
    <2> HIDE DEF configs
    <2>6. AccountOK' BY <1>0, <2>3, <2>4 DEF AccountOK, Account
    <2>7. ControlOK'
      <3>1. CASE Fail(i) BY <3>1, FailControl
      <3>2. CASE Finish(i) /\ pending' = None BY <3>2, FinishControl
      <3>3. CASE pending' = None /\ SelectConfig(i, configs, pending)
        <4>1. PICK kind \in {"config", "download"} : Send(i, kind, pending, session.token)
          BY <3>3 DEF SelectConfig
        <4>2. pending \in Args BY <1>1 DEF Args
        <4> QED BY <1>2, <1>3, <3>3, <4>1, <4>2
      <3> QED BY <2>5, <3>1, <3>2, <3>3
    <2> QED BY <1>16, <2>6, <2>7, PartsUnchanged, TypeNext DEF ConfigsDone
  <1>17. CASE SelectDone(i)
    <2>1. Read(i, "select", "ok") /\ RefreshRouting(i, routing, net[i].answer.config)
          /\ account' = [account EXCEPT !.selection = Selection(net[i]), !.configs = NoConfigs]
      BY <1>17 DEF SelectDone
    <2>2. net[i] \in Request /\ AnswerIsApt("select", net[i].answer) /\ net[i].answer.code = "ok"
      BY <2>1, ReadTyped DEF Read
    <2>3. Selection(net[i]) \in [of: Tokens \cup {NoToken}, mode: {"auto"} \cup Locations,
                                 config: Locations \cup {None}]
      BY <2>2 DEF Selection, AnswerIsApt, Request, Answered
    <2>4. AccountOK' BY <1>0, <2>1, <2>3 DEF AccountOK, Account, NoConfigs
    <2>5. net[i].answer.config \in Locations \cup {None} BY <2>2 DEF Request, Answered
    <2>6. ControlOK' /\ RulesOK' BY <1>0, <2>1, <2>5, RefreshRoutingTyped DEF RulesOK
    <2> QED BY <1>17, <2>4, <2>6, PartsUnchanged, TypeNext DEF SelectDone
  <1>18. CASE ConfigDone(i) \/ DownloadDone(i)
    <2>1. UNCHANGED <<pending, local, account, rules, server>>
      BY <1>18 DEF ConfigDone, DownloadDone
    <2>2. CASE Finish(i) BY <1>1, <2>1, <2>2, FinishControl, PartsUnchanged, TypeNext
    <2>3. CASE Read(i, "config", "ok") /\ Send(i, "download", net[i].arg, net[i].token)
      <3>1. net[i].arg \in Args /\ net[i].token \in Tokens \cup {NoToken}
        BY <2>3, ReadTyped DEF Request, Args
      <3>2. ControlOK' BY <1>1, <2>1, <2>3, <3>1, SendControl DEF Kinds
      <3> QED BY <2>1, <3>2, PartsUnchanged, TypeNext
    <2> QED BY <1>18, <2>2, <2>3 DEF ConfigDone, DownloadDone
  <1>19. CASE Lost(i) BY <1>19, FailControl, PartsUnchanged, TypeNext DEF Lost
  <1>20. CASE Ignored(i)
    <2>1. ControlOK' BY <1>0, <1>20, OverControl DEF Ignored, ControlOK
    <2> QED BY <1>20, <2>1, PartsUnchanged, TypeNext DEF Ignored
  <1> QED BY <1>4, <1>5, <1>6, <1>7, <1>8, <1>9, <1>10, <1>11, <1>12, <1>13, <1>14, <1>15,
             <1>16, <1>17, <1>18, <1>19, <1>20 DEF Reply

\* The server and the network.
LEMMA ServeTyped == ASSUME TypeInv, NEW i \in Slots, Serve(i) \/ Drop(i) PROVE TypeInv'
  <1>0. ControlOK BY TypeParts
  <1>1. /\ net[i] \in Request /\ Apt(net[i])
        /\ UNCHANGED <<busy, pending, generation, reply, local, account, rules>>
    BY <1>0 DEF ControlOK, RequestsAreApt, Serve, Drop
  <1>2. ASSUME NEW b \in Request \cup {Idle}, b # Idle => Apt(b), net' = [net EXCEPT ![i] = b]
        PROVE  ControlOK'
    <2>1. net' \in [Slots -> Request \cup {Idle}] BY <1>0, <1>2 DEF ControlOK
    <2>2. \A j \in Slots : net'[j] = net[j] \/ net'[j] = b BY <1>0, <1>2 DEF ControlOK
    <2>3. RequestsAreApt' BY <1>0, <1>2, <2>2 DEF ControlOK, RequestsAreApt
    <2> QED BY <1>0, <1>1, <2>1, <2>3 DEF ControlOK
  <1>3. CASE Drop(i)
    <2>1. ControlOK' BY <1>2, <1>3 DEF Drop
    <2> QED BY <1>1, <1>3, <2>1, PartsUnchanged, TypeNext DEF Drop
  <1>4. CASE Serve(i)
    <2>1. PICK a \in Answers(net[i]) :
            /\ net' = [net EXCEPT ![i] = IF @.heard THEN [@ EXCEPT !.answered = TRUE, !.answer = a]
                                         ELSE Idle]
            /\ server' = Effect(net[i], a)
      BY <1>4 DEF Serve
    <2>2. TypeOK BY DEF TypeInv
    <2>3. ServerOK' BY <1>1, <2>1, <2>2, EffectTyped DEF ServerOK
    <2>4. a \in Answered /\ AnswerIsApt(net[i].kind, a) BY <1>1, <2>2, AnswersApt
    <2> DEFINE b == [net[i] EXCEPT !.answered = TRUE, !.answer = a]
    <2>5. /\ b \in Request /\ b.kind = net[i].kind /\ b.gen = net[i].gen /\ b.arg = net[i].arg
          /\ b.answer = a
      BY <1>1, <2>4 DEF Request
    <2>6. net' = [net EXCEPT ![i] = b] \/ net' = [net EXCEPT ![i] = Idle] BY <2>1
    <2> HIDE DEF b
    <2>7. Apt(b) BY <1>1, <2>4, <2>5 DEF Apt
    <2>8. ControlOK' BY <1>2, <2>5, <2>6, <2>7
    <2> QED BY <1>1, <2>3, <2>8, PartsUnchanged, TypeNext
  <1> QED BY <1>3, <1>4

\* A restart listens to no request of before.
LEMMA RestartTyped == ASSUME SessionInv, TypeInv, Restart PROVE TypeInv'
  <1>0. LocalOK /\ ControlOK /\ RulesOK BY TypeParts
  <1>1. LocalOK' BY <1>0 DEF Restart, LocalOK
  <1>2. AccountOK'
    <2>1. NoAccount \in Account BY DEF NoAccount, Account, NoConfigs, NoSelection
    <2> QED BY <2>1 DEF Restart, AccountOK
  <1>3. RulesOK'
    <2>1. /\ routing' = [routing EXCEPT !.region = routing.savedRegion, !.offered = {},
                                        !.last = <<None, 0>>]
          /\ refreshing' = {} /\ background' = {}
      BY DEF Restart
    <2>2. routing' \in Routing BY <1>0, <2>1, NoRules DEF RulesOK, Routing
    <2> QED BY <2>1, <2>2 DEF RulesOK
  <1> DEFINE after == [j \in Slots |-> Unheard(net[j])]
  <1>4. \/ net' = after /\ busy' = FALSE /\ reply' = 0
        \/ /\ busy' = TRUE /\ reply' \in Slots
           /\ \E i \in Slots : net' = [after EXCEPT ![i] =
                NewRequest("register", None, generation, saved.token)]
    BY Zenon DEF Restart, Unheard, NewRequest
  <1>5. /\ after \in [Slots -> Request \cup {Idle}]
        /\ \A j \in Slots : after[j] # Idle => Apt(after[j])
    <2>1. \A j \in Slots : /\ Unheard(net[j]) \in Request \cup {Idle}
                           /\ Unheard(net[j]) # Idle => Apt(Unheard(net[j]))
      BY <1>0, UnheardTyped DEF ControlOK, RequestsAreApt
    <2> QED BY <2>1
  <1> HIDE DEF after
  <1> DEFINE new == NewRequest("register", None, generation, saved.token)
  <1>6. new \in Request
    <2>1. Answer(None) \in Answered BY NoRules DEF Answer, Answered, None
    <2> QED BY <1>0, <2>1 DEF NewRequest, Request, Kinds, LocalOK, ControlOK, Session
  <1>7. Apt(new) BY DEF Apt, NewRequest
  <1> HIDE DEF new
  <1>8. net' \in [Slots -> Request \cup {Idle}] /\ RequestsAreApt'
    <2>1. CASE net' = after BY <1>5, <2>1 DEF RequestsAreApt
    <2>2. ASSUME NEW i \in Slots, net' = [after EXCEPT ![i] = new]
          PROVE  net' \in [Slots -> Request \cup {Idle}] /\ RequestsAreApt'
      <3>1. \A j \in Slots : net'[j] = after[j] \/ net'[j] = new BY <1>5, <2>2
      <3> QED BY <1>5, <1>6, <1>7, <2>2, <3>1 DEF RequestsAreApt
    <2> QED BY <1>4, <2>1, <2>2 DEF new
  <1>9. ControlOK'
    <2>1. reply' \in 0 .. MaxInFlight BY <1>4, BoundsAssumption DEF Slots
    <2>2. busy' \in BOOLEAN BY <1>4
    <2> QED BY <1>0, <1>8, <2>1, <2>2 DEF Restart, ControlOK
  <1> QED BY <1>1, <1>2, <1>3, <1>9, PartsUnchanged, TypeNext DEF Restart

\* Every step keeps the types.
LEMMA TypeStep == SessionInv /\ TypeInv /\ [Next]_vars => TypeInv'
  <1> SUFFICES ASSUME SessionInv, TypeInv, [Next]_vars PROVE TypeInv'
    OBVIOUS
  <1>0. RulesOK /\ ServerOK BY TypeParts
  <1>1. CASE User BY <1>1, UserTyped
  <1>2. CASE \E i \in Slots : Reply(i) \/ Serve(i) \/ Drop(i) BY <1>2, ReplyTyped, ServeTyped
  <1>3. ASSUME NEW b \in background, BackgroundDone(b) PROVE TypeInv'
    <2>1. b.key \in Keys /\ b.revision \in Revision BY <1>0 DEF RulesOK, Refreshes
    <2>2. Store(routing, b.key, b.revision) \in Routing BY <1>0, <2>1, StoreTyped DEF RulesOK
    <2>3. RulesOK' BY <1>0, <1>3, <2>2 DEF BackgroundDone, RulesOK
    <2> QED BY <1>3, <2>3, PartsUnchanged, TypeNext DEF BackgroundDone
  <1>4. ASSUME NEW b \in background, ServeBackground(b) PROVE TypeInv'
    <2>1. [b EXCEPT !.revision = server.revision] \in Refreshes
      BY <1>0 DEF RulesOK, Refreshes, ServerOK, ServerType
    <2>2. RulesOK' BY <1>0, <1>4, <2>1 DEF ServeBackground, RulesOK
    <2> QED BY <1>4, <2>2, PartsUnchanged, TypeNext DEF ServeBackground
  <1>5. CASE Expire \/ RemoveDevice \/ Publish
    <2>1. ServerOK'
      <3>1. CASE Expire BY <1>0, <3>1 DEF Expire, ServerOK, ServerType
      <3>2. CASE RemoveDevice BY <1>0, <3>2 DEF RemoveDevice, ServerOK, ServerType
      <3>3. CASE Publish
        <4>1. server.revision + 1 \in Revision
          BY <1>0, <3>3, BoundsAssumption DEF Publish, ServerOK, ServerType, Revision
        <4> QED BY <1>0, <3>3, <4>1 DEF Publish, ServerOK, ServerType
      <3> QED BY <1>5, <3>1, <3>2, <3>3
    <2> QED BY <1>5, <2>1, PartsUnchanged, TypeNext DEF Expire, RemoveDevice, Publish
  <1>6. CASE Age
    <2>1. RulesOK' BY <1>0, <1>6 DEF Age, RulesOK, Routing
    <2> QED BY <1>6, <2>1, PartsUnchanged, TypeNext DEF Age
  <1>9. CASE EditSites
    <2>1. 0 \in Revision BY NoRules
    <2>2. RulesOK' BY <1>0, <1>9, <2>1 DEF EditSites, RulesOK, Routing
    <2> QED BY <1>9, <2>2, PartsUnchanged, TypeNext DEF EditSites
  <1>7. CASE Restart BY <1>7, RestartTyped
  <1>8. CASE UNCHANGED vars BY <1>8, PartsUnchanged, TypeNext DEF vars
  <1> QED BY <1>1, <1>2, <1>3, <1>4, <1>5, <1>6, <1>7, <1>8, <1>9 DEF Next

\* A client that starts for the first time.
LEMMA TypeInit == Init => TypeInv
  <1> SUFFICES ASSUME Init PROVE TypeInv
    OBVIOUS
  <1>1. NoSession \in Session BY DEF NoSession, Session
  <1>2. NoAccount \in Account BY DEF NoAccount, Account, NoConfigs, NoSelection
  <1>3. ControlOK
    <2>1. net \in [Slots -> Request \cup {Idle}] /\ \A i \in Slots : net[i] = Idle BY DEF Init
    <2>2. RequestsAreApt BY <2>1 DEF RequestsAreApt
    <2>3. 0 \in 0 .. MaxGeneration /\ 0 \in 0 .. MaxInFlight BY BoundsAssumption
    <2> QED BY <2>1, <2>2, <2>3 DEF Init, ControlOK
  <1>4. RulesOK
    <2>1. [k \in Keys |-> 0] \in [Keys -> Revision] BY NoRules
    <2> QED BY <2>1, NoRules DEF Init, RulesOK, Routing
  <1>5. ServerOK BY BoundsAssumption DEF Init, ServerOK, ServerType, Revision
  <1> QED BY <1>1, <1>2, <1>3, <1>4, <1>5, TypeParts DEF Init, LocalOK, AccountOK

\* Every variable keeps its type, for any set of locations, regions and events
\* and any bounds: no reply is read as anything but what its request asked for,
\* and no session begins beyond the last generation.
THEOREM TunnelCoreTypeOK == Spec => []TypeOK
  <1>1. TypeInv => TypeOK BY DEF TypeInv
  <1> QED BY <1>1, SessionInit, SessionNext, TypeInit, TypeStep, PTL DEF Spec
=============================================================================
