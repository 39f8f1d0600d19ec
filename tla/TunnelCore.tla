----------------------------- MODULE TunnelCore -----------------------------
(***************************************************************************)
(* TunnelCoreController: the account session of the client.  It signs in,  *)
(* registers the device, walks a chain of requests to load the account     *)
(* (me, country-selection, routing countries, routing rules, configs),     *)
(* fetches the selected configuration, keeps a cache of routing rules, and *)
(* signs out by asking the server to release the device first.             *)
(*                                                                         *)
(* The controller runs on one thread; what interleaves is the user, the    *)
(* replies, the 30 s transfer timeout, and the server.  Signing out is the *)
(* one operation that does not wait for m_busy, so that its request may    *)
(* overlap a chain.                                                        *)
(***************************************************************************)
EXTENDS Integers, FiniteSets

CONSTANTS
  Locations,     \* VPN locations; a configuration is named by its location
  Regions,       \* countries offered for split tunnelling
  Events,        \* what the user and the surroundings of an instance do
  Accounts,      \* ways to sign in: "code", "email"
  Forms,         \* how the server's list carries a configuration
  MaxInFlight,   \* bound: requests in flight at once
  MaxGeneration, \* bound: sessions ended
  MaxRevision,   \* bound: revisions of the routing rules
  BadRevisions   \* revisions the client cannot apply (mixed rules)

AllEvents == {"link", "delete", "revoke", "revokeAll", "refresh", "select", "config",
              "region", "edit", "expire", "remove", "age", "restart", "legacy",
              "overlap"}

ASSUME BoundsAssumption ==
  /\ MaxInFlight \in Nat \ {0} /\ MaxGeneration \in Nat /\ MaxRevision \in Nat \ {0}
  /\ BadRevisions \subseteq 1 .. MaxRevision
  /\ Events \subseteq AllEvents /\ Accounts \subseteq {"code", "email"}
  /\ Forms \subseteq {"listed", "text", "url"}

VARIABLES
  session,    \* m_token, m_emailAccount, m_telegramLinked
  saved,      \* the same in the session storage
  deviceId,   \* whether m_deviceId is set (it is stored when it is made)
  account,    \* what the server told of the account
  busy, pending, generation, reply,  \* m_busy, m_pendingConfigId, m_generation, m_reply
  net,        \* requests in flight
  routing,    \* split-tunnelling country, cache of rules, rules in force
  refreshing, \* m_routingRefreshInFlight
  background, \* background refreshes in flight
  server,     \* valid tokens, device slots, linked accounts, deletion requests
  delivered,  \* the configReady this step emitted, with what was selected
  overlap,    \* history: in this session, signing out met another request
  released    \* history: sessions ended by a sign-out the server confirmed

control == <<busy, pending, generation, reply, net>>
local   == <<session, saved, deviceId>>
rules   == <<routing, refreshing, background>>
history == <<delivered, overlap, released>>
vars    == <<control, local, account, rules, server, history>>

None == "none"

\* In the place of a key: the user changed the split-tunnelling settings.
Edited == "edited"

\* No configuration has the id that stands for none.
ASSUME LocationsAssumption == None \notin Locations

Slots == 1 .. MaxInFlight
NoToken == 0
Tokens == 1 .. MaxGeneration
Keys == Regions \cup {"default"}
Revision == 0 .. MaxRevision

NoSession == [token |-> NoToken, email |-> FALSE, linked |-> FALSE]
Session == [token: Tokens \cup {NoToken}, email: BOOLEAN, linked: BOOLEAN]

\* Data of an account carries the token it was obtained with ("of").
NoConfigs == [of |-> NoToken, ids |-> {}, form |-> "listed"]
NoSelection == [of |-> NoToken, mode |-> "auto", config |-> None]
NoAccount == [configs |-> NoConfigs, selection |-> NoSelection, deletion |-> FALSE]

Kinds == {"auth", "register", "link", "delete", "revoke", "revokeAll", "me",
          "selection", "select", "regions", "routing", "configs", "config",
          "download"}

Idle == [kind |-> "idle"]

Undelivered == [config |-> None, of |-> NoToken, to |-> NoToken, overlap |-> FALSE,
                profile |-> None]

\* What a reply tells: only the fields its kind of request asks for matter.
Answer(code) == [code |-> code, list |-> {}, mode |-> None, config |-> None, revision |-> 0]

\* The first start, with an empty storage; Restart has the later ones.
Init ==
  /\ session = NoSession /\ saved = NoSession
  /\ deviceId = FALSE
  /\ account = NoAccount
  /\ busy = FALSE /\ pending = None /\ generation = 0 /\ reply = 0
  /\ net = [i \in Slots |-> Idle]
  /\ routing = [region |-> None, savedRegion |-> None, offered |-> {},
                cache |-> [k \in Keys |-> 0], stale |-> {},
                last |-> <<None, 0>>, applied |-> <<None, 0>>]
  /\ refreshing = {} /\ background = {}
  /\ server = [valid |-> {}, slots |-> {}, linked |-> {}, deleting |-> {}, revision |-> 1]
  /\ delivered = Undelivered /\ overlap = FALSE /\ released = {}

-----------------------------------------------------------------------------
(* How a handler ends.  i is the request whose reply it serves; its slot    *)
(* carries the next request of the chain.                                  *)

Authenticated == session.token # NoToken

Free(i) == net[i] = Idle /\ \A j \in 1 .. i - 1 : net[j] # Idle

\* No request of the session may still reach the server or be answered.
Alone == \A i \in Slots : net[i] = Idle \/ net[i].token # session.token

\* request(): m_busy is set by whoever asks, and cleared by whichever reply
\* comes first.
Send(i, kind, arg, token) ==
  /\ busy' = TRUE
  /\ net' = [net EXCEPT ![i] = [kind |-> kind, arg |-> arg, gen |-> generation,
                                token |-> token, heard |-> TRUE,
                                answered |-> FALSE, answer |-> Answer(None)]]
  /\ reply' = i
  /\ UNCHANGED generation

\* The request of slot i, if there is one, is over; if the server has not seen
\* it yet, it may still do so.
Over(i) == [net EXCEPT ![i] = IF @ = Idle \/ @.answered THEN Idle ELSE [@ EXCEPT !.heard = FALSE]]

\* fail() in the reply of request i, which has cleared m_reply, or in an
\* operation that was about to use slot i.
Fail(i) ==
  /\ busy' = FALSE /\ pending' = None
  /\ net' = Over(i) /\ reply' = IF net[i] = Idle THEN reply ELSE 0
  /\ UNCHANGED generation

\* fail() before any request was made.
Reject ==
  /\ busy' = FALSE /\ pending' = None
  /\ UNCHANGED <<generation, net, reply>>

\* The reply ends the chain.
Finish(i) ==
  /\ busy' = FALSE
  /\ net' = Over(i) /\ reply' = 0
  /\ UNCHANGED generation

\* Mutant: clearSession does not start a new generation.
Forget_SameGeneration ==
  /\ busy' = FALSE /\ pending' = None /\ reply' = 0
  /\ session' = NoSession /\ saved' = NoSession
  /\ account' = NoAccount
  /\ routing' = [routing EXCEPT !.last = <<None, 0>>]
  /\ overlap' = FALSE
  /\ UNCHANGED <<deviceId, generation>>

\* Mutant: clearSession leaves m_busy to the reply it drops.
Forget_StaysBusy ==
  /\ generation' = generation + 1
  /\ pending' = None /\ reply' = 0
  /\ session' = NoSession /\ saved' = NoSession
  /\ account' = NoAccount
  /\ routing' = [routing EXCEPT !.last = <<None, 0>>]
  /\ overlap' = FALSE
  /\ UNCHANGED <<deviceId, busy>>

\* Mutant: clearSession forgets the session in memory only.
Forget_KeepsSaved ==
  /\ generation' = generation + 1
  /\ busy' = FALSE /\ pending' = None /\ reply' = 0
  /\ session' = NoSession
  /\ account' = NoAccount
  /\ routing' = [routing EXCEPT !.last = <<None, 0>>]
  /\ overlap' = FALSE
  /\ UNCHANGED <<deviceId, saved>>

\* clearSession(), from the reply of a request: m_reply is null by then.
Forget ==
  /\ generation' = generation + 1
  /\ busy' = FALSE /\ pending' = None /\ reply' = 0
  /\ session' = NoSession /\ saved' = NoSession
  /\ account' = NoAccount
  /\ routing' = [routing EXCEPT !.last = <<None, 0>>]
  /\ overlap' = FALSE
  /\ UNCHANGED deviceId

\* A step that emits no configReady.
Silent == delivered' = Undelivered /\ UNCHANGED <<overlap, released>>

\* configReady for configuration c obtained with token of, imported under the
\* selectedProfileKey of the moment.
Deliver(c, of) ==
  /\ delivered' = [config |-> c, of |-> of, to |-> session.token, overlap |-> overlap,
                   profile |-> account.selection.config]
  /\ UNCHANGED <<overlap, released>>

-----------------------------------------------------------------------------
(* Routing rules.                                                          *)

Key(region) == IF region = None THEN "default" ELSE region

\* applyRouting: rules of the revision applied last are not applied again, even
\* if the user has changed the settings they were written to.
CanApply(r, key, revision) == r.last = <<key, revision>> \/ revision \notin BadRevisions

ApplyRouting(r, key, revision) ==
  IF r.last = <<key, revision>> THEN r
  ELSE [r EXCEPT !.last = <<key, revision>>, !.applied = <<key, revision>>]

\* Mutant: rules count as applied once they are cached.
Store_CountsAsApplied(r, key, revision) ==
  [r EXCEPT !.cache[key] = revision, !.stale = @ \ {key}, !.last = <<key, revision>>]

\* storeRoutingCache, in memory and in the settings.
Store(r, key, revision) ==
  [r EXCEPT !.cache[key] = revision, !.stale = @ \ {key}]

\* Mutant: no look at m_routingRefreshInFlight.
RefreshInBackground_Always(key) ==
  /\ refreshing' = refreshing \cup {key}
  /\ background' = background \cup
       {[key |-> key, gen |-> generation, token |-> session.token, revision |-> 0]}

\* refreshRoutingCacheInBackground: one per key, whoever started it.
RefreshInBackground(key) ==
  IF key \in refreshing THEN UNCHANGED <<refreshing, background>>
  ELSE /\ refreshing' = refreshing \cup {key}
       /\ background' = background \cup
            {[key |-> key, gen |-> generation, token |-> session.token, revision |-> 0]}

\* refreshRouting with routing state r, in the reply of request i; p is
\* m_pendingConfigId.
RefreshRouting(i, r, p) ==
  LET key == Key(r.region)
      revision == r.cache[key]
  IN IF revision = 0
     THEN /\ Send(i, "routing", r.region, session.token)
          /\ routing' = r /\ pending' = p
          /\ UNCHANGED <<refreshing, background>>
     ELSE IF CanApply(r, key, revision)
     THEN /\ Send(i, "configs", None, session.token)
          /\ routing' = ApplyRouting(r, key, revision) /\ pending' = p
          /\ IF key \in r.stale THEN RefreshInBackground(key)
             ELSE UNCHANGED <<refreshing, background>>
     ELSE /\ Fail(i)
          /\ routing' = r
          /\ UNCHANGED <<refreshing, background>>

-----------------------------------------------------------------------------
(* Operations of the user.                                                 *)

\* refresh(): the lists are emptied, and the chain starts with "me".
StartRefresh(i, acct) ==
  /\ Send(i, "me", None, session.token)
  /\ account' = [acct EXCEPT !.configs = NoConfigs]
  /\ UNCHANGED pending

May(op) == op \in Events /\ ~busy /\ Authenticated

\* login, loginCode, loginEmail, registerEmail.
SignIn(way) ==
  /\ ~busy /\ ~Authenticated
  /\ generation < MaxGeneration
  /\ \E i \in Slots : Free(i) /\ Send(i, "auth", way, NoToken)
  /\ Silent
  /\ UNCHANGED <<pending, local, account, rules, server>>

\* The same, and linkTelegram, refuse what the user typed.
RejectInput ==
  /\ ~busy
  /\ Reject
  /\ Silent
  /\ UNCHANGED <<local, account, rules, server>>

LinkTelegram ==
  /\ May("link") /\ session.email
  /\ \E i \in Slots : Free(i) /\ Send(i, "link", None, session.token)
  /\ Silent
  /\ UNCHANGED <<pending, local, account, rules, server>>

RequestAccountDeletion ==
  /\ May("delete") /\ ~account.deletion
  /\ \E i \in Slots : Free(i) /\ Send(i, "delete", None, session.token)
  /\ Silent
  /\ UNCHANGED <<pending, local, account, rules, server>>

Refresh ==
  /\ May("refresh")
  /\ \E i \in Slots : Free(i) /\ StartRefresh(i, account)
  /\ Silent
  /\ UNCHANGED <<local, rules, server>>

\* logout or logoutAll before a sign-in has succeeded: m_reply is aborted, and
\* its finished() runs inside abort() with the generation of before.
CancelSignIn ==
  /\ ~Authenticated /\ generation < MaxGeneration
  /\ Forget
  /\ net' = IF reply = 0 THEN net ELSE Over(reply)
  /\ delivered' = Undelivered
  /\ UNCHANGED <<refreshing, background, server, released>>

\* logout, logoutAll.  They do not look at m_busy themselves: the account page
\* disables its buttons meanwhile, but not what it calls later (the confirmed
\* question, and the sign-out that waits for the disconnection).
SignOut(kind) ==
  /\ kind \in Events /\ Authenticated
  /\ busy => "overlap" \in Events
  /\ IF kind = "revoke" /\ ~deviceId
     THEN Reject /\ UNCHANGED overlap
     ELSE /\ \E i \in Slots : Free(i) /\ Send(i, kind, None, session.token)
          /\ overlap' = (overlap \/ ~Alone)
          /\ UNCHANGED pending
  /\ delivered' = Undelivered
  /\ UNCHANGED <<local, account, rules, server, released>>

\* selectVpnCountry: nothing to do for the mode already shown.
SelectVpnCountry(mode) ==
  /\ May("select") /\ mode # account.selection.mode
  /\ \E i \in Slots : Free(i) /\ Send(i, "select", mode, session.token)
  /\ deviceId' = TRUE
  /\ Silent
  /\ UNCHANGED <<pending, session, saved, account, rules, server>>

\* selectConfig for a listed configuration: it is in the list itself, behind
\* the one-time URL in the list, or fetched by its id.
SelectConfig(i, configs, c) ==
  \/ /\ configs.form = "listed"
     /\ Send(i, "config", c, session.token)
     /\ Silent
  \/ /\ configs.form = "url"
     /\ Send(i, "download", c, session.token)
     /\ Silent

\* Mutant: any listed configuration will do.
Current_Any == account.configs.ids

\* The configuration selectCurrentConfig takes: the selected one if it is
\* listed; without a selection, the only one there is.
Current ==
  LET ids == account.configs.ids
      selected == account.selection.config
  IN {c \in ids : IF selected # None THEN c = selected ELSE ids = {c}}

SelectCurrentConfig ==
  /\ May("config")
  /\ \/ /\ Current = {} /\ Reject
        /\ Silent
     \/ \E c \in Current, i \in Slots :
          /\ Free(i) /\ SelectConfig(i, account.configs, c)
          /\ UNCHANGED pending
     \/ \E c \in Current :
          /\ account.configs.form = "text" /\ Deliver(c, account.configs.of)
          /\ UNCHANGED control
  /\ UNCHANGED <<local, account, rules, server>>

\* selectGeoRoutingCountry: the choice is saved before the rules are there.
SelectRegion(region) ==
  /\ May("region") /\ region # routing.region
  /\ IF region \in routing.offered \cup {None}
     THEN \E i \in Slots :
            Free(i) /\ RefreshRouting(i, [routing EXCEPT !.region = region,
                                                         !.savedRegion = region], pending)
     ELSE Reject /\ UNCHANGED rules
  /\ Silent
  /\ UNCHANGED <<local, account, server>>

\* IpSplitTunnelingController, from the split-tunnelling page: the settings that
\* applyRouting writes are the user's too.  m_lastAppliedRouting* is left alone.
EditSites ==
  /\ "edit" \in Events
  /\ routing' = [routing EXCEPT !.applied = <<Edited, 0>>]
  /\ Silent
  /\ UNCHANGED <<control, local, account, refreshing, background, server>>

-----------------------------------------------------------------------------
(* Replies.  A reply of an earlier generation is dropped unread.           *)

Read(i, kind, code) ==
  /\ net[i] # Idle /\ net[i].heard /\ net[i].answered
  /\ net[i].gen = generation
  /\ net[i].kind = kind /\ net[i].answer.code = code

AuthDone(i) ==
  /\ Read(i, "auth", "ok")
  /\ session' = [token |-> net[i].gen + 1, email |-> net[i].arg = "email", linked |-> FALSE]
  /\ saved' = session'
  /\ deviceId' = TRUE
  /\ Send(i, "register", None, net[i].gen + 1)
  /\ Silent
  /\ UNCHANGED <<pending, account, rules, server>>

RegisterDone(i) ==
  /\ Read(i, "register", "ok")
  /\ StartRefresh(i, account)
  /\ Silent
  /\ UNCHANGED <<local, rules, server>>

LinkDone(i) ==
  /\ Read(i, "link", "ok")
  /\ session' = [session EXCEPT !.linked = TRUE] /\ saved' = session'
  /\ StartRefresh(i, account)
  /\ Silent
  /\ UNCHANGED <<deviceId, rules, server>>

DeleteDone(i) ==
  /\ Read(i, "delete", "ok")
  /\ account' = [account EXCEPT !.deletion = TRUE]
  /\ Finish(i)
  /\ Silent
  /\ UNCHANGED <<pending, local, rules, server>>

\* Mutant: the session is cleared whatever became of the revocation.
SignedOut_OnFailure(i) ==
  /\ net[i] # Idle /\ net[i].heard /\ net[i].kind \in {"revoke", "revokeAll"}
  /\ net[i].gen = generation
  /\ Forget
  /\ net' = Over(i)
  /\ released' = released \cup {[token |-> session.token, overlap |-> overlap]}
  /\ delivered' = Undelivered
  /\ UNCHANGED <<refreshing, background, server>>

\* The server released the device, or had already done so: clearSession.
SignedOut(i) ==
  /\ \/ Read(i, "revoke", "ok") \/ Read(i, "revoke", "missing") \/ Read(i, "revokeAll", "ok")
  /\ Forget
  /\ net' = Over(i)
  /\ released' = released \cup {[token |-> session.token, overlap |-> overlap]}
  /\ delivered' = Undelivered
  /\ UNCHANGED <<refreshing, background, server>>

MeDone(i) ==
  /\ Read(i, "me", "ok")
  /\ session' = [session EXCEPT !.linked = "linked" \in net[i].answer.list] /\ saved' = session'
  /\ account' = [account EXCEPT !.deletion = "deleting" \in net[i].answer.list]
  /\ Send(i, "selection", None, session.token)
  /\ Silent
  /\ UNCHANGED <<pending, deviceId, rules, server>>

\* applyVpnCountrySelection.
Selection(r) == [of |-> r.token, mode |-> r.answer.mode, config |-> r.answer.config]

SelectionDone(i) ==
  /\ \/ Read(i, "selection", "ok")
        /\ account' = [account EXCEPT !.selection = Selection(net[i])]
     \/ Read(i, "selection", "legacy")
        /\ account' = [account EXCEPT !.selection = NoSelection]
  /\ Send(i, "regions", None, session.token)
  /\ Silent
  /\ UNCHANGED <<pending, local, rules, server>>

\* Mutant: a 404 of a server without country selection registers again, too.
SelectionMissing_Any404(i) ==
  /\ Read(i, "selection", "missing") \/ Read(i, "selection", "legacy")
  /\ deviceId' = TRUE
  /\ Send(i, "register", None, session.token)
  /\ Silent
  /\ UNCHANGED <<pending, session, saved, account, rules, server>>

\* The server does not know the device: register it again, and start over.
SelectionMissing(i) ==
  /\ Read(i, "selection", "missing")
  /\ deviceId' = TRUE
  /\ Send(i, "register", None, session.token)
  /\ Silent
  /\ UNCHANGED <<pending, session, saved, account, rules, server>>

\* A region no longer offered is given up, in the settings too.
RegionsDone(i) ==
  /\ Read(i, "regions", "ok")
  /\ LET offered == net[i].answer.list
         gone == routing.region \notin offered \cup {None}
         kept(region) == IF gone THEN None ELSE region
     IN RefreshRouting(i, [routing EXCEPT !.offered = offered, !.region = kept(@),
                                          !.savedRegion = kept(@)], pending)
  /\ Silent
  /\ UNCHANGED <<local, account, server>>

\* A server without the list: the region is given up in memory only.
RegionsLegacy(i) ==
  /\ Read(i, "regions", "legacy")
  /\ RefreshRouting(i, [routing EXCEPT !.offered = {}, !.region = None], pending)
  /\ Silent
  /\ UNCHANGED <<local, account, server>>

\* applyAndContinue, for the key the request was made for.  The rules are
\* stored before it is known whether they can be applied.
RoutingDone(i) ==
  /\ Read(i, "routing", "ok")
  /\ LET key == Key(net[i].arg)
         revision == net[i].answer.revision
         r == Store(routing, key, revision)
     IN IF CanApply(r, key, revision)
        THEN /\ routing' = ApplyRouting(r, key, revision)
             /\ Send(i, "configs", None, session.token)
             /\ UNCHANGED pending
        ELSE routing' = r /\ Fail(i)
  /\ Silent
  /\ UNCHANGED <<local, account, refreshing, background, server>>

RoutingLegacy(i) ==
  /\ Read(i, "routing", "legacy")
  /\ Send(i, "configs", None, session.token)
  /\ Silent
  /\ UNCHANGED <<pending, local, account, rules, server>>

\* refreshConfigs: a configuration that selectVpnCountry announced is fetched
\* now, if it is listed.
ConfigsDone(i) ==
  /\ Read(i, "configs", "ok")
  /\ LET configs == [of |-> net[i].token, ids |-> net[i].answer.list,
                     form |-> net[i].answer.mode]
     IN /\ account' = [account EXCEPT !.configs = configs]
        /\ \/ pending = None /\ Finish(i) /\ UNCHANGED pending /\ Silent
           \/ /\ pending \in configs.ids /\ pending' = None
              /\ \/ SelectConfig(i, configs, pending)
                 \/ configs.form = "text" /\ Deliver(pending, configs.of) /\ Finish(i)
           \/ pending \notin configs.ids \cup {None} /\ Fail(i) /\ Silent
  /\ UNCHANGED <<local, rules, server>>

\* Mutant: the country asked for is taken for the configuration to fetch.
SelectDone_Asked(i) ==
  /\ Read(i, "select", "ok")
  /\ account' = [account EXCEPT !.selection = Selection(net[i]), !.configs = NoConfigs]
  /\ RefreshRouting(i, routing, net[i].arg)
  /\ Silent
  /\ UNCHANGED <<local, server>>

SelectDone(i) ==
  /\ Read(i, "select", "ok")
  /\ account' = [account EXCEPT !.selection = Selection(net[i]), !.configs = NoConfigs]
  /\ RefreshRouting(i, routing, net[i].answer.config)
  /\ Silent
  /\ UNCHANGED <<local, server>>

ConfigDone(i) ==
  /\ Read(i, "config", "ok")
  /\ \/ /\ net[i].answer.mode = "text"
        /\ Deliver(net[i].arg, net[i].token) /\ Finish(i)
     \/ /\ net[i].answer.mode = "url"
        /\ Send(i, "download", net[i].arg, net[i].token)
        /\ Silent
  /\ UNCHANGED <<pending, local, account, rules, server>>

DownloadDone(i) ==
  /\ Read(i, "download", "ok")
  /\ Deliver(net[i].arg, net[i].token) /\ Finish(i)
  /\ UNCHANGED <<pending, local, account, rules, server>>

\* 401: the session is over, whatever the request was.
Unauthorized(i) ==
  /\ net[i] # Idle /\ Read(i, net[i].kind, "gone")
  /\ Forget
  /\ net' = Over(i)
  /\ delivered' = Undelivered
  /\ UNCHANGED <<refreshing, background, server, released>>

\* The transfer timeout, a network error, an invalid body, a refusal.  The
\* server may have carried out the request, or may yet do so.
Lost(i) ==
  /\ net[i] # Idle /\ net[i].heard /\ net[i].gen = generation
  /\ Fail(i)
  /\ Silent
  /\ UNCHANGED <<local, account, rules, server>>

Ignored(i) ==
  /\ net[i] # Idle /\ net[i].heard /\ net[i].gen # generation
  /\ net' = Over(i)
  /\ Silent
  /\ UNCHANGED <<busy, pending, generation, reply, local, account, rules, server>>

\* A background refresh touches the cache only; what is in force changes with
\* the next refresh of the account.
BackgroundDone(b) ==
  /\ background' = background \ {b}
  /\ refreshing' = refreshing \ {b.key}
  /\ routing' = IF b.gen = generation /\ b.revision # 0
                THEN Store(routing, b.key, b.revision) ELSE routing
  /\ Silent
  /\ UNCHANGED <<control, local, account, server>>

-----------------------------------------------------------------------------
(* The server, the clock, and a restart of the program.                    *)

\* A server of before the routing and country interfaces answers 404.
Legacy == {Answer("legacy") : e \in Events \cap {"legacy"}}

\* Answers that tell something: one of each set.
Told(lists, modes, configs, revisions) ==
  [code: {"ok"}, list: lists, mode: modes, config: configs, revision: revisions]

\* Answers to request r by a server that carries it out.  The configurations
\* of a location are the server's choice.
Answers(r) ==
  LET known == r.token \in server.slots
      flags == {"linked" : t \in server.linked \cap {r.token}}
               \cup {"deleting" : t \in server.deleting \cap {r.token}}
  IN IF r.kind \notin {"auth", "download"} /\ r.token \notin server.valid
     THEN {Answer("gone")}
     ELSE CASE r.kind = "revoke" -> {Answer(IF known THEN "ok" ELSE "missing")}
            [] r.kind = "me" -> Told({flags}, {None}, {None}, {0})
            [] r.kind = "selection" /\ ~known -> {Answer("missing")}
            [] r.kind = "selection" /\ known ->
                 Told({{}}, {"auto"} \cup Locations, Locations \cup {None}, {0}) \cup Legacy
            [] r.kind = "select" ->
                 Told({{}}, {r.arg}, IF r.arg = "auto" THEN Locations ELSE {r.arg}, {0})
            [] r.kind = "regions" -> Told(SUBSET Regions, {None}, {None}, {0}) \cup Legacy
            [] r.kind = "routing" ->
                 Told({{}}, {None}, {None}, {server.revision})
                 \cup (IF r.arg = None THEN Legacy ELSE {})
            [] r.kind = "configs" -> Told(SUBSET Locations, Forms, {None}, {0})
            [] r.kind = "config" -> Told({{}}, {"text", "url"}, {None}, {0})
            [] OTHER -> {Answer("ok")}

\* What the server's state becomes when it answers r with a.
Effect(r, a) ==
  IF a.code # "ok" THEN server
  ELSE CASE r.kind = "auth" -> [server EXCEPT !.valid = @ \cup {r.gen + 1}]
         [] r.kind = "register" -> [server EXCEPT !.slots = @ \cup {r.token}]
         [] r.kind = "revoke" -> [server EXCEPT !.slots = @ \ {r.token}]
         [] r.kind = "revokeAll" -> [server EXCEPT !.slots = @ \ {r.token},
                                                  !.valid = @ \ {r.token}]
         [] r.kind = "link" -> [server EXCEPT !.linked = @ \cup {r.token}]
         [] r.kind = "delete" -> [server EXCEPT !.deleting = @ \cup {r.token}]
         [] OTHER -> server

Serve(i) ==
  /\ net[i] # Idle /\ ~net[i].answered
  /\ \E a \in Answers(net[i]) :
       /\ net' = [net EXCEPT ![i] = IF @.heard THEN [@ EXCEPT !.answered = TRUE, !.answer = a]
                                    ELSE Idle]
       /\ server' = Effect(net[i], a)
  /\ Silent
  /\ UNCHANGED <<busy, pending, generation, reply, local, account, rules>>

\* A request the client gave up never reaches the server, or is refused.
Drop(i) ==
  /\ net[i] # Idle /\ ~net[i].heard
  /\ net' = [net EXCEPT ![i] = Idle]
  /\ Silent
  /\ UNCHANGED <<busy, pending, generation, reply, local, account, rules, server>>

ServeBackground(b) ==
  /\ b.revision = 0 /\ b.token \in server.valid
  /\ background' = (background \ {b}) \cup {[b EXCEPT !.revision = server.revision]}
  /\ Silent
  /\ UNCHANGED <<control, local, account, routing, refreshing, server>>

\* The token expires; another device of the account removes this one; the
\* operator publishes new routing rules.
Expire ==
  /\ "expire" \in Events
  /\ \E t \in server.valid : server' = [server EXCEPT !.valid = @ \ {t}]
  /\ Silent
  /\ UNCHANGED <<control, local, account, rules>>

RemoveDevice ==
  /\ "remove" \in Events
  /\ \E t \in server.slots : server' = [server EXCEPT !.slots = @ \ {t}]
  /\ Silent
  /\ UNCHANGED <<control, local, account, rules>>

Publish ==
  /\ server.revision < MaxRevision
  /\ server' = [server EXCEPT !.revision = @ + 1]
  /\ Silent
  /\ UNCHANGED <<control, local, account, rules>>

\* routingCacheIsFresh: a cached entry is fresh for six hours.
Age ==
  /\ "age" \in Events
  /\ \E k \in Keys : routing.cache[k] # 0 /\ k \notin routing.stale
                     /\ routing' = [routing EXCEPT !.stale = @ \cup {k}]
  /\ Silent
  /\ UNCHANGED <<control, local, account, refreshing, background, server>>

\* The program ends at any point and starts again: the constructor.  No reply
\* survives, so the generation need not go back to 0.
Restart ==
  LET after == [j \in Slots |-> IF net[j] = Idle \/ net[j].answered THEN Idle
                                ELSE [net[j] EXCEPT !.heard = FALSE]]
  IN /\ "restart" \in Events
     /\ session' = saved
     /\ IF saved.token = NoToken
        THEN busy' = FALSE /\ reply' = 0 /\ net' = after /\ UNCHANGED deviceId
        ELSE \E i \in Slots :
               /\ after[i] = Idle /\ \A j \in 1 .. i - 1 : after[j] # Idle
               /\ busy' = TRUE /\ reply' = i /\ deviceId' = TRUE
               /\ net' = [after EXCEPT ![i] =
                    [kind |-> "register", arg |-> None, gen |-> generation, token |-> saved.token,
                     heard |-> TRUE, answered |-> FALSE, answer |-> Answer(None)]]
     /\ pending' = None
     /\ account' = NoAccount
     /\ routing' = [routing EXCEPT !.region = routing.savedRegion, !.offered = {},
                                   !.last = <<None, 0>>]
     /\ refreshing' = {} /\ background' = {}
     /\ Silent
     /\ UNCHANGED <<generation, saved, server>>

-----------------------------------------------------------------------------
User ==
  \/ \E way \in Accounts : SignIn(way)
  \/ RejectInput \/ LinkTelegram \/ RequestAccountDeletion \/ Refresh
  \/ CancelSignIn
  \/ \E kind \in {"revoke", "revokeAll"} : SignOut(kind)
  \/ \E mode \in {"auto"} \cup Locations : SelectVpnCountry(mode)
  \/ SelectCurrentConfig
  \/ \E region \in Regions \cup {None} : SelectRegion(region)

Reply(i) ==
  \/ AuthDone(i) \/ RegisterDone(i) \/ LinkDone(i) \/ DeleteDone(i) \/ SignedOut(i)
  \/ MeDone(i) \/ SelectionDone(i) \/ SelectionMissing(i)
  \/ RegionsDone(i) \/ RegionsLegacy(i) \/ RoutingDone(i) \/ RoutingLegacy(i)
  \/ ConfigsDone(i) \/ SelectDone(i) \/ ConfigDone(i) \/ DownloadDone(i)
  \/ Unauthorized(i) \/ Lost(i) \/ Ignored(i)

Next ==
  \/ User
  \/ \E i \in Slots : Reply(i) \/ Serve(i) \/ Drop(i)
  \/ \E b \in background : BackgroundDone(b) \/ ServeBackground(b)
  \/ Expire \/ RemoveDevice \/ Publish \/ Age \/ EditSites \/ Restart

Spec == Init /\ [][Next]_vars

\* Every request ends: the transfer timeout bounds it, and the event loop
\* serves what arrived.
FairSpec == Spec /\ \A i \in Slots : WF_vars(Reply(i))

-----------------------------------------------------------------------------
(* Properties.                                                             *)

Answered == [code: {None, "ok", "gone", "missing", "legacy"},
             list: SUBSET (Locations \cup Regions \cup {"linked", "deleting"}),
             mode: {None, "auto", "listed", "text", "url"} \cup Locations,
             config: Locations \cup {None}, revision: Revision]

Request == [kind: Kinds, arg: {None, "auto"} \cup Locations \cup Regions \cup Accounts,
            gen: 0 .. MaxGeneration, token: Tokens \cup {NoToken}, heard: BOOLEAN,
            answered: BOOLEAN, answer: Answered]

Account == [configs: [of: Tokens \cup {NoToken}, ids: SUBSET Locations,
                      form: {"listed", "text", "url"}],
            selection: [of: Tokens \cup {NoToken}, mode: {"auto"} \cup Locations,
                        config: Locations \cup {None}],
            deletion: BOOLEAN]

Routing == [region: Regions \cup {None}, savedRegion: Regions \cup {None},
            offered: SUBSET Regions, cache: [Keys -> Revision], stale: SUBSET Keys,
            last: (Keys \cup {None}) \X Revision,
            applied: (Keys \cup {None, Edited}) \X Revision]

\* Every variable has its type: in particular a reply is only read as what its
\* request asked for.
TypeOK ==
  /\ session \in Session /\ saved \in Session /\ deviceId \in BOOLEAN
  /\ account \in Account
  /\ busy \in BOOLEAN /\ pending \in Locations \cup {None}
  /\ generation \in 0 .. MaxGeneration /\ reply \in 0 .. MaxInFlight
  /\ net \in [Slots -> Request \cup {Idle}]
  /\ routing \in Routing /\ refreshing \subseteq Keys
  /\ background \subseteq [key: Keys, gen: 0 .. MaxGeneration,
                           token: Tokens \cup {NoToken}, revision: Revision]
  /\ server \in [valid: SUBSET Tokens, slots: SUBSET Tokens, linked: SUBSET Tokens,
                 deleting: SUBSET Tokens, revision: Revision]

\* Nothing one account was told reaches the next: what the client shows, and
\* every configuration it hands to the import, was obtained with the token of
\* the session it is in, although replies of an ended session still arrive and
\* a new session may start before they do (request(): m_generation).
SessionIsolation ==
  /\ account.configs.of \in {NoToken, session.token}
  /\ account.selection.of \in {NoToken, session.token}
  /\ delivered.of = delivered.to

\* The stored session is the current one after every step, so that a restart
\* at any point neither loses a sign-in nor brings back an ended session
\* (saveSession, clearSession).
SavedIsCurrent == saved = session

\* The client is never busy with nothing to wait for: whatever order signing
\* out and a chain of requests end in, m_busy is set only while a request of
\* this session will still call back.
BusyIsServed ==
  busy => \E i \in Slots : net[i] # Idle /\ net[i].heard /\ net[i].gen = generation

\* A configuration is imported under the profile key of its own location
\* (configReady, selectedProfileKey), unless signing out met another request
\* and failed: only then may a second selection overtake a download.
ProfileMatches ==
  ~delivered.overlap => delivered.profile \in {delivered.config, None}

\* A session ended by a confirmed sign-out holds no device slot, provided no
\* other request of it was under way when the user signed out (logout).
SlotReleased == \A r \in released : ~r.overlap => r.token \notin server.slots

\* While a region is chosen, the client asks for its configurations with the
\* rules of that region in force, or with what the user made of the settings:
\* never with those of another region or of the default, whatever was cached,
\* refreshed in the background, skipped as known, refused or restarted before.
\* Signing out that met another request is exempt: it frees the client early.
RulesFollowRegion ==
  \A i \in Slots :
    /\ net[i] # Idle /\ net[i].heard /\ net[i].gen = generation
    /\ net[i].kind = "configs" /\ ~overlap /\ routing.region # None
    => routing.applied[1] \in {routing.region, Edited}

\* At most one background refresh per key is under way, even when the first was
\* started in a session that has ended (m_routingRefreshInFlight).  Requests of
\* the account's own chain do not count.
OneRefreshPerKey == \A a, b \in background : a.key = b.key => a = b

\* A client that is busy becomes idle again, unless other devices keep removing
\* this one: then refresh and registerDevice follow each other for ever.
BusyEnds == <>[][~RemoveDevice]_vars => (busy ~> ~busy)
=============================================================================
