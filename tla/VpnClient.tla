----------------------------- MODULE VpnClient ------------------------------
(***************************************************************************)
(* The client's side of a WireGuard session on a desktop: VpnConnection,   *)
(* the WireguardProtocol it owns, and that protocol's                      *)
(* LocalSocketController, talking to the daemon over one local socket per  *)
(* protocol object.  Everything of the client runs on the thread of        *)
(* VpnConnection; user requests, network changes and socket data are       *)
(* queued for it.                                                          *)
(*                                                                         *)
(* VpnConnection::setConnectionState waits for the service (flushDns,      *)
(* clearSavedRoutes) in a nested event loop before it stores Connected,    *)
(* Disconnected or Error.  Whatever is queued is handled there, on top of  *)
(* the call that waits: variable stack has the calls that wait, todo what  *)
(* the slot on top has still to do before the thread is in an event loop   *)
(* again.                                                                  *)
(*                                                                         *)
(* The daemon is reduced to what its messages show; module Daemon has its  *)
(* details.                                                                *)
(***************************************************************************)
EXTENDS Integers, Sequences

CONSTANTS
  MaxSockets,    \* bound: sockets with unread messages or both ends open
  MaxObjects,    \* bound: protocol objects at a time
  MaxDepth,      \* bound: calls that wait on top of each other
  MaxNested,     \* bound: requests handled in nested event loops
  MaxReconnects, \* bound: network changes that find the client connected
  MaxCrashes,    \* bound: crashes of the service
  MaxRetry,      \* MAX_CONNECTION_RETRY
  InitialService, \* states the service may be in when the client starts
  InOrder,       \* whether the daemon serves an old socket before a newer one
  NoProtocol

ASSUME BoundsAreNaturals ==
  /\ MaxSockets \in Nat /\ MaxReconnects \in Nat /\ MaxCrashes \in Nat
  /\ MaxObjects \in Nat /\ MaxDepth \in Nat /\ MaxNested \in Nat
  /\ MaxRetry \in Nat \ {0}

ASSUME ServiceAssumption == InitialService \subseteq {"idle", "down"} /\ InOrder \in BOOLEAN

VARIABLES
  vpn,     \* VpnConnection::m_connectionState
  cur,     \* m_vpnProtocol: an object, or NoObject
  objs,    \* the protocol objects, each with its controller
  stack,   \* calls of setConnectionState that wait, the innermost last
  todo,    \* what the running slot does next; <<>> in an event loop
  live,    \* sockets whose both ends exist
  inbox,   \* per socket: what the daemon has not read yet
  outbox,  \* per socket: what the client has not read yet
  daemon,  \* "down", or "idle", "pending" (no handshake yet), "up"
  counts   \* reconnects and crashes so far

client  == <<vpn, cur, objs, stack, todo>>
wires   == <<live, inbox, outbox>>
vars    == <<client, wires, daemon, counts>>

Sockets == 1 .. MaxSockets
NoSocket == 0
Objects == 1 .. MaxObjects
NoObject == 0
Destroyed == -1   \* stands for an object that exists no more

VpnState == {"Connecting", "Connected", "Reconnecting", "Disconnecting",
             "Disconnected", "Error"}

\* A protocol object: its own connection state, m_daemonState of the
\* controller, its socket and m_initializingRetry.
Protocol == [st: {"Unknown", "Connected", "Disconnected"},
             ctl: {"Initializing", "Ready"},
             sock: Sockets \cup {NoSocket}, retry: Nat]

ASSUME NoProtocolAssumption == NoProtocol \notin Protocol

\* What a slot may have left to do: stop() comes first, and what follows may
\* come after a wait.
Rests == {<<>>, <<"reset">>, <<"restart">>, <<"start">>, <<"create", "start">>,
          <<"reset", "create", "start">>}
Tasks == Rests \cup {<<"stop", "reset">>, <<"stop", "restart">>,
                     <<"stop", "reset", "create", "start">>,
                     <<"destroy">>, <<"destroy", "start">>, <<"destroy", "create", "start">>}

\* A waiting setConnectionState(to): what its caller does afterwards, the
\* object one of whose handlers is the caller, the object whose destructor is.
Call == [to: {"Connected", "Disconnected", "Error"}, then: Rests,
         by: Objects \cup {NoObject, Destroyed}, dying: Objects \cup {NoObject}]

-----------------------------------------------------------------------------
(* Sockets.                                                                *)

\* What arrives of messages written to socket s: nothing if it is not open.
Written(s, msgs) ==
  IF s \in live THEN [inbox EXCEPT ![s] = @ \o msgs] ELSE inbox

\* Daemon messages reach the sockets in S that are still open.
Delivered(S, msg) ==
  [s \in Sockets |-> IF s \in S \cap live THEN Append(outbox[s], msg) ELSE outbox[s]]

\* LocalSocketController::deactivate asks the daemon only once it is ready.
DeactivateMsgs(p) == IF p.ctl = "Ready" THEN <<"deactivate">> ELSE <<>>

-----------------------------------------------------------------------------
(* The thread of VpnConnection.                                            *)

\* The thread is in an event loop, the outermost or a nested one, and takes
\* the next event.
InLoop == todo = <<>> /\ Len(stack) < MaxDepth

\* setConnectionState(s) up to its nested event loop.
Wait(s, by, dying, then) ==
  /\ stack' = Append(stack, [to |-> s, then |-> then, by |-> by, dying |-> dying])
  /\ todo' = <<>>

\* VpnProtocol::setConnectionState leaves object o as p; VpnConnection hears
\* of a change only.
Report(o, p, by, dying, then) ==
  /\ objs' = [objs EXCEPT ![o] = p]
  /\ IF objs[o].st # p.st
     THEN Wait(p.st, by, dying, then)
     ELSE todo' = then /\ UNCHANGED stack

\* The waiting calls once object o is gone: one of its own is left without it.
Without(calls, o) ==
  [i \in DOMAIN calls |->
     IF calls[i].by = o THEN [calls[i] EXCEPT !.by = Destroyed] ELSE calls[i]]

\* Object o is gone: its socket is closed with what it did not read.
Free(o, calls) ==
  /\ objs' = [objs EXCEPT ![o] = NoProtocol]
  /\ live' = live \ {objs[o].sock}
  /\ outbox' = [s \in Sockets |-> IF s = objs[o].sock THEN <<>> ELSE outbox[s]]
  /\ stack' = Without(calls, o)

\* The process dies and is started again.
Crash ==
  /\ vpn' = "Disconnected" /\ cur' = NoObject
  /\ objs' = [o \in Objects |-> NoProtocol]
  /\ stack' = <<>> /\ todo' = <<>>
  /\ live' = {} /\ outbox' = [s \in Sockets |-> <<>>]
  /\ UNCHANGED <<inbox, daemon, counts>>

\* Mutant: a connecting VpnConnection ignores Disconnected, too.
Stored_Connecting(to) ==
  IF to = "Disconnected" /\ vpn \in {"Connecting", "Reconnecting"} THEN vpn ELSE to

\* What setConnectionState(to) stores after the wait: a reconnecting
\* VpnConnection ignores Disconnected.
Stored(to) == IF to = "Disconnected" /\ vpn = "Reconnecting" THEN vpn ELSE to

\* The innermost call goes on, and then its caller does.  A caller that was
\* destroyed meanwhile goes on in freed memory, and may crash.
Return ==
  /\ todo = <<>> /\ stack # <<>>
  /\ LET top == stack[Len(stack)]
         rest == SubSeq(stack, 1, Len(stack) - 1)
     IN \/ /\ vpn' = Stored(top.to)
           /\ todo' = top.then
           /\ IF top.dying = NoObject
              THEN stack' = rest /\ UNCHANGED <<objs, live, outbox>>
              ELSE Free(top.dying, rest)
           /\ UNCHANGED <<cur, inbox, daemon, counts>>
        \/ top.by = Destroyed /\ Crash

-----------------------------------------------------------------------------
(* Slots of VpnConnection, and what they do after a call that may wait.    *)

\* A request is taken from the queue, also in a nested event loop; again is
\* the number of network changes with it.
Request(again) ==
  /\ InLoop
  /\ stack # <<>> => counts.nested < MaxNested
  /\ counts' = [counts EXCEPT !.nested = IF stack = <<>> THEN @ ELSE @ + 1,
                              !.reconnects = again]

\* The user connects.
ConnectToVpn ==
  /\ Request(counts.reconnects) /\ vpn \in {"Disconnected", "Error"}
  /\ vpn' = "Connecting"
  /\ todo' = IF cur = NoObject THEN <<"create", "start">>
             ELSE <<"stop", "reset", "create", "start">>
  /\ UNCHANGED <<cur, objs, stack, wires, daemon>>

\* The user disconnects; without an object there is nothing to stop.
DisconnectFromVpn ==
  /\ Request(counts.reconnects) /\ vpn \in {"Connecting", "Connected", "Reconnecting", "Disconnecting"}
  /\ IF cur = NoObject
     THEN Wait("Disconnected", NoObject, NoObject, <<>>) /\ UNCHANGED vpn
     ELSE vpn' = "Disconnecting" /\ todo' = <<"stop", "reset">> /\ UNCHANGED stack
  /\ UNCHANGED <<cur, objs, wires, daemon>>

\* networkChanged or wakeup: stop() and start() on the same object.
ReconnectToVpn ==
  /\ cur # NoObject /\ vpn = "Connected"
  /\ counts.reconnects < MaxReconnects /\ Request(counts.reconnects + 1)
  /\ vpn' = "Reconnecting"
  /\ todo' = <<"stop", "restart">>
  /\ UNCHANGED <<cur, objs, stack, wires, daemon>>

\* m_vpnProtocol->stop().
Stop ==
  /\ todo # <<>> /\ Head(todo) = "stop"
  /\ inbox' = Written(objs[cur].sock, DeactivateMsgs(objs[cur]))
  /\ Report(cur, [objs[cur] EXCEPT !.st = "Disconnected"], NoObject, NoObject, Tail(todo))
  /\ UNCHANGED <<vpn, cur, live, outbox, daemon, counts>>

\* m_vpnProtocol.reset(), whatever it points to by now.
Reset ==
  /\ todo # <<>> /\ Head(todo) = "reset"
  /\ cur' = NoObject
  /\ todo' = IF cur = NoObject THEN Tail(todo) ELSE [todo EXCEPT ![1] = "destroy"]
  /\ UNCHANGED <<vpn, objs, stack, wires, daemon, counts>>

\* Objects nobody points to any more, and whose destructor has not begun.
Unowned == {o \in Objects : /\ objs[o] # NoProtocol /\ o # cur
                            /\ \A i \in DOMAIN stack : stack[i].dying # o}

\* The destructor stops the protocol once more.
Destroy ==
  /\ todo # <<>> /\ Head(todo) = "destroy"
  /\ \E o \in Unowned :
       /\ inbox' = Written(objs[o].sock, DeactivateMsgs(objs[o]))
       /\ IF objs[o].st = "Disconnected"
          THEN Free(o, stack) /\ todo' = Tail(todo)
          ELSE /\ Report(o, [objs[o] EXCEPT !.st = "Disconnected"], NoObject, o, Tail(todo))
               /\ UNCHANGED <<live, outbox>>
  /\ UNCHANGED <<vpn, cur, daemon, counts>>

\* initializeInternal for object o: connectToServer succeeds at once, and
\* daemonConnected asks for the status, or it fails and errorOccurred runs.
Initialize(o, p, then) ==
  IF daemon # "down"
  THEN \E s \in Sockets \ live :
         /\ inbox[s] = <<>> /\ \A t \in Sockets \ live : inbox[t] = <<>> => s <= t
         /\ live' = live \cup {s}
         /\ inbox' = [inbox EXCEPT ![s] = <<"status">>]
         /\ objs' = [objs EXCEPT ![o] = [p EXCEPT !.ctl = "Initializing", !.sock = s]]
         /\ todo' = then /\ UNCHANGED stack
  ELSE /\ UNCHANGED <<live, inbox>>
       /\ IF p.retry < MaxRetry
          THEN /\ objs' = [objs EXCEPT ![o] = [p EXCEPT !.ctl = "Initializing",
                              !.sock = NoSocket, !.retry = @ + 1]]
               /\ todo' = then /\ UNCHANGED stack
          ELSE Report(o, [p EXCEPT !.ctl = "Ready", !.sock = NoSocket, !.retry = 0,
                             !.st = "Disconnected"], o, NoObject, then)

\* Mutant: the object starts in the state VpnConnection has already taken.
NewProtocol_Connecting == [st |-> "Connecting", ctl |-> "Initializing", sock |-> NoSocket,
                           retry |-> 0]

NewProtocol == [st |-> "Unknown", ctl |-> "Initializing", sock |-> NoSocket,
                retry |-> 0]

\* m_vpnProtocol.reset(factory): the new object is there before an object that
\* a connect in a nested loop has left is destroyed.
Create ==
  /\ todo # <<>> /\ Head(todo) = "create"
  /\ \E o \in Objects :
       /\ objs[o] = NoProtocol
       /\ \A q \in Objects : objs[q] = NoProtocol => o <= q
       /\ cur' = o
       /\ Initialize(o, NewProtocol,
                     IF cur = NoObject THEN Tail(todo) ELSE [todo EXCEPT ![1] = "destroy"])
  /\ UNCHANGED <<vpn, outbox, daemon, counts>>

\* m_vpnProtocol->start(); connectToVpn looks at the pointer first,
\* reconnectToVpn does not.
Start ==
  /\ todo # <<>> /\ Head(todo) \in {"start", "restart"}
  /\ \/ /\ cur # NoObject
        /\ inbox' = Written(objs[cur].sock, <<"activate">>)
        /\ todo' = Tail(todo)
        /\ UNCHANGED <<vpn, cur, objs, stack, live, outbox, daemon, counts>>
     \/ /\ cur = NoObject /\ Head(todo) = "start"
        /\ Wait("Error", NoObject, NoObject, <<>>)
        /\ UNCHANGED <<vpn, cur, objs, wires, daemon, counts>>
     \/ cur = NoObject /\ Head(todo) = "restart" /\ Crash

-----------------------------------------------------------------------------
(* LocalSocketController of object o.                                      *)

\* parseCommand.  Until the first status arrives anything else is dropped.
\* readyRead is not emitted again while a handler of it waits.  The status that
\* "connected" asks for again only refreshes addresses and is left out.
ReadData(o) ==
  /\ InLoop /\ objs[o] # NoProtocol
  /\ \A i \in DOMAIN stack : stack[i].by # o
  /\ objs[o].sock # NoSocket /\ outbox[objs[o].sock] # <<>>
  /\ outbox' = [outbox EXCEPT ![objs[o].sock] = Tail(@)]
  /\ LET msg == Head(outbox[objs[o].sock])
     IN \/ /\ objs[o].ctl = "Initializing"
           /\ objs' = [objs EXCEPT ![o].ctl = IF msg = "status" THEN "Ready" ELSE @]
           /\ UNCHANGED <<stack, todo>>
        \/ /\ objs[o].ctl = "Ready" /\ msg = "disconnected"
           /\ Report(o, [objs[o] EXCEPT !.retry = 0, !.st = "Disconnected"], o, NoObject, <<>>)
        \/ /\ objs[o].ctl = "Ready" /\ msg = "connected"
           /\ Report(o, [objs[o] EXCEPT !.st = "Connected"], o, NoObject, <<>>)
  /\ UNCHANGED <<vpn, cur, live, inbox, daemon, counts>>

\* The peer closed the socket: errorOccurred runs for the error and for the
\* disconnection.
SocketLost(o) ==
  /\ InLoop /\ objs[o] # NoProtocol
  /\ objs[o].sock # NoSocket /\ objs[o].sock \notin live
  /\ outbox[objs[o].sock] = <<>>
  /\ \/ /\ objs[o].ctl = "Initializing" /\ objs[o].retry + 1 < MaxRetry
        /\ objs' = [objs EXCEPT ![o] = [objs[o] EXCEPT !.sock = NoSocket, !.retry = @ + 2]]
        /\ UNCHANGED <<stack, todo>>
     \/ /\ objs[o].ctl = "Ready" \/ objs[o].retry + 1 >= MaxRetry
        /\ Report(o, [objs[o] EXCEPT !.sock = NoSocket, !.ctl = "Ready", !.retry = 0,
                                     !.st = "Disconnected"], o, NoObject, <<>>)
  /\ UNCHANGED <<vpn, cur, wires, daemon, counts>>

\* m_initializingTimer: connect again.
RetryTimer(o) ==
  /\ InLoop /\ objs[o] # NoProtocol
  /\ objs[o].ctl = "Initializing" /\ objs[o].sock = NoSocket
  /\ Initialize(o, objs[o], <<>>)
  /\ UNCHANGED <<vpn, cur, outbox, daemon, counts>>

-----------------------------------------------------------------------------
(* The daemon and its sockets, as the client sees them.                    *)

\* Mutant: a failed activation is not reported.
ActivateMsg_Silent(s) ==
  /\ daemon' \in {"pending", "idle"}
  /\ UNCHANGED outbox

\* Daemon::activate succeeds, or fails and the failure goes to the socket.
ActivateMsg(s) ==
  \/ /\ daemon' = "pending"
     /\ UNCHANGED outbox
  \/ /\ daemon' \in {daemon, "idle"}
     /\ outbox' = Delivered({s}, "disconnected")

\* Sockets are read when their notifiers fire, also from the event loop nested
\* in another command; an InOrder daemon would finish the closed ones first.
DaemonReads(s) ==
  /\ daemon # "down" /\ inbox[s] # <<>>
  /\ InOrder => s \notin live \/ \A t \in Sockets \ live : inbox[t] = <<>>
  /\ inbox' = [inbox EXCEPT ![s] = Tail(@)]
  /\ \/ /\ Head(inbox[s]) = "status"
        /\ outbox' = Delivered({s}, "status")
        /\ UNCHANGED daemon
     \/ /\ Head(inbox[s]) = "activate"
        /\ ActivateMsg(s)
     \/ /\ Head(inbox[s]) = "deactivate"
        /\ daemon' = "idle"
        /\ outbox' = Delivered(Sockets, "disconnected")
  /\ UNCHANGED <<client, live, counts>>

\* checkHandshake finds the handshake of the pending connection.
HandshakeDone ==
  /\ daemon = "pending"
  /\ daemon' = "up"
  /\ outbox' = Delivered(Sockets, "connected")
  /\ UNCHANGED <<client, live, inbox, counts>>

DaemonCrash ==
  /\ daemon # "down" /\ counts.crashes < MaxCrashes
  /\ counts' = [counts EXCEPT !.crashes = @ + 1]
  /\ daemon' = "down"
  /\ live' = {}
  /\ inbox' = [s \in Sockets |-> <<>>]
  /\ UNCHANGED <<client, outbox>>

DaemonStarts ==
  /\ daemon = "down"
  /\ daemon' = "idle"
  /\ UNCHANGED <<client, wires, counts>>

-----------------------------------------------------------------------------
Init ==
  /\ vpn = "Disconnected" /\ cur = NoObject
  /\ objs = [o \in Objects |-> NoProtocol]
  /\ stack = <<>> /\ todo = <<>>
  /\ live = {}
  /\ inbox = [s \in Sockets |-> <<>>] /\ outbox = [s \in Sockets |-> <<>>]
  /\ daemon \in InitialService
  /\ counts = [reconnects |-> 0, crashes |-> 0, nested |-> 0]

ClientNext(o) == ReadData(o) \/ SocketLost(o) \/ RetryTimer(o)

\* A slot that has begun goes on to the next event loop.
SlotNext == Stop \/ Reset \/ Destroy \/ Create \/ Start

Next ==
  \/ ConnectToVpn \/ DisconnectFromVpn \/ ReconnectToVpn
  \/ SlotNext \/ Return
  \/ \E o \in Objects : ClientNext(o)
  \/ \E s \in Sockets : DaemonReads(s)
  \/ HandshakeDone \/ DaemonCrash \/ DaemonStarts

Spec == Init /\ [][Next]_vars

\* The event loops of both processes run, the service answers the calls the
\* client waits for or they time out, and a reachable server completes a
\* handshake.
Fairness ==
  /\ WF_vars(SlotNext) /\ WF_vars(Return)
  /\ \A o \in Objects : WF_vars(ClientNext(o))
  /\ \A s \in Sockets : WF_vars(DaemonReads(s))
  /\ WF_vars(HandshakeDone) /\ WF_vars(DaemonStarts)

FairSpec == Spec /\ Fairness

-----------------------------------------------------------------------------
(* Properties.                                                             *)

\* Every variable has its type.
TypeOK ==
  /\ vpn \in VpnState
  /\ cur \in Objects \cup {NoObject}
  /\ objs \in [Objects -> Protocol \cup {NoProtocol}]
  /\ stack \in Seq(Call)
  /\ todo \in Tasks
  /\ live \subseteq Sockets
  /\ inbox \in [Sockets -> Seq({"status", "activate", "deactivate"})]
  /\ outbox \in [Sockets -> Seq({"status", "connected", "disconnected"})]
  /\ daemon \in {"down", "idle", "pending", "up"}
  /\ counts \in [reconnects: 0 .. MaxReconnects, crashes: 0 .. MaxCrashes,
             nested: 0 .. MaxNested]

\* No slot runs or waits: the thread is in its outermost event loop.
Settled == stack = <<>> /\ todo = <<>>

\* Whatever was handled in nested event loops before, and in which order the
\* calls on top of each other returned: once they are all over, Connecting has
\* a session object that has not reported yet, so that its report is not taken
\* for a repetition; Disconnecting has no object left; and no object lives that
\* m_vpnProtocol does not point to, whose reports would still come in.
ViewsSettle ==
  Settled =>
    /\ vpn = "Connecting" => cur # NoObject /\ objs[cur].st = "Unknown"
    /\ vpn = "Disconnecting" => cur = NoObject
    /\ \A o \in Objects : objs[o] # NoProtocol => o = cur

\* A connection attempt ends, unless the service crashes, when the service reads
\* what a closed socket left before what a newer one sends: nobody waits for a
\* reply that was dropped, nor for a call that nested requests have overtaken.
AttemptEnds == vpn = "Connecting" ~> vpn # "Connecting" \/ counts.crashes > 0

-----------------------------------------------------------------------------
(* What the repository says of the client, refuted by the code.            *)

\* docs/tunnelcore-ui-redesign.md has the control of the home page show the
\* "live connection state": a client that shows Connected has a session.
ShowsLiveState == Settled /\ vpn = "Connected" => cur # NoObject
=============================================================================
