-------------------------- MODULE VpnClientProofs ---------------------------
(***************************************************************************)
(* The types of the client, and that its views settle: for any number of   *)
(* sockets, protocol objects, calls on top of each other, requests in      *)
(* nested event loops, retries, network changes and crashes.               *)
(*                                                                         *)
(* ViewsSettle speaks of the moments in which no slot runs or waits.  The  *)
(* invariant adds what holds in between: which objects exist while a       *)
(* destructor waits, what a slot has still to do while the client shows    *)
(* Connecting or Disconnecting, and that stop() finds an object.           *)
(***************************************************************************)
EXTENDS VpnClient, TLAPS, SequenceTheorems

Commands == {"status", "activate", "deactivate"}
Replies  == {"status", "connected", "disconnected"}

-----------------------------------------------------------------------------
(* The inductive invariant.                                                *)

\* m_vpnProtocol points to an object that exists, and stop() has one.
Owned ==
  /\ cur # NoObject => objs[cur] # NoProtocol
  /\ todo # <<>> /\ Head(todo) = "stop" => cur # NoObject

\* A destructor that waits is the only one of its object, which exists and is
\* not m_vpnProtocol's any more.
Dying ==
  \A i \in DOMAIN stack : stack[i].dying # NoObject =>
    /\ stack[i].dying # cur /\ objs[stack[i].dying] # NoProtocol
    /\ \A j \in DOMAIN stack : stack[j].dying = stack[i].dying => j = i

\* At most one object waits for its destructor to begin, and that is next.
Dropped ==
  /\ todo = <<>> \/ Head(todo) # "destroy" => Unowned = {}
  /\ \A o, q \in Unowned : o = q

Opening == {<<"stop", "reset", "create", "start">>, <<"reset", "create", "start">>,
            <<"destroy", "create", "start">>, <<"create", "start">>}

\* With no call waiting, Connecting and Disconnecting belong to the slot that
\* has set them, which either has its essential steps before it or has done
\* them.
Progress ==
  stack = <<>> =>
    /\ vpn = "Connecting" =>
         \/ todo \in Opening
         \/ /\ todo \in {<<"destroy", "start">>, <<"start">>, <<>>}
            /\ cur # NoObject /\ objs[cur].st = "Unknown"
    /\ vpn = "Disconnecting" =>
         \/ todo \in {<<"stop", "reset">>, <<"reset">>}
         \/ todo \in {<<"destroy">>, <<>>} /\ cur = NoObject

Core == Owned /\ Dying /\ Dropped /\ Progress

Inv == TypeOK /\ Core

-----------------------------------------------------------------------------
(* What the helpers return.                                                *)

\* Writing to a socket, open or not, leaves the inboxes sequences of commands.
LEMMA WrittenIsTyped ==
  ASSUME TypeOK, NEW s, NEW msgs \in Seq(Commands)
  PROVE  Written(s, msgs) \in [Sockets -> Seq(Commands)]
  <1>1. inbox \in [Sockets -> Seq(Commands)] BY DEF TypeOK, Commands
  <1>2. CASE s \in live
    <2>1. s \in Sockets BY <1>2 DEF TypeOK
    <2>2. inbox[s] \o msgs \in Seq(Commands) BY <1>1, <2>1
    <2> QED BY <1>1, <1>2, <2>1, <2>2 DEF Written
  <1>3. CASE s \notin live BY <1>1, <1>3 DEF Written
  <1> QED BY <1>2, <1>3

\* A broadcast leaves the outboxes sequences of replies.
LEMMA DeliveredIsTyped ==
  ASSUME TypeOK, NEW S, NEW msg \in Replies
  PROVE  Delivered(S, msg) \in [Sockets -> Seq(Replies)]
  <1>1. outbox \in [Sockets -> Seq(Replies)] BY DEF TypeOK, Replies
  <1>2. \A s \in Sockets : Append(outbox[s], msg) \in Seq(Replies) BY <1>1
  <1> QED BY <1>1, <1>2 DEF Delivered

\* What a stopped protocol object writes are commands.
LEMMA DeactivateIsTyped == ASSUME NEW p PROVE DeactivateMsgs(p) \in Seq(Commands)
  <1>1. <<"deactivate">> \in Seq(Commands) /\ <<>> \in Seq(Commands) BY DEF Commands
  <1> QED BY <1>1 DEF DeactivateMsgs

\* The tasks one by one.
LEMMA TupleFacts ==
  /\ Head(<<"reset">>) = "reset" /\ Tail(<<"reset">>) = <<>>
  /\ Head(<<"restart">>) = "restart" /\ Tail(<<"restart">>) = <<>>
  /\ Head(<<"start">>) = "start" /\ Tail(<<"start">>) = <<>>
  /\ Head(<<"create", "start">>) = "create" /\ Tail(<<"create", "start">>) = <<"start">>
  /\ Head(<<"reset", "create", "start">>) = "reset" /\ Tail(<<"reset", "create", "start">>) = <<"create", "start">>
  /\ Head(<<"stop", "reset">>) = "stop" /\ Tail(<<"stop", "reset">>) = <<"reset">>
  /\ Head(<<"stop", "restart">>) = "stop" /\ Tail(<<"stop", "restart">>) = <<"restart">>
  /\ Head(<<"stop", "reset", "create", "start">>) = "stop" /\ Tail(<<"stop", "reset", "create", "start">>) = <<"reset", "create", "start">>
  /\ Head(<<"destroy">>) = "destroy" /\ Tail(<<"destroy">>) = <<>>
  /\ Head(<<"destroy", "start">>) = "destroy" /\ Tail(<<"destroy", "start">>) = <<"start">>
  /\ Head(<<"destroy", "create", "start">>) = "destroy" /\ Tail(<<"destroy", "create", "start">>) = <<"create", "start">>
  /\ <<"reset">> # <<>>
  /\ [<<"reset">> EXCEPT ![1] = "destroy"] = <<"destroy">>
  /\ [<<"create", "start">> EXCEPT ![1] = "destroy"] = <<"destroy", "start">>
  /\ [<<"reset", "create", "start">> EXCEPT ![1] = "destroy"] = <<"destroy", "create", "start">>
  <1>1. Head(<<"reset">>) = "reset" /\ Tail(<<"reset">>) = <<>> OBVIOUS
  <1>2. Head(<<"restart">>) = "restart" /\ Tail(<<"restart">>) = <<>> OBVIOUS
  <1>3. Head(<<"start">>) = "start" /\ Tail(<<"start">>) = <<>> OBVIOUS
  <1>4. Head(<<"create", "start">>) = "create" /\ Tail(<<"create", "start">>) = <<"start">> OBVIOUS
  <1>5. Head(<<"reset", "create", "start">>) = "reset" /\ Tail(<<"reset", "create", "start">>) = <<"create", "start">> OBVIOUS
  <1>6. Head(<<"stop", "reset">>) = "stop" /\ Tail(<<"stop", "reset">>) = <<"reset">> OBVIOUS
  <1>7. Head(<<"stop", "restart">>) = "stop" /\ Tail(<<"stop", "restart">>) = <<"restart">> OBVIOUS
  <1>8. Head(<<"stop", "reset", "create", "start">>) = "stop" /\ Tail(<<"stop", "reset", "create", "start">>) = <<"reset", "create", "start">> OBVIOUS
  <1>9. Head(<<"destroy">>) = "destroy" /\ Tail(<<"destroy">>) = <<>> OBVIOUS
  <1>10. Head(<<"destroy", "start">>) = "destroy" /\ Tail(<<"destroy", "start">>) = <<"start">> OBVIOUS
  <1>11. Head(<<"destroy", "create", "start">>) = "destroy" /\ Tail(<<"destroy", "create", "start">>) = <<"create", "start">> OBVIOUS
  <1>12. [<<"reset">> EXCEPT ![1] = "destroy"] = <<"destroy">> OBVIOUS
  <1>13. [<<"create", "start">> EXCEPT ![1] = "destroy"] = <<"destroy", "start">> OBVIOUS
  <1>14. [<<"reset", "create", "start">> EXCEPT ![1] = "destroy"]
           = <<"destroy", "create", "start">>
    OBVIOUS
  <1>15. <<"reset">> # <<>> OBVIOUS
  <1> QED BY <1>1, <1>2, <1>3, <1>4, <1>5, <1>6, <1>7, <1>8, <1>9, <1>10, <1>11, <1>12, <1>13, <1>14, <1>15

\* What follows the step a slot is at.
LEMMA TaskFacts ==
  ASSUME NEW t \in Tasks, t # <<>>
  PROVE  /\ Head(t) \in {"stop", "reset", "destroy", "create", "start", "restart"}
         /\ Head(t) = "stop" => Tail(t) \in Rests /\ Tail(t) # <<>>
                                /\ Head(Tail(t)) \in {"reset", "restart"}
         /\ Head(t) = "reset" => /\ Tail(t) \in {<<>>, <<"create", "start">>}
                                 /\ [t EXCEPT ![1] = "destroy"] \in Tasks
                                 /\ [t EXCEPT ![1] = "destroy"] # <<>>
                                 /\ Head([t EXCEPT ![1] = "destroy"]) = "destroy"
         /\ Head(t) = "destroy" => Tail(t) \in {<<>>, <<"start">>, <<"create", "start">>}
         /\ Head(t) = "create" => /\ Tail(t) = <<"start">>
                                  /\ [t EXCEPT ![1] = "destroy"] = <<"destroy", "start">>
         /\ Head(t) \in {"start", "restart"} => Tail(t) = <<>>
  <1>1. ASSUME t = <<"reset">>
       PROVE  Head(t) = "reset" /\ Tail(t) = <<>>
    BY <1>1
  <1>2. ASSUME t = <<"restart">>
       PROVE  Head(t) = "restart" /\ Tail(t) = <<>>
    BY <1>2
  <1>3. ASSUME t = <<"start">>
       PROVE  Head(t) = "start" /\ Tail(t) = <<>>
    BY <1>3
  <1>4. ASSUME t = <<"create", "start">>
       PROVE  Head(t) = "create" /\ Tail(t) = <<"start">>
    BY <1>4
  <1>5. ASSUME t = <<"reset", "create", "start">>
       PROVE  Head(t) = "reset" /\ Tail(t) = <<"create", "start">>
    BY <1>5
  <1>6. ASSUME t = <<"stop", "reset">>
       PROVE  Head(t) = "stop" /\ Tail(t) = <<"reset">>
    BY <1>6
  <1>7. ASSUME t = <<"stop", "restart">>
       PROVE  Head(t) = "stop" /\ Tail(t) = <<"restart">>
    BY <1>7
  <1>8. ASSUME t = <<"stop", "reset", "create", "start">>
       PROVE  Head(t) = "stop" /\ Tail(t) = <<"reset", "create", "start">>
    BY <1>8
  <1>9. ASSUME t = <<"destroy">>
       PROVE  Head(t) = "destroy" /\ Tail(t) = <<>>
    BY <1>9
  <1>10. ASSUME t = <<"destroy", "start">>
       PROVE  Head(t) = "destroy" /\ Tail(t) = <<"start">>
    BY <1>10
  <1>11. ASSUME t = <<"destroy", "create", "start">>
       PROVE  Head(t) = "destroy" /\ Tail(t) = <<"create", "start">>
    BY <1>11
  <1>12. [<<"reset">> EXCEPT ![1] = "destroy"] = <<"destroy">> OBVIOUS
  <1>13. [<<"create", "start">> EXCEPT ![1] = "destroy"] = <<"destroy", "start">> OBVIOUS
  <1>14. [<<"reset", "create", "start">> EXCEPT ![1] = "destroy"]
           = <<"destroy", "create", "start">>
    OBVIOUS
  <1>15. Head(<<"reset">>) = "reset" /\ Head(<<"restart">>) = "restart"
         /\ Head(<<"reset", "create", "start">>) = "reset"
         /\ Head(<<"destroy">>) = "destroy" /\ Head(<<"destroy", "create", "start">>) = "destroy"
    OBVIOUS
  <1>16. CASE t \in Rests BY <1>16, <1>1, <1>2, <1>3, <1>4, <1>5, <1>12, <1>13, <1>14, <1>15 DEF Rests, Tasks
  <1>17. CASE t \in {<<"stop", "reset">>, <<"stop", "restart">>,
                     <<"stop", "reset", "create", "start">>}
    <2>1. <<"reset">> # <<>> /\ <<"restart">> # <<>> /\ <<"reset", "create", "start">> # <<>>
      OBVIOUS
    <2>2. Head(t) = "stop" /\ Tail(t) \in {<<"reset">>, <<"restart">>, <<"reset", "create", "start">>}
      BY <1>17, <1>6, <1>7, <1>8
    <2>3. Tail(t) \in Rests /\ Tail(t) # <<>> /\ Head(Tail(t)) \in {"reset", "restart"}
      BY <2>1, <2>2, <1>15 DEF Rests
    <2> QED BY <2>2, <2>3
  <1>18. CASE t \in {<<"destroy">>, <<"destroy", "start">>, <<"destroy", "create", "start">>}
    BY <1>18, <1>9, <1>10, <1>11
  <1> QED BY <1>16, <1>17, <1>18 DEF Tasks

\* What is left after a step begins neither with stop() nor with a destructor.
LEMMA RestFacts ==
  ASSUME NEW t \in Rests
  PROVE  t \in Tasks /\ (t # <<>> => Head(t) \notin {"stop", "destroy"})
  BY DEF Rests, Tasks

\* A call put on the stack.
LEMMA PushFacts ==
  ASSUME NEW calls \in Seq(Call), NEW c \in Call
  PROVE  /\ Append(calls, c) \in Seq(Call) /\ Append(calls, c) # <<>>
         /\ DOMAIN Append(calls, c) = 1 .. Len(calls) + 1
         /\ DOMAIN calls = 1 .. Len(calls) /\ Len(calls) \in Nat
         /\ Append(calls, c)[Len(calls) + 1] = c
         /\ \A i \in DOMAIN calls : Append(calls, c)[i] = calls[i]
  OBVIOUS

\* The calls below the innermost one.
LEMMA PopFacts ==
  ASSUME NEW calls \in Seq(Call), calls # <<>>
  PROVE  /\ calls[Len(calls)] \in Call /\ Len(calls) \in DOMAIN calls
         /\ SubSeq(calls, 1, Len(calls) - 1) \in Seq(Call)
         /\ DOMAIN SubSeq(calls, 1, Len(calls) - 1) = 1 .. Len(calls) - 1
         /\ DOMAIN calls = 1 .. Len(calls) /\ Len(calls) \in Nat
         /\ \A i \in 1 .. Len(calls) - 1 :
              SubSeq(calls, 1, Len(calls) - 1)[i] = calls[i]
  <1>1. Len(calls) \in Nat /\ Len(calls) > 0 /\ DOMAIN calls = 1 .. Len(calls) OBVIOUS
  <1>2. \A i \in 1 .. Len(calls) : calls[i] \in Call BY <1>1
  <1>3. SubSeq(calls, 1, Len(calls) - 1) \in Seq(Call)
        /\ Len(SubSeq(calls, 1, Len(calls) - 1)) = Len(calls) - 1
    BY <1>1, <1>2
  <1>4. \A i \in 1 .. Len(calls) - 1 : SubSeq(calls, 1, Len(calls) - 1)[i] = calls[i]
    BY <1>1, <1>2
  <1> QED BY <1>1, <1>2, <1>3, <1>4

\* Taking an object out of the calls leaves them what they were otherwise.
LEMMA WithoutFacts ==
  ASSUME NEW calls \in Seq(Call), NEW o
  PROVE  /\ Without(calls, o) \in Seq(Call)
         /\ DOMAIN Without(calls, o) = DOMAIN calls
         /\ calls = <<>> <=> Without(calls, o) = <<>>
         /\ \A i \in DOMAIN calls : Without(calls, o)[i].dying = calls[i].dying
  <1>1. Len(calls) \in Nat /\ DOMAIN calls = 1 .. Len(calls) OBVIOUS
  <1>2. \A i \in 1 .. Len(calls) : calls[i] \in Call BY <1>1
  <1>3. \A i \in 1 .. Len(calls) :
          /\ [calls[i] EXCEPT !.by = Destroyed] \in Call
          /\ [calls[i] EXCEPT !.by = Destroyed].dying = calls[i].dying
    BY <1>2 DEF Call
  <1>4. Without(calls, o) \in [1 .. Len(calls) -> Call]
    BY <1>1, <1>2, <1>3 DEF Without
  <1>5. Without(calls, o) \in Seq(Call) BY <1>1, <1>4, SeqDef
  <1>6. DOMAIN Without(calls, o) = DOMAIN calls BY DEF Without
  <1>7. \A i \in DOMAIN calls : Without(calls, o)[i].dying = calls[i].dying
    BY <1>1, <1>3 DEF Without
  <1>8. calls = <<>> <=> Without(calls, o) = <<>>
    BY <1>1, <1>5, <1>6
  <1> QED BY <1>5, <1>6, <1>7, <1>8

\* What the updates of a protocol object leave is a protocol object.
LEMMA UpdatesAreTyped ==
  ASSUME NEW p \in Protocol
  PROVE  /\ p.retry + 1 \in Nat /\ p.retry + 2 \in Nat
         /\ \A st \in {"Unknown", "Connected", "Disconnected"} :
              /\ [p EXCEPT !.st = st] \in Protocol
              /\ [p EXCEPT !.st = st].st = st
         /\ [p EXCEPT !.retry = 0, !.st = "Disconnected"] \in Protocol
         /\ [p EXCEPT !.retry = 0, !.st = "Disconnected"].st = "Disconnected"
         /\ [p EXCEPT !.ctl = "Ready", !.sock = NoSocket, !.retry = 0,
                      !.st = "Disconnected"] \in Protocol
  <1>1. p.retry + 1 \in Nat /\ p.retry + 2 \in Nat BY DEF Protocol
  <1>2. \A st \in {"Unknown", "Connected", "Disconnected"} :
          [p EXCEPT !.st = st] \in Protocol /\ [p EXCEPT !.st = st].st = st
    BY DEF Protocol
  <1>3. /\ [p EXCEPT !.retry = 0, !.st = "Disconnected"] \in Protocol
        /\ [p EXCEPT !.retry = 0, !.st = "Disconnected"].st = "Disconnected"
    BY DEF Protocol
  <1>4. [p EXCEPT !.ctl = "Ready", !.sock = NoSocket, !.retry = 0,
                  !.st = "Disconnected"] \in Protocol
    BY DEF Protocol
  <1> QED BY <1>1, <1>2, <1>3, <1>4

-----------------------------------------------------------------------------
(* Steps that leave the rest of the invariant alone.                       *)

\* The objects that exist are the same before and after.
SameObjects == \A o \in Objects : objs'[o] = NoProtocol <=> objs[o] = NoProtocol

\* A step that puts nothing on the stack and takes nothing from a slot.
LEMMA CoreKept ==
  ASSUME Inv, UNCHANGED <<vpn, cur, stack, todo>>, SameObjects,
         cur # NoObject => objs'[cur].st = objs[cur].st
  PROVE  Core'
  <1>1. \A i \in DOMAIN stack : stack[i] \in Call BY DEF Inv, TypeOK
  <1>2. \A i \in DOMAIN stack : stack[i].dying \in Objects \cup {NoObject}
    BY <1>1 DEF Call
  <1>3. cur \in Objects \cup {NoObject} BY DEF Inv, TypeOK
  <1>4. Owned' BY <1>3 DEF Inv, Core, Owned, SameObjects
  <1>5. Dying' BY <1>2 DEF Inv, Core, Dying, SameObjects
  <1>6. Unowned' = Unowned BY DEF Unowned, SameObjects
  <1>7. Dropped' BY <1>6 DEF Inv, Core, Dropped
  <1>8. Progress' BY DEF Inv, Core, Progress
  <1> QED BY <1>4, <1>5, <1>7, <1>8 DEF Core

\* A step that ends in a wait.
LEMMA CoreWaits ==
  ASSUME Inv, UNCHANGED <<vpn, cur>>, SameObjects,
         NEW c \in Call, c.dying = NoObject, stack' = Append(stack, c), todo' = <<>>,
         todo = <<>> \/ Head(todo) # "destroy"
  PROVE  Core'
  <1>0. stack \in Seq(Call) BY DEF Inv, TypeOK
  <1>1. /\ DOMAIN stack' = 1 .. Len(stack) + 1 /\ stack' # <<>>
        /\ DOMAIN stack = 1 .. Len(stack) /\ Len(stack) \in Nat
        /\ stack'[Len(stack) + 1] = c
        /\ \A i \in DOMAIN stack : stack'[i] = stack[i]
    BY <1>0, PushFacts
  <1>2. \A i \in DOMAIN stack : stack[i].dying \in Objects \cup {NoObject}
    <2>1. \A i \in DOMAIN stack : stack[i] \in Call BY <1>0
    <2> QED BY <2>1 DEF Call
  <1>3. cur \in Objects \cup {NoObject} BY DEF Inv, TypeOK
  <1>4. Owned' BY <1>3 DEF Inv, Core, Owned, SameObjects
  <1>5. \A i \in DOMAIN stack' :
          \/ i \in DOMAIN stack /\ stack'[i] = stack[i]
          \/ i = Len(stack) + 1 /\ stack'[i].dying = NoObject
    BY <1>1
  <1>6. Dying'
    <2> SUFFICES ASSUME NEW i \in DOMAIN stack', stack'[i].dying # NoObject
                 PROVE  /\ stack'[i].dying # cur' /\ objs'[stack'[i].dying] # NoProtocol
                        /\ \A j \in DOMAIN stack' : stack'[j].dying = stack'[i].dying => j = i
      BY DEF Dying
    <2>1. i \in DOMAIN stack /\ stack'[i] = stack[i] BY <1>5
    <2>2. /\ stack[i].dying # cur /\ objs[stack[i].dying] # NoProtocol
          /\ \A j \in DOMAIN stack : stack[j].dying = stack[i].dying => j = i
      BY <2>1 DEF Inv, Core, Dying
    <2>3. \A j \in DOMAIN stack' : stack'[j].dying = stack'[i].dying => j = i
      BY <1>5, <2>1, <2>2
    <2> QED BY <1>2, <2>1, <2>2, <2>3 DEF SameObjects
  <1>7. Unowned' = Unowned
    <2>1. NoObject \notin Objects BY DEF Objects, NoObject
    <2>2. \A o \in Objects : (\A i \in DOMAIN stack' : stack'[i].dying # o)
                              <=> (\A i \in DOMAIN stack : stack[i].dying # o)
      BY <1>1, <1>5, <2>1
    <2> QED BY <2>2 DEF Unowned, SameObjects
  <1>8. Unowned = {} BY DEF Inv, Core, Dropped
  <1>9. Dropped' BY <1>7, <1>8 DEF Dropped
  <1>10. Progress' BY <1>1 DEF Progress
  <1> QED BY <1>4, <1>6, <1>9, <1>10 DEF Core

\* A report leaves types, whether it waits or not.
LEMMA ReportIsTyped ==
  ASSUME TypeOK, NEW o \in Objects, NEW p \in Protocol, p.st # "Unknown",
         NEW by \in Objects \cup {NoObject}, NEW dying \in Objects \cup {NoObject},
         NEW then \in Rests, Report(o, p, by, dying, then)
  PROVE  /\ objs' \in [Objects -> Protocol \cup {NoProtocol}]
         /\ stack' \in Seq(Call) /\ todo' \in Tasks
  <1>1. objs' \in [Objects -> Protocol \cup {NoProtocol}] BY DEF Report, TypeOK
  <1>2. CASE objs[o].st # p.st
    <2>1. p.st \in {"Connected", "Disconnected"} BY DEF Protocol
    <2>2. [to |-> p.st, then |-> then, by |-> by, dying |-> dying] \in Call
      BY <2>1 DEF Call
    <2>3. stack' = Append(stack, [to |-> p.st, then |-> then, by |-> by, dying |-> dying])
          /\ todo' = <<>>
      BY <1>2 DEF Report, Wait
    <2>4. stack' \in Seq(Call) BY <2>2, <2>3, PushFacts DEF TypeOK
    <2>5. <<>> \in Tasks BY DEF Tasks, Rests
    <2> QED BY <1>1, <2>3, <2>4, <2>5
  <1>3. CASE objs[o].st = p.st
    BY <1>1, <1>3, RestFacts DEF Report, TypeOK
  <1> QED BY <1>2, <1>3

\* A report of an object's own handler.
LEMMA ReportKeepsCore ==
  ASSUME Inv, NEW o \in Objects, objs[o] # NoProtocol,
         NEW p \in Protocol, p.st # "Unknown", todo = <<>>,
         Report(o, p, o, NoObject, <<>>), UNCHANGED <<vpn, cur>>
  PROVE  Core'
  <1>1. objs \in [Objects -> Protocol \cup {NoProtocol}] BY DEF Inv, TypeOK
  <1>2. objs' = [objs EXCEPT ![o] = p] BY DEF Report
  <1>3. SameObjects BY <1>1, <1>2, NoProtocolAssumption DEF SameObjects
  <1>4. CASE objs[o].st # p.st
    <2>1. p.st \in {"Connected", "Disconnected"} BY DEF Protocol
    <2> DEFINE c == [to |-> p.st, then |-> <<>>, by |-> o, dying |-> NoObject]
    <2>2. c \in Call /\ c.dying = NoObject
      BY <2>1 DEF Call, Rests
    <2>3. stack' = Append(stack, c) /\ todo' = <<>> BY <1>4 DEF Report, Wait
    <2> HIDE DEF c
    <2> QED BY <1>3, <2>2, <2>3, CoreWaits
  <1>5. CASE objs[o].st = p.st
    <2>1. UNCHANGED <<stack, todo>> BY <1>5 DEF Report
    <2>2. cur # NoObject => objs'[cur].st = objs[cur].st
      BY <1>1, <1>2, <1>5 DEF Inv, TypeOK
    <2> QED BY <1>3, <2>1, <2>2, CoreKept
  <1> QED BY <1>4, <1>5

\* The same for the whole invariant: the handler leaves the sockets typed.
LEMMA ReportStepKeeps ==
  ASSUME Inv, NEW o \in Objects, objs[o] # NoProtocol,
         NEW p \in Protocol, p.st # "Unknown", todo = <<>>,
         Report(o, p, o, NoObject, <<>>), outbox' \in [Sockets -> Seq(Replies)],
         UNCHANGED <<vpn, cur, live, inbox, daemon, counts>>
  PROVE  Inv'
  <1>1. <<>> \in Rests BY DEF Rests
  <1>2. /\ objs' \in [Objects -> Protocol \cup {NoProtocol}]
        /\ stack' \in Seq(Call) /\ todo' \in Tasks
    BY <1>1, ReportIsTyped DEF Inv
  <1>3. TypeOK' BY <1>2 DEF Inv, TypeOK, Replies
  <1>4. Core' BY ReportKeepsCore
  <1> QED BY <1>3, <1>4 DEF Inv

-----------------------------------------------------------------------------
(* One lemma per action.                                                   *)

\* A request leaves the counts in their bounds.
LEMMA RequestIsTyped ==
  ASSUME TypeOK, NEW again \in 0 .. MaxReconnects, Request(again)
  PROVE  counts' \in [reconnects: 0 .. MaxReconnects, crashes: 0 .. MaxCrashes,
                      nested: 0 .. MaxNested]
  <1>1. CASE stack = <<>>
    BY <1>1 DEF Request, TypeOK
  <1>2. CASE stack # <<>>
    <2>1. counts.nested + 1 \in 0 .. MaxNested BY <1>2, BoundsAreNaturals DEF Request, TypeOK
    <2> QED BY <1>2, <2>1 DEF Request, TypeOK
  <1> QED BY <1>1, <1>2

\* A connect leaves the slot its essential steps.
LEMMA ConnectKeeps == ASSUME Inv, ConnectToVpn PROVE Inv'
  <1>1. counts.reconnects \in 0 .. MaxReconnects BY DEF Inv, TypeOK
  <1>2. counts' \in [reconnects: 0 .. MaxReconnects, crashes: 0 .. MaxCrashes,
                     nested: 0 .. MaxNested]
    BY <1>1, RequestIsTyped DEF Inv, ConnectToVpn
  <1>3. todo = <<>> BY DEF ConnectToVpn, Request, InLoop
  <1>4. /\ todo' \in Tasks /\ todo' \in Opening
        /\ todo' # <<>> /\ Head(todo') = "stop" => cur # NoObject
        /\ Head(todo') # "destroy"
    BY TupleFacts DEF ConnectToVpn, Tasks, Rests, Opening
  <1>5. TypeOK' BY <1>2, <1>4 DEF Inv, TypeOK, ConnectToVpn, VpnState, wires
  <1>6. UNCHANGED <<cur, objs, stack>> BY DEF ConnectToVpn
  <1>7. Owned' /\ Dying' BY <1>4, <1>6 DEF Inv, Core, Owned, Dying
  <1>8. Dropped' BY <1>3, <1>6 DEF Inv, Core, Dropped, Unowned
  <1>9. Progress' BY <1>4 DEF Progress, ConnectToVpn
  <1> QED BY <1>5, <1>7, <1>8, <1>9 DEF Inv, Core

\* A disconnect stops the object there is, or waits at once.
LEMMA DisconnectKeeps == ASSUME Inv, DisconnectFromVpn PROVE Inv'
  <1>1. counts.reconnects \in 0 .. MaxReconnects BY DEF Inv, TypeOK
  <1>2. counts' \in [reconnects: 0 .. MaxReconnects, crashes: 0 .. MaxCrashes,
                     nested: 0 .. MaxNested]
    BY <1>1, RequestIsTyped DEF Inv, DisconnectFromVpn
  <1>3. todo = <<>> BY DEF DisconnectFromVpn, Request, InLoop
  <1>4. UNCHANGED <<cur, objs, live, inbox, outbox, daemon>> BY DEF DisconnectFromVpn, wires
  <1>5. CASE cur = NoObject
    <2> DEFINE c == [to |-> "Disconnected", then |-> <<>>, by |-> NoObject, dying |-> NoObject]
    <2>1. c \in Call /\ c.dying = NoObject BY DEF Call, Rests
    <2>2. stack' = Append(stack, c) /\ todo' = <<>> /\ vpn' = vpn
      BY <1>5 DEF DisconnectFromVpn, Wait
    <2> HIDE DEF c
    <2>3. stack' \in Seq(Call) BY <2>1, <2>2, PushFacts DEF Inv, TypeOK
    <2>4. <<>> \in Tasks BY DEF Tasks, Rests
    <2>5. TypeOK' BY <1>2, <1>4, <2>2, <2>3, <2>4 DEF Inv, TypeOK
    <2>6. SameObjects BY <1>4 DEF SameObjects
    <2> QED BY <1>3, <1>4, <2>1, <2>2, <2>5, <2>6, CoreWaits DEF Inv
  <1>6. CASE cur # NoObject
    <2>1. vpn' = "Disconnecting" /\ todo' = <<"stop", "reset">> /\ stack' = stack
      BY <1>6 DEF DisconnectFromVpn
    <2>2. todo' \in Tasks BY <2>1 DEF Tasks
    <2>3. TypeOK' BY <1>2, <1>4, <2>1, <2>2 DEF Inv, TypeOK, VpnState
    <2>4. Owned' /\ Dying' BY <1>4, <1>6, <2>1 DEF Inv, Core, Owned, Dying
    <2>5. Dropped' BY <1>3, <1>4, <2>1 DEF Inv, Core, Dropped, Unowned
    <2>6. Progress' BY <2>1 DEF Progress
    <2> QED BY <2>3, <2>4, <2>5, <2>6 DEF Inv, Core
  <1> QED BY <1>5, <1>6

\* A reconnect stops the object it has found.
LEMMA ReconnectKeeps == ASSUME Inv, ReconnectToVpn PROVE Inv'
  <1>1. counts.reconnects + 1 \in 0 .. MaxReconnects
    BY BoundsAreNaturals DEF Inv, TypeOK, ReconnectToVpn
  <1>2. counts' \in [reconnects: 0 .. MaxReconnects, crashes: 0 .. MaxCrashes,
                     nested: 0 .. MaxNested]
    BY <1>1, RequestIsTyped DEF Inv, ReconnectToVpn
  <1>3. todo = <<>> BY DEF ReconnectToVpn, Request, InLoop
  <1>4. /\ UNCHANGED <<cur, objs, stack, live, inbox, outbox, daemon>> /\ cur # NoObject
        /\ vpn' = "Reconnecting" /\ todo' = <<"stop", "restart">>
    BY DEF ReconnectToVpn, wires
  <1>5. todo' \in Tasks BY <1>4 DEF Tasks
  <1>6. TypeOK' BY <1>2, <1>4, <1>5 DEF Inv, TypeOK, VpnState
  <1>7. Owned' /\ Dying' BY <1>4 DEF Inv, Core, Owned, Dying
  <1>8. Dropped' BY <1>3, <1>4 DEF Inv, Core, Dropped, Unowned
  <1>9. Progress' BY <1>4 DEF Progress
  <1> QED BY <1>6, <1>7, <1>8, <1>9 DEF Inv, Core

\* stop() of an object that is there; what follows is a reset or a restart.
LEMMA StopKeeps == ASSUME Inv, Stop PROVE Inv'
  <1>1. /\ todo \in Tasks /\ todo # <<>> /\ Head(todo) = "stop"
        /\ cur \in Objects /\ objs[cur] \in Protocol
    BY DEF Inv, TypeOK, Core, Owned, Stop
  <1>2. Tail(todo) \in Rests /\ Tail(todo) # <<>> /\ Head(Tail(todo)) \in {"reset", "restart"}
    BY <1>1, TaskFacts
  <1> DEFINE p == [objs[cur] EXCEPT !.st = "Disconnected"]
  <1>3. p \in Protocol /\ p.st = "Disconnected" BY <1>1, UpdatesAreTyped
  <1>4. Report(cur, p, NoObject, NoObject, Tail(todo)) BY DEF Stop
  <1>5. UNCHANGED <<vpn, cur, live, outbox, daemon, counts>> BY DEF Stop
  <1>6. DeactivateMsgs(objs[cur]) \in Seq(Commands) BY DeactivateIsTyped
  <1>7. inbox' \in [Sockets -> Seq(Commands)] BY <1>6, WrittenIsTyped DEF Inv, Stop
  <1> HIDE DEF p
  <1>8. /\ objs' \in [Objects -> Protocol \cup {NoProtocol}]
        /\ stack' \in Seq(Call) /\ todo' \in Tasks
    BY <1>1, <1>2, <1>3, <1>4, ReportIsTyped DEF Inv
  <1>9. TypeOK' BY <1>5, <1>7, <1>8 DEF Inv, TypeOK, Commands
  <1>10. objs' = [objs EXCEPT ![cur] = p] BY <1>4 DEF Report
  <1>11. SameObjects BY <1>1, <1>3, <1>10, NoProtocolAssumption DEF SameObjects, Inv, TypeOK
  <1>12. CASE objs[cur].st # p.st
    <2> DEFINE c == [to |-> p.st, then |-> Tail(todo), by |-> NoObject, dying |-> NoObject]
    <2>1. c \in Call /\ c.dying = NoObject BY <1>2, <1>3 DEF Call
    <2>2. stack' = Append(stack, c) /\ todo' = <<>> BY <1>4, <1>12 DEF Report, Wait
    <2> HIDE DEF c
    <2> QED BY <1>1, <1>5, <1>9, <1>11, <2>1, <2>2, CoreWaits DEF Inv
  <1>13. CASE objs[cur].st = p.st
    <2>1. todo' = Tail(todo) /\ stack' = stack BY <1>4, <1>13 DEF Report
    <2>2. Owned'
      BY <1>1, <1>2, <1>5, <1>11, <2>1 DEF Inv, Core, Owned, SameObjects
    <2>3. \A i \in DOMAIN stack : stack[i].dying \in Objects \cup {NoObject}
      <3>1. \A i \in DOMAIN stack : stack[i] \in Call BY DEF Inv, TypeOK
      <3> QED BY <3>1 DEF Call
    <2>4. Dying' BY <1>5, <1>11, <2>1, <2>3 DEF Inv, Core, Dying, SameObjects
    <2>5. Unowned' = Unowned BY <1>5, <1>11, <2>1 DEF Unowned, SameObjects
    <2>6. Dropped' BY <1>1, <1>2, <2>1, <2>5 DEF Inv, Core, Dropped
    <2>7. Progress'
      <3> SUFFICES ASSUME stack' = <<>> PROVE
             /\ vpn' = "Connecting" => todo' \in Opening
             /\ vpn' = "Disconnecting" => todo' \in {<<"stop", "reset">>, <<"reset">>}
        BY DEF Progress
      <3>1. ASSUME vpn = "Connecting" PROVE todo' \in Opening
        <4>1. todo \in Opening \/ todo \in {<<"destroy", "start">>, <<"start">>, <<>>}
          BY <2>1, <3>1 DEF Inv, Core, Progress
        <4>2. todo = <<"stop", "reset", "create", "start">>
          BY <1>1, <4>1, TupleFacts DEF Opening
        <4> QED BY <2>1, <4>2, TupleFacts DEF Opening
      <3>2. ASSUME vpn = "Disconnecting" PROVE todo' = <<"reset">>
        <4>1. todo \in {<<"stop", "reset">>, <<"reset">>} \/ todo \in {<<"destroy">>, <<>>}
          BY <2>1, <3>2 DEF Inv, Core, Progress
        <4>2. todo = <<"stop", "reset">> BY <1>1, <4>1, TupleFacts
        <4> QED BY <2>1, <4>2, TupleFacts
      <3> QED BY <1>5, <3>1, <3>2
    <2> QED BY <1>9, <2>2, <2>4, <2>6, <2>7 DEF Inv, Core
  <1> QED BY <1>12, <1>13

\* The object that the pointer drops is destroyed next.
LEMMA ResetKeeps == ASSUME Inv, Reset PROVE Inv'
  <1>1. /\ todo \in Tasks /\ todo # <<>> /\ Head(todo) = "reset"
        /\ cur' = NoObject /\ UNCHANGED <<vpn, objs, stack, live, inbox, outbox, daemon, counts>>
    BY DEF Inv, TypeOK, Reset, wires
  <1>2. /\ Tail(todo) \in {<<>>, <<"create", "start">>}
        /\ [todo EXCEPT ![1] = "destroy"] \in Tasks /\ [todo EXCEPT ![1] = "destroy"] # <<>>
        /\ Head([todo EXCEPT ![1] = "destroy"]) = "destroy"
    BY <1>1, TaskFacts
  <1>3. todo' = IF cur = NoObject THEN Tail(todo) ELSE [todo EXCEPT ![1] = "destroy"]
    BY DEF Reset
  <1>4. todo' \in Tasks /\ (todo' # <<>> => Head(todo') \in {"create", "destroy"})
    BY <1>2, <1>3, TupleFacts DEF Tasks, Rests
  <1>5. TypeOK' BY <1>1, <1>4 DEF Inv, TypeOK
  <1>6. Owned' BY <1>1, <1>4 DEF Owned
  <1>7. Dying'
    <2>1. NoObject \notin Objects BY DEF Objects, NoObject
    <2> QED BY <1>1 DEF Inv, Core, Dying
  <1>8. Dropped'
    <2>1. Unowned = {} BY <1>1 DEF Inv, Core, Dropped
    <2>2. Unowned' \subseteq {cur} BY <1>1, <2>1 DEF Unowned
    <2>3. CASE cur = NoObject
      <3>1. Unowned' = {} BY <1>1, <2>1, <2>3 DEF Unowned
      <3> QED BY <3>1 DEF Dropped
    <2>4. CASE cur # NoObject BY <1>2, <1>3, <2>2, <2>4 DEF Dropped
    <2> QED BY <2>3, <2>4
  <1>9. Progress'
    <2> SUFFICES ASSUME stack = <<>> PROVE
           /\ vpn = "Connecting" => todo' \in Opening
           /\ vpn = "Disconnecting" => todo' \in {<<"destroy">>, <<>>}
      BY <1>1 DEF Progress
    <2>1. ASSUME vpn = "Connecting" PROVE todo' \in Opening
      <3>1. todo \in Opening \/ todo \in {<<"destroy", "start">>, <<"start">>, <<>>}
        BY <2>1 DEF Inv, Core, Progress
      <3>2. todo = <<"reset", "create", "start">>
        BY <1>1, <3>1, TupleFacts DEF Opening
      <3> QED BY <1>3, <3>2, TupleFacts DEF Opening
    <2>2. ASSUME vpn = "Disconnecting" PROVE todo' \in {<<"destroy">>, <<>>}
      <3>1. todo \in {<<"stop", "reset">>, <<"reset">>} \/ todo \in {<<"destroy">>, <<>>}
        BY <2>2 DEF Inv, Core, Progress
      <3>2. todo = <<"reset">> BY <1>1, <3>1, TupleFacts
      <3> QED BY <1>3, <3>2, TupleFacts
    <2> QED BY <2>1, <2>2
  <1> QED BY <1>5, <1>6, <1>7, <1>8, <1>9 DEF Inv, Core

\* An object that is freed: what is left of the types.
LEMMA FreeIsTyped ==
  ASSUME TypeOK, NEW o \in Objects, NEW calls \in Seq(Call), Free(o, calls)
  PROVE  /\ objs' \in [Objects -> Protocol \cup {NoProtocol}]
         /\ live' \subseteq Sockets /\ outbox' \in [Sockets -> Seq(Replies)]
         /\ stack' \in Seq(Call)
  <1>1. objs' \in [Objects -> Protocol \cup {NoProtocol}] BY DEF Free, TypeOK
  <1>2. live' \subseteq Sockets BY DEF Free, TypeOK
  <1>3. <<>> \in Seq(Replies) OBVIOUS
  <1>4. outbox' \in [Sockets -> Seq(Replies)] BY <1>3 DEF Free, TypeOK, Replies
  <1>5. stack' \in Seq(Call) BY WithoutFacts DEF Free
  <1> QED BY <1>1, <1>2, <1>4, <1>5

\* The destructor frees its object, or waits as the only one of it.
LEMMA DestroyKeeps == ASSUME Inv, Destroy PROVE Inv'
  <1>1. /\ todo \in Tasks /\ todo # <<>> /\ Head(todo) = "destroy"
        /\ UNCHANGED <<vpn, cur, daemon, counts>>
    BY DEF Inv, TypeOK, Destroy
  <1>2. Tail(todo) \in {<<>>, <<"start">>, <<"create", "start">>} BY <1>1, TaskFacts
  <1>3. Tail(todo) \in Rests BY <1>2 DEF Rests
  <1>4. Tail(todo) \in Tasks /\ (Tail(todo) # <<>> => Head(Tail(todo)) \notin {"stop", "destroy"})
    BY <1>3, RestFacts
  <1>5. PICK o \in Unowned :
          /\ inbox' = Written(objs[o].sock, DeactivateMsgs(objs[o]))
          /\ IF objs[o].st = "Disconnected"
             THEN Free(o, stack) /\ todo' = Tail(todo)
             ELSE /\ Report(o, [objs[o] EXCEPT !.st = "Disconnected"], NoObject, o, Tail(todo))
                  /\ UNCHANGED <<live, outbox>>
    BY DEF Destroy
  <1>6. o \in Objects /\ objs[o] \in Protocol /\ o # cur /\ o # NoObject
        /\ \A i \in DOMAIN stack : stack[i].dying # o
    BY DEF Unowned, Inv, TypeOK, Objects, NoObject
  <1>7. Unowned = {o} BY DEF Inv, Core, Dropped
  <1>8. inbox' \in [Sockets -> Seq(Commands)]
    BY <1>5, WrittenIsTyped, DeactivateIsTyped DEF Inv
  <1>9. stack \in Seq(Call) BY DEF Inv, TypeOK
  <1>10. \A i \in DOMAIN stack : stack[i].dying \in Objects \cup {NoObject}
    <2>1. \A i \in DOMAIN stack : stack[i] \in Call BY <1>9
    <2> QED BY <2>1 DEF Call
  <1>11. objs \in [Objects -> Protocol \cup {NoProtocol}] /\ cur \in Objects \cup {NoObject}
    BY DEF Inv, TypeOK
  <1>12. CASE objs[o].st = "Disconnected"
    <2>1. Free(o, stack) /\ todo' = Tail(todo) BY <1>5, <1>12
    <2>2. TypeOK'
      BY <1>1, <1>4, <1>6, <1>8, <1>9, <2>1, FreeIsTyped DEF Inv, TypeOK, Commands, Replies
    <2>3. /\ DOMAIN stack' = DOMAIN stack /\ (stack' = <<>> <=> stack = <<>>)
          /\ \A i \in DOMAIN stack : stack'[i].dying = stack[i].dying
      BY <1>9, <2>1, WithoutFacts DEF Free
    <2>4. objs' = [objs EXCEPT ![o] = NoProtocol] BY <2>1 DEF Free
    <2>5. Owned' BY <1>1, <1>4, <1>6, <1>11, <2>1, <2>4 DEF Inv, Core, Owned
    <2>6. Dying' BY <1>1, <1>6, <1>10, <1>11, <2>3, <2>4 DEF Inv, Core, Dying
    <2>7. Unowned' = {} BY <1>1, <1>7, <1>11, <2>3, <2>4 DEF Unowned
    <2>8. Dropped' BY <2>7 DEF Dropped
    <2>9. Progress'
      <3> SUFFICES ASSUME stack = <<>> PROVE
             /\ vpn = "Connecting" =>
                  \/ todo' \in Opening
                  \/ todo' = <<"start">> /\ cur # NoObject /\ objs'[cur].st = "Unknown"
             /\ vpn = "Disconnecting" => todo' = <<>> /\ cur = NoObject
        BY <1>1, <2>3 DEF Progress
      <3>1. ASSUME vpn = "Connecting"
            PROVE  \/ todo' \in Opening
                   \/ todo' = <<"start">> /\ cur # NoObject /\ objs'[cur].st = "Unknown"
        <4>1. \/ todo \in Opening
              \/ /\ todo \in {<<"destroy", "start">>, <<"start">>, <<>>}
                 /\ cur # NoObject /\ objs[cur].st = "Unknown"
          BY <3>1 DEF Inv, Core, Progress
        <4>2. \/ todo = <<"destroy", "create", "start">>
              \/ todo = <<"destroy", "start">> /\ cur # NoObject /\ objs[cur].st = "Unknown"
          BY <1>1, <4>1, TupleFacts DEF Opening
        <4>3. cur # NoObject => objs'[cur] = objs[cur] BY <1>6, <1>11, <2>4
        <4> QED BY <2>1, <4>2, <4>3, TupleFacts DEF Opening
      <3>2. ASSUME vpn = "Disconnecting" PROVE todo' = <<>> /\ cur = NoObject
        <4>1. \/ todo \in {<<"stop", "reset">>, <<"reset">>}
              \/ todo \in {<<"destroy">>, <<>>} /\ cur = NoObject
          BY <3>2 DEF Inv, Core, Progress
        <4>2. todo = <<"destroy">> /\ cur = NoObject BY <1>1, <4>1, TupleFacts
        <4> QED BY <2>1, <4>2, TupleFacts
      <3> QED BY <3>1, <3>2
    <2> QED BY <2>2, <2>5, <2>6, <2>8, <2>9 DEF Inv, Core
  <1>13. CASE objs[o].st # "Disconnected"
    <2> DEFINE p == [objs[o] EXCEPT !.st = "Disconnected"]
               c == [to |-> "Disconnected", then |-> Tail(todo), by |-> NoObject, dying |-> o]
    <2>1. p \in Protocol /\ p.st = "Disconnected" BY <1>6, UpdatesAreTyped
    <2>2. Report(o, p, NoObject, o, Tail(todo)) /\ UNCHANGED <<live, outbox>> BY <1>5, <1>13
    <2>3. c \in Call /\ c.dying = o BY <1>3, <1>6 DEF Call
    <2> HIDE DEF p
    <2>4. /\ objs' \in [Objects -> Protocol \cup {NoProtocol}]
          /\ stack' \in Seq(Call) /\ todo' \in Tasks
      BY <1>3, <1>6, <2>1, <2>2, ReportIsTyped DEF Inv
    <2>5. TypeOK' BY <1>1, <1>8, <2>2, <2>4 DEF Inv, TypeOK, Commands
    <2>6. objs' = [objs EXCEPT ![o] = p] /\ stack' = Append(stack, c) /\ todo' = <<>>
      BY <1>13, <2>1, <2>2 DEF Report, Wait
    <2> HIDE DEF c
    <2>7. /\ DOMAIN stack' = 1 .. Len(stack) + 1 /\ stack' # <<>>
          /\ DOMAIN stack = 1 .. Len(stack) /\ Len(stack) \in Nat
          /\ stack'[Len(stack) + 1] = c
          /\ \A i \in DOMAIN stack : stack'[i] = stack[i]
      BY <1>9, <2>3, <2>6, PushFacts
    <2>8. \A i \in DOMAIN stack' :
            \/ i \in DOMAIN stack /\ stack'[i] = stack[i]
            \/ i = Len(stack) + 1 /\ stack'[i].dying = o
      BY <2>3, <2>7
    <2>9. SameObjects BY <1>6, <1>11, <2>1, <2>6, NoProtocolAssumption DEF SameObjects
    <2>10. Owned' BY <1>1, <1>11, <2>6, <2>9 DEF Inv, Core, Owned, SameObjects
    <2>11. Dying'
      <3> SUFFICES ASSUME NEW i \in DOMAIN stack', stack'[i].dying # NoObject
                   PROVE  /\ stack'[i].dying # cur' /\ objs'[stack'[i].dying] # NoProtocol
                          /\ \A j \in DOMAIN stack' : stack'[j].dying = stack'[i].dying => j = i
        BY DEF Dying
      <3>1. CASE i = Len(stack) + 1
        <4>1. stack'[i].dying = o BY <2>3, <2>7, <3>1
        <4>2. o # cur' /\ objs'[o] # NoProtocol
          BY <1>1, <1>6, <2>9, NoProtocolAssumption DEF SameObjects
        <4>3. \A j \in DOMAIN stack' : stack'[j].dying = o => j = i BY <1>6, <2>8, <3>1
        <4> QED BY <4>1, <4>2, <4>3
      <3>2. CASE i \in DOMAIN stack
        <4>1. stack'[i] = stack[i] BY <2>7, <3>2
        <4>2. /\ stack[i].dying # cur /\ objs[stack[i].dying] # NoProtocol
              /\ \A j \in DOMAIN stack : stack[j].dying = stack[i].dying => j = i
          BY <3>2, <4>1 DEF Inv, Core, Dying
        <4>3. stack[i].dying \in Objects /\ stack[i].dying # o BY <1>6, <1>10, <3>2, <4>1
        <4> QED BY <1>1, <2>8, <2>9, <4>1, <4>2, <4>3 DEF SameObjects
      <3> QED BY <2>8, <3>1, <3>2
    <2>12. Unowned' = {}
      <3>1. Len(stack) + 1 \in DOMAIN stack' BY <2>7
      <3>2. ASSUME NEW q \in Objects, q \in Unowned' PROVE q \in Unowned
        <4>1. objs'[q] # NoProtocol /\ q # cur' BY <3>2 DEF Unowned
        <4>2. \A i \in DOMAIN stack' : stack'[i].dying # q BY <3>2 DEF Unowned
        <4>3. \A i \in DOMAIN stack : i \in DOMAIN stack' /\ stack'[i] = stack[i] BY <2>7
        <4> QED BY <1>1, <2>9, <4>1, <4>2, <4>3 DEF Unowned, SameObjects
      <3>3. o \notin Unowned' BY <2>3, <2>7, <3>1 DEF Unowned
      <3>4. \A q \in Unowned' : q \in Objects BY DEF Unowned
      <3> QED BY <1>7, <3>2, <3>3, <3>4
    <2>13. Dropped' BY <2>12 DEF Dropped
    <2>14. Progress' BY <2>7 DEF Progress
    <2> QED BY <2>5, <2>10, <2>11, <2>13, <2>14 DEF Inv, Core
  <1> QED BY <1>12, <1>13

\* initializeInternal leaves types, and the call that waits, if any, is the
\* object's own.
LEMMA InitializeIsTyped ==
  ASSUME TypeOK, NEW o \in Objects, NEW p \in Protocol, NEW then \in Tasks,
         Initialize(o, p, then), then \in Rests \/ p.retry = 0
  PROVE  /\ objs' \in [Objects -> Protocol \cup {NoProtocol}]
         /\ stack' \in Seq(Call) /\ todo' \in Tasks
         /\ live' \subseteq Sockets /\ inbox' \in [Sockets -> Seq(Commands)]
         /\ \/ /\ UNCHANGED stack /\ todo' = then
               /\ \E q \in Protocol : q.st = p.st /\ objs' = [objs EXCEPT ![o] = q]
            \/ \E q \in Protocol : /\ q.st = "Disconnected" /\ p.retry # 0
                                   /\ Report(o, q, o, NoObject, then)
  <1>1. CASE daemon # "down"
    <2>1. PICK s \in Sockets \ live :
            /\ live' = live \cup {s}
            /\ inbox' = [inbox EXCEPT ![s] = <<"status">>]
            /\ objs' = [objs EXCEPT ![o] = [p EXCEPT !.ctl = "Initializing", !.sock = s]]
            /\ todo' = then /\ UNCHANGED stack
      BY <1>1 DEF Initialize
    <2>2. <<"status">> \in Seq(Commands) BY DEF Commands
    <2>3. inbox' \in [Sockets -> Seq(Commands)] BY <2>1, <2>2 DEF TypeOK, Commands
    <2> DEFINE q == [p EXCEPT !.ctl = "Initializing", !.sock = s]
    <2>4. q \in Protocol /\ q.st = p.st BY DEF Protocol
    <2>5. objs' = [objs EXCEPT ![o] = q] BY <2>1
    <2> HIDE DEF q
    <2>6. objs' \in [Objects -> Protocol \cup {NoProtocol}] BY <2>4, <2>5 DEF TypeOK
    <2> QED BY <2>1, <2>3, <2>4, <2>5, <2>6 DEF TypeOK
  <1>2. CASE daemon = "down" /\ p.retry < MaxRetry
    <2>1. /\ objs' = [objs EXCEPT ![o] = [p EXCEPT !.ctl = "Initializing", !.sock = NoSocket,
                                                  !.retry = p.retry + 1]]
          /\ todo' = then /\ UNCHANGED <<stack, live, inbox>>
      BY <1>2 DEF Initialize
    <2>r. PICK r \in Nat : r = p.retry + 1 BY UpdatesAreTyped
    <2> DEFINE q == [p EXCEPT !.ctl = "Initializing", !.sock = NoSocket, !.retry = r]
    <2>2. q \in Protocol /\ q.st = p.st BY DEF Protocol
    <2>3. objs' = [objs EXCEPT ![o] = q] BY <2>1, <2>r
    <2> HIDE DEF q
    <2>4. objs' \in [Objects -> Protocol \cup {NoProtocol}] BY <2>2, <2>3 DEF TypeOK
    <2> QED BY <2>1, <2>2, <2>3, <2>4 DEF TypeOK, Commands
  <1>3. CASE daemon = "down" /\ ~(p.retry < MaxRetry)
    <2> DEFINE q == [p EXCEPT !.ctl = "Ready", !.sock = NoSocket, !.retry = 0,
                              !.st = "Disconnected"]
    <2>1. Report(o, q, o, NoObject, then) /\ UNCHANGED <<live, inbox>>
      BY <1>3 DEF Initialize
    <2>2. q \in Protocol BY UpdatesAreTyped
    <2>3. q.st = "Disconnected" BY DEF Protocol
    <2>4. p.retry # 0 BY <1>3, BoundsAreNaturals
    <2> HIDE DEF q
    <2>5. /\ objs' \in [Objects -> Protocol \cup {NoProtocol}]
          /\ stack' \in Seq(Call) /\ todo' \in Tasks
      BY <2>1, <2>2, <2>3, <2>4, ReportIsTyped
    <2> QED BY <2>1, <2>2, <2>3, <2>4, <2>5 DEF TypeOK, Commands
  <1> QED BY <1>1, <1>2, <1>3

\* A new object does not report before it has been asked to start.
LEMMA CreateKeeps == ASSUME Inv, Create PROVE Inv'
  <1>1. /\ todo \in Tasks /\ todo # <<>> /\ Head(todo) = "create"
        /\ UNCHANGED <<vpn, outbox, daemon, counts>>
    BY DEF Inv, TypeOK, Create
  <1>2. Tail(todo) = <<"start">> /\ [todo EXCEPT ![1] = "destroy"] = <<"destroy", "start">>
    BY <1>1, TaskFacts
  <1> DEFINE then == IF cur = NoObject THEN <<"start">> ELSE <<"destroy", "start">>
  <1>3. PICK o \in Objects : objs[o] = NoProtocol /\ cur' = o /\ Initialize(o, NewProtocol, then)
    BY <1>2 DEF Create
  <1>4. NewProtocol \in Protocol /\ NewProtocol.retry = 0 /\ NewProtocol.st = "Unknown"
    BY DEF NewProtocol, Protocol
  <1>5. then \in Tasks BY DEF Tasks, Rests
  <1> HIDE DEF then
  <1>6. /\ objs' \in [Objects -> Protocol \cup {NoProtocol}]
        /\ stack' \in Seq(Call) /\ todo' \in Tasks
        /\ live' \subseteq Sockets /\ inbox' \in [Sockets -> Seq(Commands)]
    BY <1>3, <1>4, <1>5, InitializeIsTyped DEF Inv
  <1>7. /\ UNCHANGED stack /\ todo' = then
        /\ \E q \in Protocol : q.st = "Unknown" /\ objs' = [objs EXCEPT ![o] = q]
    BY <1>3, <1>4, <1>5, InitializeIsTyped DEF Inv
  <1>8. PICK q \in Protocol : q.st = "Unknown" /\ objs' = [objs EXCEPT ![o] = q] BY <1>7
  <1>9. TypeOK' BY <1>1, <1>3, <1>6 DEF Inv, TypeOK, Commands
  <1>10. objs \in [Objects -> Protocol \cup {NoProtocol}] /\ cur \in Objects \cup {NoObject}
    BY DEF Inv, TypeOK
  <1>11. todo' # <<>> /\ Head(todo') \in {"start", "destroy"}
    BY <1>7, TupleFacts DEF then
  <1>12. Owned' BY <1>3, <1>8, <1>10, <1>11, NoProtocolAssumption DEF Owned
  <1>13. \A i \in DOMAIN stack : stack[i].dying \in Objects \cup {NoObject}
    <2>1. \A i \in DOMAIN stack : stack[i] \in Call BY DEF Inv, TypeOK
    <2> QED BY <2>1 DEF Call
  <1>14. Dying' BY <1>3, <1>7, <1>8, <1>10, <1>13, NoProtocolAssumption DEF Inv, Core, Dying
  <1>15. Dropped'
    <2>1. Unowned = {} BY <1>1 DEF Inv, Core, Dropped
    <2>2. Unowned' \subseteq {cur} BY <1>3, <1>7, <1>8, <1>10, <2>1 DEF Unowned
    <2>3. CASE cur = NoObject
      <3>1. cur \notin Objects BY <2>3 DEF Objects, NoObject
      <3>2. Unowned' = {} BY <2>2, <3>1 DEF Unowned
      <3> QED BY <3>2 DEF Dropped
    <2>4. CASE cur # NoObject
      <3>1. Head(todo') = "destroy" BY <1>7, <2>4, TupleFacts DEF then
      <3> QED BY <1>11, <2>2, <3>1 DEF Dropped
    <2> QED BY <2>3, <2>4
  <1>16. Progress'
    <2>1. cur' # NoObject /\ objs'[cur'].st = "Unknown"
      BY <1>3, <1>8, <1>10 DEF Objects, NoObject
    <2>2. todo' \in {<<"destroy", "start">>, <<"start">>, <<>>} BY <1>7 DEF then
    <2>3. stack = <<>> => vpn # "Disconnecting"
      <3> SUFFICES ASSUME stack = <<>>, vpn = "Disconnecting" PROVE FALSE OBVIOUS
      <3>1. todo \in {<<"stop", "reset">>, <<"reset">>} \/ todo \in {<<"destroy">>, <<>>}
        BY DEF Inv, Core, Progress
      <3> QED BY <1>1, <3>1, TupleFacts
    <2> QED BY <1>1, <1>7, <2>1, <2>2, <2>3 DEF Progress
  <1> QED BY <1>9, <1>12, <1>14, <1>15, <1>16 DEF Inv, Core

\* After a crash there is a fresh client.
LEMMA CrashKeeps == ASSUME Inv, Crash PROVE Inv'
  <1>1. /\ vpn' = "Disconnected" /\ cur' = NoObject /\ objs' = [o \in Objects |-> NoProtocol]
        /\ stack' = <<>> /\ todo' = <<>> /\ live' = {}
        /\ outbox' = [s \in Sockets |-> <<>>] /\ UNCHANGED <<inbox, daemon, counts>>
    BY DEF Crash
  <1>2. <<>> \in Seq(Replies) /\ <<>> \in Seq(Call) /\ <<>> \in Tasks
    BY DEF Tasks, Rests
  <1>3. TypeOK' BY <1>1, <1>2 DEF Inv, TypeOK, VpnState, Replies
  <1>4. Owned' BY <1>1 DEF Owned
  <1>5. DOMAIN stack' = {} BY <1>1
  <1>6. Dying' BY <1>5 DEF Dying
  <1>7. Unowned' = {} BY <1>1 DEF Unowned
  <1>8. Dropped' BY <1>7 DEF Dropped
  <1>9. Progress' BY <1>1 DEF Progress
  <1> QED BY <1>3, <1>4, <1>6, <1>8, <1>9 DEF Inv, Core

\* start() of the object, or the error paths of a pointer that is null.
LEMMA StartKeeps == ASSUME Inv, Start PROVE Inv'
  <1>1. todo \in Tasks /\ todo # <<>> /\ Head(todo) \in {"start", "restart"}
    BY DEF Inv, TypeOK, Start
  <1>2. Tail(todo) = <<>> BY <1>1, TaskFacts
  <1>3. <<>> \in Tasks BY DEF Tasks, Rests
  <1>4. CASE /\ cur # NoObject
             /\ inbox' = Written(objs[cur].sock, <<"activate">>)
             /\ todo' = Tail(todo)
             /\ UNCHANGED <<vpn, cur, objs, stack, live, outbox, daemon, counts>>
    <2>1. <<"activate">> \in Seq(Commands) BY DEF Commands
    <2>2. inbox' \in [Sockets -> Seq(Commands)] BY <1>4, <2>1, WrittenIsTyped DEF Inv
    <2>3. TypeOK' BY <1>2, <1>3, <1>4, <2>2 DEF Inv, TypeOK, Commands
    <2>4. Owned' /\ Dying' BY <1>2, <1>4 DEF Inv, Core, Owned, Dying
    <2>5. Dropped' BY <1>1, <1>4 DEF Inv, Core, Dropped, Unowned
    <2>6. Progress'
      <3> SUFFICES ASSUME stack = <<>> PROVE
             /\ vpn = "Connecting" => cur # NoObject /\ objs[cur].st = "Unknown"
             /\ vpn = "Disconnecting" => cur = NoObject
        BY <1>2, <1>4 DEF Progress
      <3>1. ASSUME vpn = "Connecting" PROVE cur # NoObject /\ objs[cur].st = "Unknown"
        <4>1. todo \notin Opening BY <1>1, TupleFacts DEF Opening
        <4> QED BY <3>1, <4>1 DEF Inv, Core, Progress
      <3>2. ASSUME vpn = "Disconnecting" PROVE cur = NoObject
        <4>1. todo \notin {<<"stop", "reset">>, <<"reset">>} BY <1>1, TupleFacts
        <4> QED BY <3>2, <4>1 DEF Inv, Core, Progress
      <3> QED BY <3>1, <3>2
    <2> QED BY <2>3, <2>4, <2>5, <2>6 DEF Inv, Core
  <1>5. CASE /\ cur = NoObject /\ Head(todo) = "start"
             /\ Wait("Error", NoObject, NoObject, <<>>)
             /\ UNCHANGED <<vpn, cur, objs, wires, daemon, counts>>
    <2> DEFINE c == [to |-> "Error", then |-> <<>>, by |-> NoObject, dying |-> NoObject]
    <2>1. c \in Call /\ c.dying = NoObject BY DEF Call, Rests
    <2>2. stack' = Append(stack, c) /\ todo' = <<>> BY <1>5 DEF Wait
    <2> HIDE DEF c
    <2>3. stack' \in Seq(Call) BY <2>1, <2>2, PushFacts DEF Inv, TypeOK
    <2>4. TypeOK' BY <1>3, <1>5, <2>2, <2>3 DEF Inv, TypeOK, wires
    <2>5. SameObjects BY <1>5 DEF SameObjects
    <2> QED BY <1>1, <1>5, <2>1, <2>2, <2>4, <2>5, CoreWaits DEF Inv
  <1>6. CASE cur = NoObject /\ Head(todo) = "restart" /\ Crash BY <1>6, CrashKeeps
  <1> QED BY <1>4, <1>5, <1>6 DEF Start

\* A call that returns never stores Connecting or Disconnecting, and frees an
\* object only that its own destructor holds.
LEMMA ReturnKeeps == ASSUME Inv, Return PROVE Inv'
  <1> DEFINE top == stack[Len(stack)]
             rest == SubSeq(stack, 1, Len(stack) - 1)
  <1>1. todo = <<>> /\ stack # <<>> /\ stack \in Seq(Call) BY DEF Inv, TypeOK, Return
  <1>2. /\ top \in Call /\ Len(stack) \in DOMAIN stack /\ rest \in Seq(Call)
        /\ DOMAIN rest = 1 .. Len(stack) - 1 /\ DOMAIN stack = 1 .. Len(stack)
        /\ Len(stack) \in Nat
        /\ \A i \in 1 .. Len(stack) - 1 : rest[i] = stack[i]
    BY <1>1, PopFacts
  <1>3. CASE top.by = Destroyed /\ Crash BY <1>3, CrashKeeps
  <1>4. CASE /\ vpn' = Stored(top.to) /\ todo' = top.then
             /\ IF top.dying = NoObject
                THEN stack' = rest /\ UNCHANGED <<objs, live, outbox>>
                ELSE Free(top.dying, rest)
             /\ UNCHANGED <<cur, inbox, daemon, counts>>
    <2>1. /\ top.then \in Rests /\ top.dying \in Objects \cup {NoObject}
          /\ top.to \in {"Connected", "Disconnected", "Error"}
      BY <1>2 DEF Call
    <2>2. vpn' \in {"Connected", "Disconnected", "Error", "Reconnecting"}
      BY <1>4, <2>1 DEF Stored
    <2>3. todo' \in Tasks /\ (todo' # <<>> => Head(todo') \notin {"stop", "destroy"})
      BY <1>4, <2>1, RestFacts
    <2>4. objs \in [Objects -> Protocol \cup {NoProtocol}] /\ cur \in Objects \cup {NoObject}
      BY DEF Inv, TypeOK
    <2>5. /\ stack' \in Seq(Call) /\ DOMAIN stack' = 1 .. Len(stack) - 1
          /\ \A i \in 1 .. Len(stack) - 1 : stack'[i].dying = stack[i].dying
          /\ \A q \in Objects : objs'[q] = IF q = top.dying THEN NoProtocol ELSE objs[q]
          /\ TypeOK'
      <3>1. CASE top.dying = NoObject
        <4>1. stack' = rest /\ UNCHANGED <<objs, live, outbox>> BY <1>4, <3>1
        <4>2. NoObject \notin Objects BY DEF Objects, NoObject
        <4>3. TypeOK' BY <1>2, <1>4, <2>2, <2>3, <4>1 DEF Inv, TypeOK, VpnState
        <4> QED BY <1>2, <2>4, <3>1, <4>1, <4>2, <4>3
      <3>2. CASE top.dying # NoObject
        <4> HIDE DEF rest, top
        <4>1. Free(top.dying, rest) /\ top.dying \in Objects BY <1>4, <2>1, <3>2
        <4>2. stack' = Without(rest, top.dying) /\ objs' = [objs EXCEPT ![top.dying] = NoProtocol]
          BY <4>1 DEF Free
        <4>3. /\ objs' \in [Objects -> Protocol \cup {NoProtocol}]
              /\ live' \subseteq Sockets /\ outbox' \in [Sockets -> Seq(Replies)]
              /\ stack' \in Seq(Call)
          BY <1>2, <4>1, FreeIsTyped DEF Inv
        <4>4. TypeOK' BY <1>4, <2>2, <2>3, <4>3 DEF Inv, TypeOK, VpnState, Replies
        <4>5. /\ DOMAIN stack' = DOMAIN rest
              /\ \A i \in DOMAIN rest : stack'[i].dying = rest[i].dying
          BY <1>2, <4>2, WithoutFacts
        <4> QED BY <1>2, <2>4, <4>2, <4>3, <4>4, <4>5
      <3> QED BY <3>1, <3>2
    <2>6. \A i \in DOMAIN stack : stack[i].dying \in Objects \cup {NoObject}
      <3>1. \A i \in DOMAIN stack : stack[i] \in Call BY <1>1
      <3> QED BY <3>1 DEF Call
    <2>7. \A i \in DOMAIN stack : stack[i].dying # NoObject =>
            /\ stack[i].dying # cur /\ objs[stack[i].dying] # NoProtocol
            /\ \A j \in DOMAIN stack : stack[j].dying = stack[i].dying => j = i
      BY DEF Inv, Core, Dying
    <2>8. \A i \in 1 .. Len(stack) - 1 : i \in DOMAIN stack /\ i # Len(stack) BY <1>2
    <2>9. Owned'
      BY <1>2, <1>4, <2>3, <2>4, <2>5, <2>7 DEF Inv, Core, Owned, NoObject, Objects
    <2>10. Dying'
      <3> SUFFICES ASSUME NEW i \in DOMAIN stack', stack'[i].dying # NoObject
                   PROVE  /\ stack'[i].dying # cur' /\ objs'[stack'[i].dying] # NoProtocol
                          /\ \A j \in DOMAIN stack' : stack'[j].dying = stack'[i].dying => j = i
        BY DEF Dying
      <3>1. i \in DOMAIN stack /\ i # Len(stack) /\ stack'[i].dying = stack[i].dying
        BY <2>5, <2>8
      <3>2. stack[i].dying \in Objects /\ stack[i].dying # top.dying
        BY <1>2, <2>6, <2>7, <3>1
      <3> QED BY <1>4, <2>5, <2>7, <2>8, <3>1, <3>2
    <2>11. Unowned' = {}
      <3>1. Unowned = {} BY <1>1 DEF Inv, Core, Dropped
      <3>2. SUFFICES ASSUME NEW q \in Objects, q \in Unowned' PROVE FALSE BY DEF Unowned
      <3>3. objs'[q] # NoProtocol /\ q # cur BY <1>4, <3>2 DEF Unowned
      <3>4. objs[q] # NoProtocol /\ q # top.dying BY <2>5, <3>3
      <3>5. PICK i \in DOMAIN stack : stack[i].dying = q BY <3>1, <3>3, <3>4 DEF Unowned
      <3>6. i \in DOMAIN stack' /\ stack'[i].dying = q BY <1>2, <2>5, <3>4, <3>5
      <3> QED BY <3>2, <3>6 DEF Unowned
    <2>12. Dropped' BY <2>11 DEF Dropped
    <2>13. Progress' BY <2>2 DEF Progress
    <2> QED BY <2>5, <2>9, <2>10, <2>12, <2>13 DEF Inv, Core
  <1> QED BY <1>3, <1>4 DEF Return

\* What the socket brings changes an object, or makes it report.
LEMMA ReadDataKeeps == ASSUME Inv, NEW o \in Objects, ReadData(o) PROVE Inv'
  <1>1. /\ todo = <<>> /\ objs[o] # NoProtocol /\ objs[o].sock \in Sockets
        /\ objs[o] \in Protocol /\ outbox[objs[o].sock] # <<>>
        /\ UNCHANGED <<vpn, cur, live, inbox, daemon, counts>>
        /\ objs \in [Objects -> Protocol \cup {NoProtocol}]
        /\ cur \in Objects \cup {NoObject}
    <2>1. objs[o] \in Protocol BY DEF Inv, TypeOK, ReadData
    <2> QED BY <2>1 DEF Inv, TypeOK, ReadData, InLoop, Protocol
  <1>2. outbox' \in [Sockets -> Seq(Replies)]
    <2>1. Tail(outbox[objs[o].sock]) \in Seq(Replies) BY <1>1 DEF Inv, TypeOK, Replies
    <2> QED BY <2>1 DEF ReadData, Inv, TypeOK, Replies
  <1>3. CASE UNCHANGED <<stack, todo>>
             /\ \E ctl \in {"Initializing", "Ready"} : objs' = [objs EXCEPT ![o].ctl = ctl]
    <2>1. PICK ctl \in {"Initializing", "Ready"} : objs' = [objs EXCEPT ![o].ctl = ctl]
      BY <1>3
    <2> DEFINE q == [objs[o] EXCEPT !.ctl = ctl]
    <2>2. q \in Protocol /\ q.st = objs[o].st BY <1>1 DEF Protocol
    <2>3. objs' = [objs EXCEPT ![o] = q] BY <1>1, <2>1
    <2> HIDE DEF q
    <2>4. TypeOK' BY <1>1, <1>2, <1>3, <2>2, <2>3 DEF Inv, TypeOK, Replies
    <2>5. SameObjects BY <1>1, <2>2, <2>3, NoProtocolAssumption DEF SameObjects
    <2>6. cur # NoObject => objs'[cur].st = objs[cur].st BY <1>1, <2>2, <2>3
    <2> QED BY <1>1, <1>3, <2>4, <2>5, <2>6, CoreKept DEF Inv
  <1>4. CASE \E p \in Protocol : p.st # "Unknown" /\ Report(o, p, o, NoObject, <<>>)
    BY <1>1, <1>2, <1>4, ReportStepKeeps
  <1>5. /\ [objs[o] EXCEPT !.retry = 0, !.st = "Disconnected"] \in Protocol
        /\ [objs[o] EXCEPT !.retry = 0, !.st = "Disconnected"].st = "Disconnected"
        /\ [objs[o] EXCEPT !.st = "Connected"] \in Protocol
        /\ [objs[o] EXCEPT !.st = "Connected"].st = "Connected"
    BY <1>1, UpdatesAreTyped
  <1>6. CASE /\ objs[o].ctl = "Initializing"
             /\ objs' = [objs EXCEPT ![o].ctl =
                           IF Head(outbox[objs[o].sock]) = "status" THEN "Ready" ELSE @]
             /\ UNCHANGED <<stack, todo>>
    BY <1>1, <1>3, <1>6
  <1> QED BY <1>4, <1>5, <1>6 DEF ReadData

\* A lost socket: another try, or a report.
LEMMA SocketLostKeeps == ASSUME Inv, NEW o \in Objects, SocketLost(o) PROVE Inv'
  <1>1. /\ todo = <<>> /\ objs[o] # NoProtocol /\ objs[o] \in Protocol
        /\ UNCHANGED <<vpn, cur, live, inbox, outbox, daemon, counts>>
        /\ objs \in [Objects -> Protocol \cup {NoProtocol}]
        /\ cur \in Objects \cup {NoObject}
    BY DEF Inv, TypeOK, SocketLost, InLoop, wires
  <1>2. outbox' \in [Sockets -> Seq(Replies)] BY <1>1 DEF Inv, TypeOK, Replies
  <1>3. CASE /\ objs' = [objs EXCEPT ![o] = [objs[o] EXCEPT !.sock = NoSocket, !.retry = @ + 2]]
             /\ UNCHANGED <<stack, todo>>
    <2>r. PICK r \in Nat : r = objs[o].retry + 2 BY <1>1, UpdatesAreTyped
    <2> DEFINE q == [objs[o] EXCEPT !.sock = NoSocket, !.retry = r]
    <2>1. q \in Protocol /\ q.st = objs[o].st BY <1>1 DEF Protocol
    <2>2. objs' = [objs EXCEPT ![o] = q] BY <1>3, <2>r
    <2> HIDE DEF q
    <2>3. TypeOK' BY <1>1, <1>3, <2>1, <2>2 DEF Inv, TypeOK
    <2>4. SameObjects BY <1>1, <2>1, <2>2, NoProtocolAssumption DEF SameObjects
    <2>5. cur # NoObject => objs'[cur].st = objs[cur].st BY <1>1, <2>1, <2>2
    <2> QED BY <1>1, <1>3, <2>3, <2>4, <2>5, CoreKept DEF Inv
  <1>4. CASE Report(o, [objs[o] EXCEPT !.sock = NoSocket, !.ctl = "Ready", !.retry = 0,
                                       !.st = "Disconnected"], o, NoObject, <<>>)
    <2> DEFINE q == [objs[o] EXCEPT !.sock = NoSocket, !.ctl = "Ready", !.retry = 0,
                                    !.st = "Disconnected"]
    <2>1. q \in Protocol /\ q.st = "Disconnected" BY <1>1 DEF Protocol
    <2>2. Report(o, q, o, NoObject, <<>>) BY <1>4
    <2> HIDE DEF q
    <2> QED BY <1>1, <1>2, <2>1, <2>2, ReportStepKeeps
  <1> QED BY <1>3, <1>4 DEF SocketLost

\* The retry timer: a socket, another try, or a report.
LEMMA RetryTimerKeeps == ASSUME Inv, NEW o \in Objects, RetryTimer(o) PROVE Inv'
  <1>1. /\ todo = <<>> /\ objs[o] # NoProtocol /\ objs[o] \in Protocol
        /\ Initialize(o, objs[o], <<>>) /\ UNCHANGED <<vpn, cur, outbox, daemon, counts>>
        /\ objs \in [Objects -> Protocol \cup {NoProtocol}]
        /\ cur \in Objects \cup {NoObject}
    BY DEF Inv, TypeOK, RetryTimer, InLoop
  <1>2. <<>> \in Rests /\ <<>> \in Tasks BY DEF Rests, Tasks
  <1>3. /\ objs' \in [Objects -> Protocol \cup {NoProtocol}]
        /\ stack' \in Seq(Call) /\ todo' \in Tasks
        /\ live' \subseteq Sockets /\ inbox' \in [Sockets -> Seq(Commands)]
        /\ \/ /\ UNCHANGED stack /\ todo' = <<>>
              /\ \E q \in Protocol : q.st = objs[o].st /\ objs' = [objs EXCEPT ![o] = q]
           \/ \E q \in Protocol : /\ q.st = "Disconnected" /\ objs[o].retry # 0
                                  /\ Report(o, q, o, NoObject, <<>>)
    BY <1>1, <1>2, InitializeIsTyped DEF Inv
  <1>4. TypeOK' BY <1>1, <1>3 DEF Inv, TypeOK, Commands
  <1>5. CASE /\ UNCHANGED stack /\ todo' = <<>>
             /\ \E q \in Protocol : q.st = objs[o].st /\ objs' = [objs EXCEPT ![o] = q]
    <2>1. PICK q \in Protocol : q.st = objs[o].st /\ objs' = [objs EXCEPT ![o] = q] BY <1>5
    <2>2. SameObjects BY <1>1, <2>1, NoProtocolAssumption DEF SameObjects
    <2>3. cur # NoObject => objs'[cur].st = objs[cur].st BY <1>1, <2>1
    <2> QED BY <1>1, <1>4, <1>5, <2>2, <2>3, CoreKept DEF Inv
  <1>6. CASE \E q \in Protocol : q.st = "Disconnected" /\ Report(o, q, o, NoObject, <<>>)
    BY <1>1, <1>4, <1>6, ReportKeepsCore DEF Inv
  <1> QED BY <1>3, <1>5, <1>6

\* The daemon touches its own state and the sockets only.
LEMMA DaemonKeeps ==
  ASSUME Inv, (\E s \in Sockets : DaemonReads(s)) \/ HandshakeDone \/ DaemonCrash \/ DaemonStarts
  PROVE  Inv'
  <1>1. UNCHANGED <<vpn, cur, objs, stack, todo>>
    BY DEF DaemonReads, HandshakeDone, DaemonCrash, DaemonStarts, client
  <1>2. Core'
    <2>1. SameObjects BY <1>1 DEF SameObjects
    <2> QED BY <1>1, <2>1, CoreKept
  <1>3. ASSUME NEW s \in Sockets, DaemonReads(s) PROVE TypeOK'
    <2>1. inbox' \in [Sockets -> Seq(Commands)] /\ UNCHANGED <<live, counts>>
      <3>1. Tail(inbox[s]) \in Seq(Commands) BY <1>3 DEF DaemonReads, Inv, TypeOK, Commands
      <3> QED BY <1>3, <3>1 DEF DaemonReads, Inv, TypeOK, Commands
    <2>2. outbox \in [Sockets -> Seq(Replies)] BY DEF Inv, TypeOK, Replies
    <2>3. "status" \in Replies /\ "disconnected" \in Replies BY DEF Replies
    <2>4. /\ Delivered({s}, "status") \in [Sockets -> Seq(Replies)]
          /\ Delivered({s}, "disconnected") \in [Sockets -> Seq(Replies)]
          /\ Delivered(Sockets, "disconnected") \in [Sockets -> Seq(Replies)]
      BY <2>3, DeliveredIsTyped DEF Inv
    <2>5. /\ outbox' \in [Sockets -> Seq(Replies)]
          /\ daemon' \in {"down", "idle", "pending", "up"}
      BY <1>3, <2>2, <2>4 DEF DaemonReads, ActivateMsg, Inv, TypeOK
    <2> QED BY <1>1, <2>1, <2>5 DEF Inv, TypeOK, Commands, Replies
  <1>4. CASE HandshakeDone
    <2>1. "connected" \in Replies BY DEF Replies
    <2>2. outbox' \in [Sockets -> Seq(Replies)]
      BY <1>4, <2>1, DeliveredIsTyped DEF HandshakeDone, Inv
    <2> QED BY <1>1, <1>2, <1>4, <2>2 DEF HandshakeDone, Inv, TypeOK, Replies
  <1>5. CASE DaemonCrash
    <2>1. counts' \in [reconnects: 0 .. MaxReconnects, crashes: 0 .. MaxCrashes,
                       nested: 0 .. MaxNested]
      <3>1. counts.crashes + 1 \in 0 .. MaxCrashes
        BY <1>5, BoundsAreNaturals DEF DaemonCrash, Inv, TypeOK
      <3> QED BY <1>5, <3>1 DEF DaemonCrash, Inv, TypeOK
    <2>2. <<>> \in Seq(Commands) OBVIOUS
    <2>3. inbox' \in [Sockets -> Seq(Commands)] BY <1>5, <2>2 DEF DaemonCrash
    <2> QED BY <1>1, <1>2, <1>5, <2>1, <2>3 DEF DaemonCrash, Inv, TypeOK, Commands
  <1>6. CASE DaemonStarts
    BY <1>1, <1>2, <1>6 DEF DaemonStarts, Inv, TypeOK, wires
  <1> QED BY <1>2, <1>3, <1>4, <1>5, <1>6 DEF Inv

-----------------------------------------------------------------------------
(* The theorems.                                                           *)

\* The invariant holds when the client starts.
LEMMA InitHolds == Init => Inv
  <1> SUFFICES ASSUME Init PROVE Inv OBVIOUS
  <1>1. <<>> \in Seq(Call) /\ <<>> \in Seq(Commands) /\ <<>> \in Seq(Replies) /\ <<>> \in Tasks
    BY DEF Tasks, Rests
  <1>2. counts \in [reconnects: 0 .. MaxReconnects, crashes: 0 .. MaxCrashes,
                    nested: 0 .. MaxNested]
    BY BoundsAreNaturals DEF Init
  <1>3. TypeOK
    BY <1>1, <1>2, ServiceAssumption DEF Init, TypeOK, VpnState, Commands, Replies
  <1>4. Owned /\ Progress BY DEF Init, Owned, Progress
  <1>5. DOMAIN stack = {} BY DEF Init
  <1>6. Dying BY <1>5 DEF Dying
  <1>7. Unowned = {} BY DEF Init, Unowned
  <1>8. Dropped BY <1>7 DEF Dropped
  <1> QED BY <1>3, <1>4, <1>6, <1>8 DEF Inv, Core

\* Every step keeps it.
LEMMA StepKeeps == Inv /\ [Next]_vars => Inv'
  <1> SUFFICES ASSUME Inv, [Next]_vars PROVE Inv' OBVIOUS
  <1>1. CASE ConnectToVpn BY <1>1, ConnectKeeps
  <1>2. CASE DisconnectFromVpn BY <1>2, DisconnectKeeps
  <1>3. CASE ReconnectToVpn BY <1>3, ReconnectKeeps
  <1>4. CASE SlotNext
    BY <1>4, StopKeeps, ResetKeeps, DestroyKeeps, CreateKeeps, StartKeeps DEF SlotNext
  <1>5. CASE Return BY <1>5, ReturnKeeps
  <1>6. CASE \E o \in Objects : ClientNext(o)
    BY <1>6, ReadDataKeeps, SocketLostKeeps, RetryTimerKeeps DEF ClientNext
  <1>7. CASE (\E s \in Sockets : DaemonReads(s)) \/ HandshakeDone \/ DaemonCrash \/ DaemonStarts
    BY <1>7, DaemonKeeps
  <1>8. CASE UNCHANGED vars
    BY <1>8 DEF vars, client, wires, Inv, TypeOK, Core, Owned, Dying, Dropped, Unowned, Progress
  <1> QED BY <1>1, <1>2, <1>3, <1>4, <1>5, <1>6, <1>7, <1>8 DEF Next

\* Types, for any number of sockets, objects, nested requests, retries,
\* network changes and crashes.
THEOREM ClientTypes == Spec => []TypeOK
  <1>1. Inv => TypeOK BY DEF Inv
  <1> QED BY <1>1, InitHolds, StepKeeps, PTL DEF Spec

\* The views settle, however the calls of setConnectionState were nested and
\* whatever the requests, the sockets and the service did meanwhile.
THEOREM ClientViewsSettle == Spec => []ViewsSettle
  <1>1. Inv => ViewsSettle
    <2> SUFFICES ASSUME Inv, Settled PROVE
           /\ vpn = "Connecting" => cur # NoObject /\ objs[cur].st = "Unknown"
           /\ vpn = "Disconnecting" => cur = NoObject
           /\ \A o \in Objects : objs[o] # NoProtocol => o = cur
      BY DEF ViewsSettle
    <2>1. stack = <<>> /\ todo = <<>> BY DEF Settled
    <2>2. <<>> \notin Opening /\ <<>> \notin {<<"stop", "reset">>, <<"reset">>} BY DEF Opening
    <2>3. DOMAIN stack = {} BY <2>1
    <2>4. Unowned = {} BY <2>1 DEF Inv, Core, Dropped
    <2>5. \A o \in Objects : objs[o] # NoProtocol => o = cur BY <2>3, <2>4 DEF Unowned
    <2> QED BY <2>1, <2>2, <2>5 DEF Inv, Core, Progress
  <1> QED BY <1>1, InitHolds, StepKeeps, PTL DEF Spec
=============================================================================
