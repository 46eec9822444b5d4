-------------------------- MODULE WebSocketHubProofs --------------------------
(***************************************************************************)
(* Proofs about WebSocketHub, for every set of connections and polls,      *)
(* every buffer size and every number of events.                           *)
(***************************************************************************)
EXTENDS WebSocketHub, SequenceTheorems, TLAPS

-----------------------------------------------------------------------------
(* Type correctness *)

LEMMA TypeInit == Init => TypeOK
<1> SUFFICES ASSUME Init PROVE TypeOK
  OBVIOUS
<1>1. <<>> \in Seq(Delivery) /\ <<>> \in Seq(Nat) /\ Len(<<>>) = 0
  OBVIOUS
<1>2. 0 \in 0..MaxEvents /\ 0 <= BufSize
  BY HubAssumption
<1> QED
  BY <1>1, <1>2 DEF Init, TypeOK, ServePC

\* The steps of ServePoll, with what they do to the pumps and bridges.
LEMMA ServeStepType ==
    ASSUME TypeOK, NEW c \in Conns, ServeStep(c)
    PROVE  TypeOK'
<1>0. /\ watch \in [Conns -> Polls] /\ pc \in [Conns -> ServePC]
      /\ clients \in [Polls -> SUBSET Conns]
      /\ subs \in [Polls -> Conns \union {NoSub}] /\ subsMu \in Conns \union {Free}
      /\ victim \in [Conns -> Conns \union {NoSub}] /\ open \in [Conns -> BOOLEAN]
      /\ writer \in [Conns -> {"off", "run", "exit"}]
      /\ bridge \in [Conns -> {"off", "run", "exit"}] /\ cancelled \in [Conns -> BOOLEAN]
  BY DEF TypeOK
<1>1. /\ watch' \in [Conns -> Polls] /\ pc' \in [Conns -> ServePC]
      /\ subsMu' \in Conns \union {Free} /\ UNCHANGED <<send, wire, inbox, event, todo, published>>
  BY <1>0 DEF ServeStep, Register, LockSubscriptions, Subscribed, SubscribeFailed, ReadClosed,
     Unregister, TakeSubscription, CancelSubscription, Awaited, StartPumps, Goto, ServePC,
     socketVars, bridgeVars
<1>2. /\ clients' \in [Polls -> SUBSET Conns] /\ subs' \in [Polls -> Conns \union {NoSub}]
      /\ victim' \in [Conns -> Conns \union {NoSub}]
  BY <1>0 DEF ServeStep, Register, LockSubscriptions, Subscribed, SubscribeFailed, ReadClosed,
     Unregister, TakeSubscription, CancelSubscription, Awaited
<1>3. open' \in [Conns -> BOOLEAN] /\ writer' \in [Conns -> {"off", "run", "exit"}]
  BY <1>0 DEF ServeStep, Register, LockSubscriptions, Subscribed, SubscribeFailed, ReadClosed,
     Unregister, TakeSubscription, CancelSubscription, Awaited, StartPumps, socketVars
<1>4. bridge' \in [Conns -> {"off", "run", "exit"}]
  BY <1>0 DEF ServeStep, Register, LockSubscriptions, Subscribed, SubscribeFailed, ReadClosed,
     Unregister, TakeSubscription, CancelSubscription, Awaited, bridgeVars
<1>5. cancelled' \in [Conns -> BOOLEAN]
  <2>1. CASE CancelSubscription(c)
    BY <1>0, <2>1 DEF CancelSubscription
  <2>2. CASE ~CancelSubscription(c)
    BY <1>0, <2>2 DEF ServeStep, Register, LockSubscriptions, Subscribed, SubscribeFailed,
       ReadClosed, Unregister, TakeSubscription, Awaited, bridgeVars
  <2> QED
    BY <2>1, <2>2
<1> QED
  BY <1>1, <1>2, <1>3, <1>4, <1>5 DEF TypeOK

LEMMA PumpStepType ==
    ASSUME TypeOK, NEW c \in Conns, PeerGone(c) \/ PingBreaks(c) \/ WriteStep(c)
    PROVE  TypeOK'
<1>0. /\ pc \in [Conns -> ServePC] /\ open \in [Conns -> BOOLEAN]
      /\ writer \in [Conns -> {"off", "run", "exit"}]
      /\ send \in [Conns -> Seq(Delivery)] /\ wire \in [Conns -> Seq(Delivery)]
      /\ \A d \in Conns : Len(send[d]) <= BufSize
  BY DEF TypeOK
<1>1. /\ UNCHANGED <<watch, clients, subs, subsMu, victim, bridgeVars, published>>
      /\ pc' \in [Conns -> ServePC] /\ open' \in [Conns -> BOOLEAN]
      /\ writer' \in [Conns -> {"off", "run", "exit"}]
  BY <1>0 DEF PeerGone, PingBreaks, WriteStep, WriteEvent, WriteFails, PingFails, Goto, ServePC, serveVars
<1>2. ASSUME send[c] # <<>>
      PROVE  /\ Tail(send[c]) \in Seq(Delivery) /\ Head(send[c]) \in Delivery
             /\ Len(Tail(send[c])) <= BufSize
  BY <1>0, <1>2, HubAssumption
<1>3. send' = send \/ (send[c] # <<>> /\ send' = [send EXCEPT ![c] = Tail(@)])
  BY DEF PeerGone, PingBreaks, WriteStep, WriteEvent, WriteFails, PingFails
<1>4. send' \in [Conns -> Seq(Delivery)] /\ \A d \in Conns : Len(send'[d]) <= BufSize
  BY <1>0, <1>2, <1>3
<1>5. wire' \in [Conns -> Seq(Delivery)]
  <2>1. wire' = wire \/ (send[c] # <<>> /\ wire' = [wire EXCEPT ![c] = Append(@, Head(send[c]))])
    BY DEF PeerGone, PingBreaks, WriteStep, WriteEvent, WriteFails, PingFails
  <2>2. send[c] # <<>> => Append(wire[c], Head(send[c])) \in Seq(Delivery)
    BY <1>0, <1>2
  <2> QED
    BY <1>0, <2>1, <2>2
<1> QED
  BY <1>1, <1>4, <1>5 DEF TypeOK, bridgeVars

LEMMA BridgeStepType ==
    ASSUME TypeOK, NEW s \in Conns, BridgeStep(s)
    PROVE  TypeOK'
<1>0. /\ watch \in [Conns -> Polls] /\ clients \in [Polls -> SUBSET Conns]
      /\ open \in [Conns -> BOOLEAN] /\ send \in [Conns -> Seq(Delivery)]
      /\ \A d \in Conns : Len(send[d]) <= BufSize
      /\ bridge \in [Conns -> {"off", "run", "exit"}]
      /\ inbox \in [Conns -> Seq(Nat)] /\ event \in [Conns -> Nat]
      /\ todo \in [Conns -> SUBSET Conns] /\ BufSize \in Nat
  BY HubAssumption DEF TypeOK
<1>1. CASE BeginBroadcast(s)
  <2>1. Head(inbox[s]) \in Nat /\ Tail(inbox[s]) \in Seq(Nat)
    BY <1>0, <1>1 DEF BeginBroadcast
  <2>2. /\ event' \in [Conns -> Nat] /\ inbox' \in [Conns -> Seq(Nat)]
        /\ todo' \in [Conns -> SUBSET Conns]
    BY <1>0, <1>1, <2>1 DEF BeginBroadcast
  <2> QED
    BY <1>1, <2>2 DEF BeginBroadcast, TypeOK, serveVars, socketVars
<1>2. CASE \E c \in Conns : SendTo(s, c)
  <2>1. PICK c \in Conns : SendTo(s, c)
    BY <1>2
  <2>2. /\ todo' \in [Conns -> SUBSET Conns] /\ open' \in [Conns -> BOOLEAN]
    BY <1>0, <2>1 DEF SendTo
  <2> DEFINE d == [from |-> s, poll |-> watch[s], n |-> event[s]]
  <2>3. d \in Delivery
    BY <1>0 DEF Delivery
  <2>4. send' = send \/ (Len(send[c]) < BufSize /\ send' = [send EXCEPT ![c] = Append(@, d)])
    BY <2>1 DEF SendTo
  <2>5. Len(send[c]) < BufSize =>
            Append(send[c], d) \in Seq(Delivery) /\ Len(Append(send[c], d)) <= BufSize
    BY <1>0, <2>3
  <2>6. send' \in [Conns -> Seq(Delivery)] /\ \A e \in Conns : Len(send'[e]) <= BufSize
    BY <1>0, <2>4, <2>5
  <2> QED
    BY <2>1, <2>2, <2>6 DEF SendTo, TypeOK, serveVars
<1>3. CASE EndBridge(s)
  <2>1. bridge' \in [Conns -> {"off", "run", "exit"}] /\ inbox' \in [Conns -> Seq(Nat)]
    BY <1>0, <1>3 DEF EndBridge
  <2> QED
    BY <1>3, <2>1 DEF EndBridge, TypeOK, serveVars, socketVars
<1> QED
  BY <1>1, <1>2, <1>3 DEF BridgeStep

LEMMA PublishType ==
    ASSUME TypeOK, NEW p \in Polls, PublishEvent(p)
    PROVE  TypeOK'
<1>0. /\ published \in [Polls -> 0..MaxEvents] /\ MaxEvents \in Nat
      /\ inbox \in [Conns -> Seq(Nat)] /\ event \in [Conns -> Nat]
  BY HubAssumption DEF TypeOK
<1>1. published' \in [Polls -> 0..MaxEvents]
  BY <1>0 DEF PublishEvent
<1>2. \A s \in Conns : Append(inbox[s], Received(s) + 1) \in Seq(Nat)
  BY <1>0 DEF Received
<1>3. inbox' \in [Conns -> Seq(Nat)]
  BY <1>0, <1>2 DEF PublishEvent
<1> QED
  BY <1>1, <1>3 DEF PublishEvent, TypeOK, serveVars, socketVars

LEMMA TypeStep == TypeOK /\ [Next]_vars => TypeOK'
<1>1. TypeOK /\ UNCHANGED vars => TypeOK'
  BY DEF TypeOK, vars, serveVars, socketVars, bridgeVars
<1> QED
  BY <1>1, ServeStepType, PumpStepType, BridgeStepType, PublishType DEF Next

\* The state of the hub stays well typed; in particular no send buffer ever
\* holds more than sendBufferSize events.
THEOREM TypeCorrect == Spec => []TypeOK
BY TypeInit, TypeStep, PTL DEF Spec

-----------------------------------------------------------------------------
(* The subscriptions *)

InHub == {"ensure", "subscribing", "serve", "unregister"}
Opening == {"register", "ensure", "subscribing"}

\* hub.clients holds the connections between Register and Unregister.
ClientsMatch ==
    \A p \in Polls, c \in Conns :
        c \in clients[p] <=> (watch[c] = p /\ pc[c] \in InHub)

\* subsMu is held across redis.Subscribe and by no other waiting goroutine,
\* and while it is held nobody adds a subscription for the poll.
MutexInv ==
    \A c \in Conns :
        /\ pc[c] = "subscribing" <=> subsMu = c
        /\ pc[c] = "subscribing" => subs[watch[c]] = NoSub

\* A subscription named by c exists only once c is past Subscribe; the one in
\* subs is running and not cancelled; a victim is in subs no more.
SubsInv ==
    /\ \A c \in Conns : pc[c] \in Opening => bridge[c] = "off" /\ ~cancelled[c]
    /\ \A p \in Polls, s \in Conns :
           subs[p] = s => watch[s] = p /\ Running(s) /\ ~cancelled[s]
    /\ \A c \in Conns : pc[c] = "cancel" =>
           /\ victim[c] \in Conns /\ bridge[victim[c]] # "off"
           /\ \A p \in Polls : subs[p] # victim[c]

HubInv ==
    /\ ClientsMatch /\ MutexInv /\ SubsInv
    /\ NoLeakedSubscription /\ NoOrphanBridge

LEMMA HubInit == Init => HubInv
BY HubAssumption
   DEF Init, HubInv, ClientsMatch, MutexInv, SubsInv, NoLeakedSubscription, NoOrphanBridge,
       Running, InHub, Opening

\* What the other steps leave alone.
Aside(c) ==
    /\ UNCHANGED <<watch, clients, subs, subsMu, victim, cancelled>>
    /\ \/ pc' = pc
       \/ pc[c] = "serve" /\ pc' = [pc EXCEPT ![c] = "unregister"]
       \/ pc[c] = "await" /\ pc' = [pc EXCEPT ![c] = "gone"]
    /\ \/ bridge' = bridge
       \/ cancelled[c] /\ bridge[c] = "run" /\ bridge' = [bridge EXCEPT ![c] = "exit"]

HubUnchanged == UNCHANGED <<serveVars, bridge, cancelled>>

LEMMA StepOnHub ==
    ASSUME [Next]_vars
    PROVE  \/ \E c \in Conns :
                  \/ Register(c) \/ LockSubscriptions(c)
                  \/ Subscribed(c) \/ SubscribeFailed(c)
                  \/ Unregister(c) \/ TakeSubscription(c) \/ CancelSubscription(c)
                  \/ Aside(c)
           \/ HubUnchanged
<1>1. ASSUME NEW c \in Conns,
             \/ ReadClosed(c) \/ Awaited(c) \/ PeerGone(c) \/ PingBreaks(c)
             \/ WriteStep(c) \/ BridgeStep(c)
      PROVE  Aside(c)
  BY <1>1 DEF ReadClosed, Awaited, PeerGone, PingBreaks, WriteStep, WriteEvent, WriteFails, PingFails,
     BridgeStep, BeginBroadcast, SendTo, EndBridge, Idle, Running, Goto, Aside, serveVars,
     bridgeVars
<1>2. (\E p \in Polls : PublishEvent(p)) \/ UNCHANGED vars => HubUnchanged
  BY DEF PublishEvent, HubUnchanged, vars, bridgeVars
<1> QED
  BY <1>1, <1>2 DEF Next, ServeStep

LEMMA HubStep == TypeOK /\ HubInv /\ [Next]_vars => HubInv'
<1> SUFFICES ASSUME TypeOK, HubInv, [Next]_vars PROVE HubInv'
  OBVIOUS
<1>0. /\ watch \in [Conns -> Polls] /\ pc \in [Conns -> ServePC]
      /\ clients \in [Polls -> SUBSET Conns]
      /\ subs \in [Polls -> Conns \union {NoSub}] /\ subsMu \in Conns \union {Free}
      /\ victim \in [Conns -> Conns \union {NoSub}]
      /\ bridge \in [Conns -> {"off", "run", "exit"}] /\ cancelled \in [Conns -> BOOLEAN]
      /\ NoSub \notin Conns /\ Free \notin Conns
  BY HubAssumption DEF TypeOK
<1> USE <1>0 DEF HubInv
<1>1. ASSUME NEW c \in Conns, Register(c) PROVE HubInv'
  <2>1. /\ pc[c] = "register" /\ UNCHANGED <<watch, subs, subsMu, victim, bridge, cancelled>>
        /\ clients' = [clients EXCEPT ![watch[c]] = @ \union {c}]
        /\ \E to \in {"ensure", "serve"} : pc' = [pc EXCEPT ![c] = to]
    BY <1>1 DEF Register, StartPumps, Goto, bridgeVars
  <2>2. ClientsMatch'
    BY <2>1 DEF ClientsMatch, InHub
  <2>3. MutexInv'
    BY <2>1 DEF MutexInv
  <2>4. SubsInv'
    BY <2>1 DEF SubsInv, Running, Opening
  <2>5. NoLeakedSubscription' /\ NoOrphanBridge'
    BY <2>1 DEF NoLeakedSubscription, NoOrphanBridge, Running
  <2> QED
    BY <2>2, <2>3, <2>4, <2>5
<1>2. ASSUME NEW c \in Conns, LockSubscriptions(c) PROVE HubInv'
  <2>1. /\ pc[c] = "ensure" /\ UNCHANGED <<watch, clients, subs, victim, bridge, cancelled>>
        /\ subsMu = Free
        /\ \/ pc' = [pc EXCEPT ![c] = "serve"] /\ subsMu' = subsMu
           \/ /\ pc' = [pc EXCEPT ![c] = "subscribing"] /\ subsMu' = c
              /\ subs[watch[c]] = NoSub
    BY <1>2 DEF LockSubscriptions, StartPumps, Goto, bridgeVars
  <2>2. ClientsMatch'
    BY <2>1 DEF ClientsMatch, InHub
  <2>3. MutexInv'
    BY <2>1 DEF MutexInv
  <2>4. SubsInv'
    BY <2>1 DEF SubsInv, Running, Opening
  <2>5. NoLeakedSubscription' /\ NoOrphanBridge'
    BY <2>1 DEF NoLeakedSubscription, NoOrphanBridge, Running
  <2> QED
    BY <2>2, <2>3, <2>4, <2>5
<1>3. ASSUME NEW c \in Conns, Subscribed(c) PROVE HubInv'
  <2>1. /\ pc[c] = "subscribing" /\ pc' = [pc EXCEPT ![c] = "serve"]
        /\ subs' = [subs EXCEPT ![watch[c]] = c] /\ subsMu' = Free
        /\ bridge' = [bridge EXCEPT ![c] = "run"]
        /\ UNCHANGED <<watch, clients, victim, cancelled>>
    BY <1>3 DEF Subscribed, StartPumps, Goto
  <2>2. bridge[c] = "off" /\ ~cancelled[c] /\ subs[watch[c]] = NoSub
    BY <2>1 DEF MutexInv, SubsInv, Opening
  <2>3. ClientsMatch'
    BY <2>1 DEF ClientsMatch, InHub
  <2>4. MutexInv'
    BY <2>1 DEF MutexInv
  <2>5. SubsInv'
    BY <2>1, <2>2 DEF SubsInv, Running, Opening
  <2>6. NoLeakedSubscription'
    BY <2>1 DEF NoLeakedSubscription, ClientsMatch, InHub
  <2>7. NoOrphanBridge'
    BY <2>1, <2>2 DEF NoOrphanBridge, Running
  <2> QED
    BY <2>3, <2>4, <2>5, <2>6, <2>7
<1>4. ASSUME NEW c \in Conns, SubscribeFailed(c) PROVE HubInv'
  <2>1. /\ pc[c] = "subscribing" /\ pc' = [pc EXCEPT ![c] = "serve"] /\ subsMu' = Free
        /\ UNCHANGED <<watch, clients, subs, victim, bridge, cancelled>>
    BY <1>4 DEF SubscribeFailed, StartPumps, Goto, bridgeVars
  <2>2. ClientsMatch'
    BY <2>1 DEF ClientsMatch, InHub
  <2>3. MutexInv'
    BY <2>1 DEF MutexInv
  <2>4. SubsInv'
    BY <2>1 DEF SubsInv, Running, Opening
  <2>5. NoLeakedSubscription' /\ NoOrphanBridge'
    BY <2>1 DEF NoLeakedSubscription, NoOrphanBridge, Running
  <2> QED
    BY <2>2, <2>3, <2>4, <2>5
<1>5. ASSUME NEW c \in Conns, Unregister(c) PROVE HubInv'
  <2>1. /\ pc[c] = "unregister" /\ UNCHANGED <<watch, subs, subsMu, victim, bridge, cancelled>>
        /\ clients' = [clients EXCEPT ![watch[c]] = @ \ {c}]
        /\ \/ clients[watch[c]] \subseteq {c} /\ pc' = [pc EXCEPT ![c] = "stop"]
           \/ ~(clients[watch[c]] \subseteq {c}) /\ pc' = [pc EXCEPT ![c] = "gone"]
    BY <1>5 DEF Unregister, Goto, bridgeVars
  <2>2. ClientsMatch'
    BY <2>1 DEF ClientsMatch, InHub
  <2>3. MutexInv'
    BY <2>1 DEF MutexInv
  <2>4. SubsInv'
    BY <2>1 DEF SubsInv, Running, Opening
  <2>5. NoLeakedSubscription'
    <3> SUFFICES ASSUME NEW p \in Polls, subs'[p] # NoSub, clients'[p] = {}
                 PROVE  \E d \in Conns : watch'[d] = p /\ pc'[d] = "stop"
      BY DEF NoLeakedSubscription
    <3>1. CASE p = watch[c]
      BY <2>1, <3>1
    <3>2. CASE p # watch[c]
      BY <2>1, <3>2 DEF NoLeakedSubscription
    <3> QED
      BY <3>1, <3>2
  <2>6. NoOrphanBridge'
    BY <2>1 DEF NoOrphanBridge, Running
  <2> QED
    BY <2>2, <2>3, <2>4, <2>5, <2>6
<1>6. ASSUME NEW c \in Conns, TakeSubscription(c) PROVE HubInv'
  <2>1. /\ pc[c] = "stop" /\ UNCHANGED <<watch, clients, subsMu, bridge, cancelled>>
        /\ subsMu = Free
        /\ subs' = [subs EXCEPT ![watch[c]] = NoSub]
        /\ victim' = [victim EXCEPT ![c] = subs[watch[c]]]
        /\ \/ subs[watch[c]] = NoSub /\ pc' = [pc EXCEPT ![c] = "gone"]
           \/ subs[watch[c]] # NoSub /\ pc' = [pc EXCEPT ![c] = "cancel"]
    BY <1>6 DEF TakeSubscription, Goto, bridgeVars
  <2>2. ClientsMatch'
    BY <2>1 DEF ClientsMatch, InHub
  <2>3. MutexInv'
    BY <2>1 DEF MutexInv
  <2>4. SubsInv'
    <3>1. \A d \in Conns : pc'[d] \in Opening => bridge'[d] = "off" /\ ~cancelled'[d]
      BY <2>1 DEF SubsInv, Opening
    <3>2. \A p \in Polls, s \in Conns :
              subs'[p] = s => watch'[s] = p /\ bridge'[s] = "run" /\ ~cancelled'[s]
      BY <2>1 DEF SubsInv, Running
    <3>3. ASSUME NEW d \in Conns, pc'[d] = "cancel"
          PROVE  /\ victim'[d] \in Conns /\ bridge'[victim'[d]] # "off"
                 /\ \A p \in Polls : subs'[p] # victim'[d]
      <4>1. CASE d = c
        BY <2>1, <3>3, <4>1 DEF SubsInv, Running
      <4>2. CASE d # c
        BY <2>1, <3>3, <4>2 DEF SubsInv
      <4> QED
        BY <4>1, <4>2
    <3> QED
      BY <3>1, <3>2, <3>3 DEF SubsInv, Running
  <2>5. NoLeakedSubscription'
    BY <2>1 DEF NoLeakedSubscription
  <2>6. NoOrphanBridge'
    <3> SUFFICES ASSUME NEW s \in Conns, bridge'[s] = "run", ~cancelled'[s]
                 PROVE  \/ subs'[watch'[s]] = s
                        \/ \E d \in Conns : pc'[d] = "cancel" /\ victim'[d] = s
      BY DEF NoOrphanBridge, Running
    <3>1. CASE subs[watch[s]] = s
      BY <2>1, <3>1
    <3>2. CASE \E d \in Conns : pc[d] = "cancel" /\ victim[d] = s
      BY <2>1, <3>2
    <3> QED
      BY <2>1, <3>1, <3>2 DEF NoOrphanBridge, Running
  <2> QED
    BY <2>2, <2>3, <2>4, <2>5, <2>6
<1>7. ASSUME NEW c \in Conns, CancelSubscription(c) PROVE HubInv'
  <2>1. /\ pc[c] = "cancel" /\ pc' = [pc EXCEPT ![c] = "await"]
        /\ cancelled' = [cancelled EXCEPT ![victim[c]] = TRUE]
        /\ UNCHANGED <<watch, clients, subs, subsMu, victim, bridge>>
    BY <1>7 DEF CancelSubscription, Goto
  <2>2. victim[c] \in Conns /\ bridge[victim[c]] # "off" /\ \A p \in Polls : subs[p] # victim[c]
    BY <2>1 DEF SubsInv
  <2>3. ClientsMatch'
    BY <2>1 DEF ClientsMatch, InHub
  <2>4. MutexInv'
    BY <2>1 DEF MutexInv
  <2>5. SubsInv'
    BY <2>1, <2>2 DEF SubsInv, Running, Opening
  <2>6. NoLeakedSubscription' /\ NoOrphanBridge'
    BY <2>1, <2>2 DEF NoLeakedSubscription, NoOrphanBridge, Running
  <2> QED
    BY <2>3, <2>4, <2>5, <2>6
<1>8. ASSUME NEW c \in Conns, Aside(c) PROVE HubInv'
  <2>1. ClientsMatch' /\ MutexInv'
    BY <1>8 DEF Aside, ClientsMatch, MutexInv, InHub
  <2>2. SubsInv'
    BY <1>8 DEF Aside, SubsInv, Running, Opening
  <2>3. NoLeakedSubscription' /\ NoOrphanBridge'
    BY <1>8 DEF Aside, NoLeakedSubscription, NoOrphanBridge, Running
  <2> QED
    BY <2>1, <2>2, <2>3
<1>9. CASE HubUnchanged
  BY <1>9 DEF HubUnchanged, serveVars, ClientsMatch, MutexInv, SubsInv, NoLeakedSubscription,
     NoOrphanBridge, Running
<1> QED
  BY <1>1, <1>2, <1>3, <1>4, <1>5, <1>6, <1>7, <1>8, <1>9, StepOnHub

LEMMA HubInvariant == Spec => []HubInv
BY TypeCorrect, HubInit, HubStep, PTL DEF Spec

\* No subscription outlives its viewers: a poll without clients has none, or
\* a goroutine is on its way to stop it.
THEOREM NoLeak == Spec => []NoLeakedSubscription
<1>1. HubInv => NoLeakedSubscription
  BY DEF HubInv
<1> QED
  BY <1>1, HubInvariant, PTL

\* Every bridging goroutine is the one in subs, or is being cancelled.
THEOREM NoOrphan == Spec => []NoOrphanBridge
<1>1. HubInv => NoOrphanBridge
  BY DEF HubInv
<1> QED
  BY <1>1, HubInvariant, PTL

-----------------------------------------------------------------------------
(* What reaches a browser *)

EventsOf(p) == {d \in Delivery : d.poll = p}

\* A Broadcast under way serves clients of its own poll, even those that have
\* unregistered meanwhile; what is buffered or written is of the poll too.
OwnInv ==
    /\ \A s, c \in Conns : c \in todo[s] => watch[c] = watch[s]
    /\ \A c \in Conns : send[c] \in Seq(EventsOf(watch[c]))
    /\ \A c \in Conns : wire[c] \in Seq(EventsOf(watch[c]))

LEMMA OwnInit == Init => OwnInv
<1>1. \A p : <<>> \in Seq(EventsOf(p))
  OBVIOUS
<1> QED
  BY <1>1 DEF Init, OwnInv

LEMMA OwnStep == TypeOK /\ HubInv /\ OwnInv /\ [Next]_vars => OwnInv'
<1> SUFFICES ASSUME TypeOK, HubInv, OwnInv, [Next]_vars PROVE OwnInv'
  OBVIOUS
<1>0. /\ todo \in [Conns -> SUBSET Conns] /\ watch \in [Conns -> Polls]
      /\ send \in [Conns -> Seq(Delivery)] /\ wire \in [Conns -> Seq(Delivery)]
      /\ event \in [Conns -> Nat]
  BY DEF TypeOK
<1>1. CASE UNCHANGED <<watch, send, wire, todo>>
  BY <1>1 DEF OwnInv
<1>2. ASSUME NEW s \in Conns, BeginBroadcast(s) PROVE OwnInv'
  BY <1>0, <1>2 DEF BeginBroadcast, serveVars, socketVars, OwnInv, HubInv, ClientsMatch
<1>3. ASSUME NEW s \in Conns, NEW c \in Conns, SendTo(s, c) PROVE OwnInv'
  <2> DEFINE d == [from |-> s, poll |-> watch[s], n |-> event[s]]
  <2>1. /\ c \in todo[s] /\ todo' = [todo EXCEPT ![s] = @ \ {c}]
        /\ send' = send \/ send' = [send EXCEPT ![c] = Append(@, d)]
        /\ watch' = watch /\ wire' = wire
    BY <1>3 DEF SendTo, serveVars
  <2>2. d \in EventsOf(watch[c])
    <3>1. d \in Delivery /\ d.poll = watch[s]
      BY <1>0 DEF Delivery
    <3> QED
      BY <2>1, <3>1 DEF OwnInv, EventsOf
  <2>3. Append(send[c], d) \in Seq(EventsOf(watch[c]))
    <3>1. send[c] \in Seq(EventsOf(watch[c]))
      BY DEF OwnInv
    <3> HIDE DEF d
    <3> QED
      BY <2>2, <3>1
  <2> HIDE DEF d
  <2>4. \A e \in Conns : send'[e] \in Seq(EventsOf(watch[e]))
    BY <1>0, <2>1, <2>3 DEF OwnInv
  <2>5. \A t, e \in Conns : e \in todo'[t] => watch[e] = watch[t]
    BY <1>0, <2>1 DEF OwnInv
  <2> QED
    BY <2>1, <2>4, <2>5 DEF OwnInv
<1>4. ASSUME NEW c \in Conns, WriteEvent(c) \/ WriteFails(c) PROVE OwnInv'
  <2>1. /\ send[c] # <<>> /\ send' = [send EXCEPT ![c] = Tail(@)]
        /\ wire' = wire \/ wire' = [wire EXCEPT ![c] = Append(@, Head(send[c]))]
        /\ UNCHANGED <<watch, todo>>
    BY <1>4 DEF WriteEvent, WriteFails, serveVars, bridgeVars
  <2>2. /\ Tail(send[c]) \in Seq(EventsOf(watch[c]))
        /\ Append(wire[c], Head(send[c])) \in Seq(EventsOf(watch[c]))
    <3>1. /\ send[c] \in Seq(EventsOf(watch[c])) /\ send[c] # <<>>
          /\ wire[c] \in Seq(EventsOf(watch[c]))
      BY <2>1 DEF OwnInv
    <3>2. Head(send[c]) \in EventsOf(watch[c]) /\ Tail(send[c]) \in Seq(EventsOf(watch[c]))
      BY <3>1, HeadTailProperties
    <3> QED
      BY <3>1, <3>2
  <2> QED
    BY <1>0, <2>1, <2>2 DEF OwnInv
<1>5. ASSUME NEW c \in Conns,
             \/ ServeStep(c) \/ PeerGone(c) \/ PingBreaks(c) \/ PingFails(c)
             \/ EndBridge(c)
      PROVE  OwnInv'
  BY <1>1, <1>5
     DEF Goto, ServeStep, Register, StartPumps, LockSubscriptions, Subscribed, SubscribeFailed,
         ReadClosed, Unregister, TakeSubscription, CancelSubscription, Awaited, PeerGone,
         PingBreaks, PingFails, EndBridge, serveVars, socketVars, bridgeVars
<1>6. ASSUME NEW p \in Polls, PublishEvent(p) PROVE OwnInv'
  BY <1>1, <1>6 DEF PublishEvent, serveVars, socketVars
<1>7. CASE UNCHANGED vars
  BY <1>1, <1>7 DEF vars, serveVars, socketVars, bridgeVars
<1> QED
  BY <1>2, <1>3, <1>4, <1>5, <1>6, <1>7 DEF Next, WriteStep, BridgeStep

LEMMA OwnInvariant == Spec => []OwnInv
BY TypeCorrect, HubInvariant, OwnInit, OwnStep, PTL DEF Spec

\* A browser is only ever sent events of the poll it watches.
THEOREM OwnPoll == Spec => []OnlyOwnPoll
<1>1. ASSUME OwnInv PROVE OnlyOwnPoll
  <2> SUFFICES ASSUME NEW c \in Conns, NEW i \in DOMAIN wire[c]
               PROVE  wire[c][i].poll = watch[c]
    BY DEF OnlyOwnPoll
  <2>1. wire[c] \in Seq(EventsOf(watch[c]))
    BY <1>1 DEF OwnInv
  <2>2. wire[c][i] \in EventsOf(watch[c])
    BY <2>1
  <2> QED
    BY <2>2 DEF EventsOf
<1> QED
  BY <1>1, OwnInvariant, PTL

-----------------------------------------------------------------------------
(* No event is skipped *)

\* What is on its way to c, or has arrived, in order.
Path(c) == wire[c] \o send[c]

\* The last entry of q that s brought, if there is one, has the number n.
LastFrom(q, s, n) ==
    \A i \in DOMAIN q :
        (q[i].from = s /\ \A k \in (i + 1)..Len(q) : q[k].from # s) => q[i].n = n

\* What a bridge has still to read are the events it received after the one it
\* broadcasts, in order.
InboxInv ==
    \A s \in Conns :
        /\ \A i \in DOMAIN inbox[s] : inbox[s][i] = event[s] + i
        /\ todo[s] # {} => event[s] # 0

\* The number of the event that s brought, or should have brought, to c last.
Due(c, s) == IF c \in todo[s] THEN event[s] - 1 ELSE event[s]

\* As long as c's socket is open, c is a client of every bridge that serves it,
\* and got every event of that bridge but the one it is about to get.
ServedBy(c, s) ==
    /\ c \in todo[s] => c \in clients[watch[s]]
    /\ \A i \in DOMAIN Path(c) : Path(c)[i].from = s =>
           c \in clients[watch[s]] /\ Path(c)[i].n # 0
    /\ LastFrom(Path(c), s, Due(c, s))

PathInv ==
    \A c \in Conns :
        /\ pc[c] = "unregister" => ~open[c]
        /\ Gapless(wire[c])
        /\ open[c] => Gapless(Path(c)) /\ \A s \in Conns : ServedBy(c, s)

LEMMA AppendGapless ==
    ASSUME NEW q \in Seq(Delivery), NEW d \in Delivery, d.n # 0,
           Gapless(q), LastFrom(q, d.from, d.n - 1)
    PROVE  /\ Gapless(Append(q, d))
           /\ LastFrom(Append(q, d), d.from, d.n)
           /\ \A s, n : s # d.from /\ LastFrom(q, s, n) => LastFrom(Append(q, d), s, n)
<1> DEFINE r == Append(q, d)
<1>1. /\ r \in Seq(Delivery) /\ Len(r) = Len(q) + 1 /\ Len(q) \in Nat
      /\ DOMAIN r = 1..(Len(q) + 1) /\ DOMAIN q = 1..Len(q)
      /\ \A i \in 1..Len(q) : r[i] = q[i]
      /\ r[Len(q) + 1] = d
  BY AppendProperties, LenProperties
<1>2. /\ d.n \in Nat
      /\ \A i \in 1..Len(q) : q[i].n \in Nat
  <2>1. \A e \in Delivery : e.n \in Nat
    BY DEF Delivery
  <2> QED
    BY <2>1, ElementOfSeq
<1> HIDE DEF r
<1>3. Gapless(r)
  <2> SUFFICES ASSUME NEW i \in 1..(Len(q) + 1), NEW j \in 1..(Len(q) + 1), i < j,
                      r[i].from = r[j].from,
                      \A k \in (i + 1)..(j - 1) : r[k].from # r[i].from
               PROVE  r[j].n = r[i].n + 1
    BY <1>1 DEF Gapless
  <2>1. CASE j <= Len(q)
    <3>1. i \in 1..Len(q) /\ j \in 1..Len(q) /\ (i + 1)..(j - 1) \subseteq 1..Len(q)
      BY <1>1, <2>1
    <3> QED
      BY <1>1, <3>1 DEF Gapless
  <2>2. CASE j = Len(q) + 1
    <3>1. i \in 1..Len(q) /\ (i + 1)..(j - 1) = (i + 1)..Len(q)
      BY <1>1, <2>2
    <3>2. q[i].from = d.from /\ \A k \in (i + 1)..Len(q) : q[k].from # d.from
      BY <1>1, <2>2, <3>1
    <3>3. q[i].n = d.n - 1
      BY <1>1, <3>1, <3>2 DEF LastFrom
    <3> QED
      BY <1>1, <1>2, <2>2, <3>1, <3>3
  <2> QED
    BY <1>1, <2>1, <2>2
<1>4. LastFrom(r, d.from, d.n)
  <2> SUFFICES ASSUME NEW i \in 1..(Len(q) + 1), r[i].from = d.from,
                      \A k \in (i + 1)..(Len(q) + 1) : r[k].from # d.from
               PROVE  r[i].n = d.n
    BY <1>1 DEF LastFrom
  <2>1. i = Len(q) + 1
    BY <1>1
  <2> QED
    BY <1>1, <2>1
<1>5. ASSUME NEW s, NEW n, s # d.from, LastFrom(q, s, n)
      PROVE  LastFrom(r, s, n)
  <2> SUFFICES ASSUME NEW i \in 1..(Len(q) + 1), r[i].from = s,
                      \A k \in (i + 1)..(Len(q) + 1) : r[k].from # s
               PROVE  r[i].n = n
    BY <1>1 DEF LastFrom
  <2>1. i \in 1..Len(q) /\ (i + 1)..Len(q) \subseteq (i + 1)..(Len(q) + 1)
    BY <1>1, <1>5
  <2>2. q[i].from = s /\ \A k \in (i + 1)..Len(q) : q[k].from # s
    BY <1>1, <2>1
  <2> QED
    BY <1>1, <1>5, <2>1, <2>2 DEF LastFrom
<1> QED
  BY <1>3, <1>4, <1>5 DEF r

LEMMA PrefixGapless ==
    ASSUME NEW a \in Seq(Delivery), NEW b \in Seq(Delivery), Gapless(a \o b)
    PROVE  Gapless(a)
<1>1. /\ Len(a) \in Nat /\ Len(b) \in Nat /\ DOMAIN a = 1..Len(a)
      /\ DOMAIN (a \o b) = 1..(Len(a) + Len(b))
      /\ \A i \in 1..Len(a) : (a \o b)[i] = a[i]
  BY ConcatProperties, LenProperties
<1> SUFFICES ASSUME NEW i \in 1..Len(a), NEW j \in 1..Len(a), i < j,
                    a[i].from = a[j].from,
                    \A k \in (i + 1)..(j - 1) : a[k].from # a[i].from
             PROVE  a[j].n = a[i].n + 1
  BY <1>1 DEF Gapless
<1>2. /\ i \in DOMAIN (a \o b) /\ j \in DOMAIN (a \o b)
      /\ (i + 1)..(j - 1) \subseteq 1..Len(a)
  BY <1>1
<1> HIDE DEF Gapless
<1>3. (a \o b)[j].n = (a \o b)[i].n + 1
  BY <1>1, <1>2 DEF Gapless
<1> QED
  BY <1>1, <1>3

\* The head of the buffer moves from its end of the path to the other.
LEMMA ShiftConcat ==
    ASSUME NEW a \in Seq(Delivery), NEW b \in Seq(Delivery), b # <<>>
    PROVE  Append(a, Head(b)) \o Tail(b) = a \o b
<1>1. /\ Head(b) \in Delivery /\ Tail(b) \in Seq(Delivery)
      /\ b = <<Head(b)>> \o Tail(b)
  BY HeadTailProperties
<1>2. <<Head(b)>> \in Seq(Delivery) /\ Append(a, Head(b)) = a \o <<Head(b)>>
  BY <1>1, AppendIsConcat
<1> QED
  BY <1>1, <1>2, ConcatAssociative

LEMMA AppendConcat ==
    ASSUME NEW a \in Seq(Delivery), NEW b \in Seq(Delivery), NEW d \in Delivery
    PROVE  a \o Append(b, d) = Append(a \o b, d)
<1>1. /\ <<d>> \in Seq(Delivery) /\ a \o b \in Seq(Delivery)
      /\ Append(b, d) = b \o <<d>> /\ Append(a \o b, d) = (a \o b) \o <<d>>
  BY AppendIsConcat, ConcatProperties
<1> QED
  BY <1>1, ConcatAssociative

LEMMA GapInit == Init => InboxInv /\ PathInv
<1> SUFFICES ASSUME Init PROVE InboxInv /\ PathInv
  OBVIOUS
<1>1. /\ \A c \in Conns : /\ wire[c] = <<>> /\ send[c] = <<>> /\ inbox[c] = <<>>
                          /\ todo[c] = {} /\ event[c] = 0 /\ bridge[c] = "off"
                          /\ pc[c] = "register"
  BY DEF Init
<1>2. <<>> \o <<>> = <<>> /\ Len(<<>>) = 0 /\ DOMAIN <<>> = {}
  OBVIOUS
<1>3. InboxInv
  BY <1>1, <1>2 DEF InboxInv, Running
<1>4. PathInv
  BY <1>1, <1>2 DEF PathInv, ServedBy, LastFrom, Gapless, Path
<1> QED
  BY <1>3, <1>4

\* Two of the steps on the inboxes that need some arithmetic.
LEMMA BeginInbox ==
    ASSUME TypeOK, InboxInv, NEW s \in Conns, BeginBroadcast(s)
    PROVE  InboxInv' /\ event'[s] = event[s] + 1
<1>1. /\ inbox[s] # <<>>
      /\ event' = [event EXCEPT ![s] = Head(inbox[s])]
      /\ inbox' = [inbox EXCEPT ![s] = Tail(inbox[s])]
      /\ todo' = [todo EXCEPT ![s] = clients[watch[s]]]
  BY DEF BeginBroadcast
<1>2. /\ inbox \in [Conns -> Seq(Nat)] /\ event \in [Conns -> Nat]
      /\ todo \in [Conns -> SUBSET Conns]
  BY DEF TypeOK
<1> DEFINE q == inbox[s]
<1>3. /\ Head(q) = q[1] /\ Len(q) \in Nat /\ Len(q) >= 1
      /\ DOMAIN q = 1..Len(q) /\ DOMAIN Tail(q) = 1..(Len(q) - 1)
      /\ \A i \in 1..(Len(q) - 1) : Tail(q)[i] = q[i + 1]
  <2>1. q \in Seq(Nat) /\ q # <<>>
    BY <1>1, <1>2
  <2> QED
    BY <2>1, HeadTailProperties, LenProperties, EmptySeq
<1>4. \A i \in 1..Len(q) : q[i] = event[s] + i
  BY <1>3 DEF InboxInv
<1>5. event'[s] = event[s] + 1 /\ inbox'[s] = Tail(q)
  BY <1>1, <1>2, <1>3, <1>4
<1>6. ASSUME NEW i \in DOMAIN Tail(q)
      PROVE  Tail(q)[i] = event'[s] + i
  <2>1. i + 1 \in 1..Len(q) /\ Tail(q)[i] = q[i + 1] /\ i \in Nat
    BY <1>3
  <2>2. q[i + 1] = event[s] + (i + 1)
    BY <1>4, <2>1
  <2> HIDE DEF q
  <2> QED
    BY <1>2, <1>5, <2>1, <2>2
<1>7. \A t \in Conns : t # s =>
          inbox'[t] = inbox[t] /\ event'[t] = event[t] /\ todo'[t] = todo[t]
  BY <1>1, <1>2
<1>8. event'[s] # 0
  BY <1>2, <1>5
<1> HIDE DEF q
<1>9. ASSUME NEW t \in Conns
      PROVE  /\ \A i \in DOMAIN inbox'[t] : inbox'[t][i] = event'[t] + i
             /\ todo'[t] # {} => event'[t] # 0
  <2>1. CASE t = s
    BY <1>5, <1>6, <1>8, <2>1
  <2>2. CASE t # s
    BY <1>7, <2>2 DEF InboxInv
  <2> QED
    BY <2>1, <2>2
<1> QED
  BY <1>5, <1>9 DEF InboxInv

LEMMA PublishInbox ==
    ASSUME TypeOK, InboxInv, NEW p \in Polls, PublishEvent(p)
    PROVE  InboxInv'
<1>1. /\ event' = event /\ todo' = todo
      /\ \A s \in Conns : \/ inbox'[s] = inbox[s]
                         \/ inbox'[s] = Append(inbox[s], Received(s) + 1)
  BY DEF PublishEvent
<1> SUFFICES ASSUME NEW s \in Conns, inbox'[s] = Append(inbox[s], Received(s) + 1)
             PROVE  \A i \in DOMAIN inbox'[s] : inbox'[s][i] = event[s] + i
  BY <1>1 DEF InboxInv
<1>2. /\ inbox[s] \in Seq(Nat) /\ event[s] \in Nat /\ Received(s) + 1 \in Nat
      /\ Len(inbox[s]) \in Nat /\ DOMAIN inbox[s] = 1..Len(inbox[s])
  BY DEF TypeOK, Received
<1> DEFINE r == Append(inbox[s], Received(s) + 1)
<1>3. /\ DOMAIN r = 1..(Len(inbox[s]) + 1)
      /\ \A i \in 1..Len(inbox[s]) : r[i] = inbox[s][i]
      /\ r[Len(inbox[s]) + 1] = Received(s) + 1
  BY <1>2, AppendProperties, LenProperties
<1> HIDE DEF r
<1>4. ASSUME NEW i \in 1..(Len(inbox[s]) + 1) PROVE r[i] = event[s] + i
  <2>1. CASE i <= Len(inbox[s])
    BY <1>2, <1>3, <2>1 DEF InboxInv
  <2>2. CASE i = Len(inbox[s]) + 1
    BY <1>2, <1>3, <2>2 DEF Received
  <2> QED
    BY <1>2, <2>1, <2>2
<1> QED
  BY <1>3, <1>4 DEF r

LEMMA InboxStep == TypeOK /\ InboxInv /\ [Next]_vars => InboxInv'
<1> SUFFICES ASSUME TypeOK, InboxInv, [Next]_vars PROVE InboxInv'
  OBVIOUS
<1>0. inbox \in [Conns -> Seq(Nat)] /\ todo \in [Conns -> SUBSET Conns]
  BY DEF TypeOK
<1>1. CASE UNCHANGED <<inbox, event, todo>>
  BY <1>1 DEF InboxInv
<1>2. ASSUME NEW s \in Conns, NEW c \in Conns, SendTo(s, c) PROVE InboxInv'
  <2>1. todo' = [todo EXCEPT ![s] = @ \ {c}] /\ UNCHANGED <<inbox, event>>
    BY <1>2 DEF SendTo
  <2>2. \A t \in Conns : todo'[t] # {} => todo[t] # {}
    BY <1>0, <2>1
  <2> QED
    BY <2>1, <2>2 DEF InboxInv
<1>3. ASSUME NEW s \in Conns, EndBridge(s) PROVE InboxInv'
  <2>1. inbox' = [inbox EXCEPT ![s] = <<>>] /\ UNCHANGED <<event, todo>>
    BY <1>3 DEF EndBridge
  <2>2. \A t \in Conns : inbox'[t] = IF t = s THEN <<>> ELSE inbox[t]
    BY <1>0, <2>1
  <2>3. DOMAIN <<>> = {}
    OBVIOUS
  <2> QED
    BY <2>1, <2>2, <2>3 DEF InboxInv
<1>4. ASSUME NEW c \in Conns,
             \/ Register(c) \/ LockSubscriptions(c) \/ Subscribed(c) \/ SubscribeFailed(c)
             \/ ReadClosed(c) \/ Unregister(c) \/ TakeSubscription(c)
             \/ CancelSubscription(c) \/ Awaited(c)
             \/ PeerGone(c) \/ PingBreaks(c) \/ WriteStep(c)
      PROVE  InboxInv'
  BY <1>1, <1>4
     DEF Register, LockSubscriptions, Subscribed, SubscribeFailed, ReadClosed, Unregister,
         TakeSubscription, CancelSubscription, Awaited, PeerGone, PingBreaks, WriteStep,
         WriteEvent, WriteFails, PingFails, bridgeVars
<1>5. CASE UNCHANGED vars
  BY <1>1, <1>5 DEF vars, bridgeVars
<1> QED
  BY <1>2, <1>3, <1>4, <1>5, BeginInbox, PublishInbox DEF Next, ServeStep, BridgeStep

\* The steps that leave the path of every event alone; they may close sockets
\* and add clients.
PathUntouched ==
    /\ UNCHANGED <<watch, send, wire, event, todo>>
    /\ \A c \in Conns : open'[c] => open[c]
    /\ \A p \in Polls : clients[p] \subseteq clients'[p]
    /\ \A c \in Conns : pc'[c] = "unregister" => pc[c] = "unregister" \/ ~open'[c]

LEMMA StepOnPath ==
    ASSUME TypeOK, [Next]_vars
    PROVE  \/ PathUntouched
           \/ \E c \in Conns : \/ Unregister(c) \/ WriteEvent(c) \/ WriteFails(c)
                               \/ BeginBroadcast(c)
           \/ \E s, c \in Conns : SendTo(s, c)
<1>0. /\ pc \in [Conns -> ServePC] /\ clients \in [Polls -> SUBSET Conns]
      /\ open \in [Conns -> BOOLEAN] /\ watch \in [Conns -> Polls]
  BY DEF TypeOK
<1>1. ASSUME NEW c \in Conns, Register(c) PROVE PathUntouched
  <2>1. /\ clients' = [clients EXCEPT ![watch[c]] = @ \union {c}]
        /\ \E to \in {"ensure", "serve"} : pc' = [pc EXCEPT ![c] = to]
        /\ UNCHANGED <<watch, send, wire, open, event, todo>>
    BY <1>1 DEF Register, StartPumps, Goto, socketVars, bridgeVars
  <2> QED
    BY <1>0, <2>1 DEF PathUntouched
<1>2. ASSUME NEW c \in Conns,
             \/ LockSubscriptions(c) \/ Subscribed(c) \/ SubscribeFailed(c)
             \/ TakeSubscription(c) \/ CancelSubscription(c) \/ Awaited(c)
      PROVE  PathUntouched
  <2>1. /\ \E to \in {"serve", "subscribing", "gone", "cancel", "await"} :
               pc' = [pc EXCEPT ![c] = to]
        /\ UNCHANGED <<watch, send, wire, open, event, todo, clients>>
    BY <1>2 DEF LockSubscriptions, Subscribed, SubscribeFailed, TakeSubscription,
       CancelSubscription, Awaited, StartPumps, Goto, socketVars, bridgeVars
  <2> QED
    BY <1>0, <2>1 DEF PathUntouched
<1>3. ASSUME NEW c \in Conns, PeerGone(c) \/ ReadClosed(c) PROVE PathUntouched
  <2>1. /\ pc' = [pc EXCEPT ![c] = "unregister"] /\ UNCHANGED <<watch, send, wire, event, todo, clients>>
        /\ open' = [open EXCEPT ![c] = FALSE] \/ (~open[c] /\ open' = open)
    BY <1>3 DEF PeerGone, ReadClosed, Goto, socketVars, bridgeVars
  <2> QED
    BY <1>0, <2>1 DEF PathUntouched
<1>4. ASSUME NEW c \in Conns, PingBreaks(c) \/ PingFails(c) PROVE PathUntouched
  <2>1. /\ UNCHANGED <<pc, watch, send, wire, event, todo, clients>>
        /\ open' = [open EXCEPT ![c] = FALSE] \/ open' = open
    BY <1>4 DEF PingBreaks, PingFails, serveVars, bridgeVars
  <2> QED
    BY <1>0, <2>1 DEF PathUntouched
<1>5. \/ \E c \in Conns : EndBridge(c)
      \/ \E p \in Polls : PublishEvent(p)
      \/ UNCHANGED vars
      => PathUntouched
  BY DEF EndBridge, PublishEvent, vars, serveVars, socketVars, bridgeVars, PathUntouched
<1> QED
  BY <1>1, <1>2, <1>3, <1>4, <1>5 DEF Next, ServeStep, WriteStep, BridgeStep

LEMMA PathStep == TypeOK /\ InboxInv /\ PathInv /\ [Next]_vars => PathInv'
<1> SUFFICES ASSUME TypeOK, InboxInv, PathInv, [Next]_vars PROVE PathInv'
  OBVIOUS
<1>0. /\ watch \in [Conns -> Polls] /\ clients \in [Polls -> SUBSET Conns]
      /\ open \in [Conns -> BOOLEAN] /\ todo \in [Conns -> SUBSET Conns]
      /\ send \in [Conns -> Seq(Delivery)] /\ wire \in [Conns -> Seq(Delivery)]
      /\ event \in [Conns -> Nat] /\ pc \in [Conns -> ServePC]
  BY DEF TypeOK
<1>1. CASE PathUntouched
  <2>1. \A c, s \in Conns : ServedBy(c, s) => ServedBy(c, s)'
    BY <1>0, <1>1 DEF PathUntouched, ServedBy, Path, Due
  <2> QED
    BY <1>1, <2>1 DEF PathUntouched, PathInv, Path
<1>2. ASSUME NEW c \in Conns, Unregister(c) PROVE PathInv'
  <2>1. /\ clients' = [clients EXCEPT ![watch[c]] = @ \ {c}] /\ pc[c] = "unregister"
        /\ \E to \in {"stop", "gone"} : pc' = [pc EXCEPT ![c] = to]
        /\ UNCHANGED <<watch, open, send, wire, event, todo>>
    BY <1>2 DEF Unregister, Goto, socketVars, bridgeVars
  <2>2. ~open[c]
    BY <2>1 DEF PathInv
  <2>3. \A d, s \in Conns : d # c /\ ServedBy(d, s) => ServedBy(d, s)'
    BY <1>0, <2>1 DEF ServedBy, Path, Due
  <2> QED
    BY <1>0, <2>1, <2>2, <2>3 DEF PathInv, Path
<1>3. ASSUME NEW c \in Conns, WriteEvent(c) PROVE PathInv'
  <2>1. /\ send[c] # <<>> /\ open[c]
        /\ send' = [send EXCEPT ![c] = Tail(send[c])]
        /\ wire' = [wire EXCEPT ![c] = Append(wire[c], Head(send[c]))]
        /\ UNCHANGED <<watch, pc, open, clients, event, todo>>
    BY <1>3 DEF WriteEvent, serveVars, bridgeVars
  <2>2. \A d \in Conns : Path(d)' = Path(d)
    BY <1>0, <2>1, ShiftConcat DEF Path
  <2>3. \A d, s \in Conns : ServedBy(d, s) => ServedBy(d, s)'
    BY <2>1, <2>2 DEF ServedBy, Due
  <2>4. Gapless(wire'[c])
    <3>1. Gapless(wire'[c] \o send'[c])
      BY <2>1, <2>2 DEF PathInv, Path
    <3>2. wire'[c] \in Seq(Delivery) /\ send'[c] \in Seq(Delivery)
      BY <1>0, <2>1, HeadTailProperties
    <3> QED
      BY <3>1, <3>2, PrefixGapless
  <2>5. \A d \in Conns : Gapless(wire'[d])
    BY <1>0, <2>1, <2>4 DEF PathInv
  <2> QED
    BY <2>1, <2>2, <2>3, <2>5 DEF PathInv
<1>4. ASSUME NEW c \in Conns, WriteFails(c) PROVE PathInv'
  <2>1. /\ open' = [open EXCEPT ![c] = FALSE]
        /\ send' = [send EXCEPT ![c] = Tail(send[c])]
        /\ UNCHANGED <<watch, pc, wire, clients, event, todo>>
    BY <1>4 DEF WriteFails, serveVars, bridgeVars
  <2>2. \A d \in Conns : d # c => Path(d)' = Path(d) /\ open'[d] = open[d]
    BY <1>0, <2>1 DEF Path
  <2>3. \A d, s \in Conns : d # c /\ ServedBy(d, s) => ServedBy(d, s)'
    BY <2>1, <2>2 DEF ServedBy, Due
  <2>4. ~open'[c]
    BY <1>0, <2>1
  <2> QED
    BY <2>1, <2>2, <2>3, <2>4 DEF PathInv
<1>5. ASSUME NEW s \in Conns, BeginBroadcast(s) PROVE PathInv'
  <2>1. /\ todo[s] = {} /\ todo' = [todo EXCEPT ![s] = clients[watch[s]]]
        /\ event' = [event EXCEPT ![s] = Head(inbox[s])]
        /\ UNCHANGED <<watch, pc, open, clients, send, wire>>
    BY <1>5 DEF BeginBroadcast, Idle, serveVars, socketVars
  <2>2. event'[s] = event[s] + 1 /\ event[s] \in Nat
    BY <1>0, <1>5, BeginInbox
  <2>3. ASSUME NEW c \in Conns, NEW t \in Conns, ServedBy(c, t) PROVE ServedBy(c, t)'
    <3>1. CASE t # s
      <4>1. todo'[t] = todo[t] /\ event'[t] = event[t]
        BY <1>0, <2>1, <3>1
      <4> QED
        BY <2>1, <2>3, <4>1 DEF ServedBy, Path, Due
    <3>2. CASE t = s
      <4>1. Path(c)' = Path(c) /\ (c \in todo'[s] <=> c \in clients[watch[s]])
        BY <1>0, <2>1 DEF Path
      <4>2. LastFrom(Path(c), s, Due(c, s)')
        <5> SUFFICES ASSUME NEW i \in DOMAIN Path(c), Path(c)[i].from = s,
                            \A k \in (i + 1)..Len(Path(c)) : Path(c)[k].from # s
                     PROVE  Path(c)[i].n = Due(c, s)'
          BY DEF LastFrom
        <5>1. Path(c)[i].n = event[s] /\ Path(c)[i].n # 0 /\ c \in clients[watch[s]]
          BY <2>1, <2>3, <3>2 DEF ServedBy, LastFrom, Due
        <5> QED
          BY <2>2, <4>1, <5>1 DEF Due
      <4> QED
        BY <2>1, <2>3, <3>2, <4>1, <4>2 DEF ServedBy
    <3> QED
      BY <3>1, <3>2
  <2> QED
    BY <2>1, <2>3 DEF PathInv, Path
<1>6. ASSUME NEW s \in Conns, NEW c \in Conns, SendTo(s, c) PROVE PathInv'
  <2> DEFINE d == [from |-> s, poll |-> watch[s], n |-> event[s]]
  <2>1. /\ c \in todo[s] /\ todo' = [todo EXCEPT ![s] = @ \ {c}]
        /\ UNCHANGED <<watch, pc, clients, wire, event>>
    BY <1>6 DEF SendTo, serveVars
  <2>2. \A e, t \in Conns : e # c \/ t # s => (e \in todo'[t] <=> e \in todo[t])
    BY <1>0, <2>1
  <2>3. CASE ~open'[c] /\ send' = send /\ \A e \in Conns : open'[e] => open[e]
    <3>1. \A e, t \in Conns : e # c /\ ServedBy(e, t) => ServedBy(e, t)'
      BY <2>1, <2>2, <2>3 DEF ServedBy, Path, Due
    <3> QED
      BY <2>1, <2>3, <3>1 DEF PathInv, Path
  <2>4. CASE open' = open /\ send' = [send EXCEPT ![c] = Append(send[c], d)]
    <3>1. /\ d \in Delivery /\ d.from = s /\ d.n = event[s] /\ event[s] # 0
          /\ event[s] \in Nat
      BY <1>0, <2>1 DEF Delivery, InboxInv
    <3> HIDE DEF d
    <3>2. /\ Path(c)' = Append(Path(c), d) /\ Path(c) \in Seq(Delivery)
          /\ \A e \in Conns : e # c => Path(e)' = Path(e)
      BY <1>0, <2>1, <2>4, <3>1, AppendConcat, ConcatProperties DEF Path
    <3>3. \A e, t \in Conns : e # c /\ ServedBy(e, t) => ServedBy(e, t)'
      BY <2>1, <2>2, <3>2 DEF ServedBy, Due
    <3>4. ASSUME open[c]
          PROVE  Gapless(Path(c)') /\ \A t \in Conns : ServedBy(c, t)'
      <4>1. Gapless(Path(c)) /\ \A t \in Conns : ServedBy(c, t)
        BY <3>4 DEF PathInv
      <4>2. LastFrom(Path(c), s, event[s] - 1) /\ c \in clients[watch[s]]
        BY <2>1, <4>1 DEF ServedBy, Due
      <4>3. /\ Gapless(Path(c)') /\ LastFrom(Path(c)', s, event[s])
            /\ \A t, n : t # s /\ LastFrom(Path(c), t, n) => LastFrom(Path(c)', t, n)
        BY <3>1, <3>2, <4>1, <4>2, AppendGapless
      <4>4. ASSUME NEW t \in Conns PROVE ServedBy(c, t)'
        <5>1. \A i \in DOMAIN Path(c)' : Path(c)'[i].from = t =>
                  c \in clients[watch[t]] /\ Path(c)'[i].n # 0
          <6> SUFFICES ASSUME NEW i \in DOMAIN Path(c)', Path(c)'[i].from = t
                       PROVE  c \in clients[watch[t]] /\ Path(c)'[i].n # 0
            OBVIOUS
          <6>1. \/ i \in DOMAIN Path(c) /\ Path(c)'[i] = Path(c)[i]
                \/ Path(c)'[i] = d
            BY <3>1, <3>2, AppendProperties, LenProperties
          <6> QED
            BY <3>1, <4>1, <4>2, <6>1 DEF ServedBy
        <5>2. LastFrom(Path(c)', t, Due(c, t)')
          <6>1. CASE t = s
            <7>1. c \notin todo'[s]
              BY <1>0, <2>1
            <7> QED
              BY <2>1, <4>3, <6>1, <7>1 DEF Due
          <6>2. CASE t # s
            <7>1. Due(c, t)' = Due(c, t)
              BY <2>1, <2>2, <6>2 DEF Due
            <7> QED
              BY <4>1, <4>3, <6>2, <7>1 DEF ServedBy
          <6> QED
            BY <6>1, <6>2
        <5>3. c \in todo'[t] => c \in clients[watch[t]]
          BY <2>1, <2>2, <4>1, <4>2 DEF ServedBy
        <5> QED
          BY <2>1, <5>1, <5>2, <5>3 DEF ServedBy
      <4> QED
        BY <4>3, <4>4
    <3> QED
      BY <2>1, <2>4, <3>2, <3>3, <3>4 DEF PathInv
  <2>5. \/ ~open'[c] /\ send' = send /\ \A e \in Conns : open'[e] => open[e]
        \/ open' = open /\ send' = [send EXCEPT ![c] = Append(send[c], d)]
    BY <1>0, <1>6 DEF SendTo
  <2> QED
    BY <2>3, <2>4, <2>5
<1> QED
  BY <1>1, <1>2, <1>3, <1>4, <1>5, <1>6, StepOnPath

\* A slow client is disconnected, never skipped: on the wire, the event that a
\* subscription received as its n-th is followed by its next one.
THEOREM NoGap == Spec => []NoSilentGap
<1>1. PathInv => NoSilentGap
  BY DEF PathInv, NoSilentGap
<1> QED
  BY <1>1, TypeCorrect, GapInit, InboxStep, PathStep, PTL DEF Spec

=============================================================================
