---------------------------- MODULE WebSocketHub ----------------------------
(***************************************************************************)
(* WebSocketHub and Client: the connections of one backend instance, the   *)
(* Redis subscription the hub keeps per watched poll, the goroutine that   *)
(* bridges it into Broadcast, and the two pumps of each connection.        *)
(*                                                                         *)
(* A connection runs ServePoll once: pc[c] is where that goroutine stands. *)
(*   "register"     the section of Register under mu                       *)
(*   "ensure"       ensureSubscription, waiting for subsMu                 *)
(*   "subscribing"  ensureSubscription, in redis.Subscribe, holding subsMu *)
(*   "serve"        readPump, with writePump beside it                     *)
(*   "unregister"   the section of Unregister under mu                     *)
(*   "stop"         stopSubscription, waiting for subsMu                   *)
(*   "cancel"       stopSubscription, about to cancel the removed one      *)
(*   "await"        stopSubscription, waiting for done or for 2 seconds    *)
(* A connection opens at most one subscription, so a subscription is named *)
(* by the connection whose Register opened it.                             *)
(***************************************************************************)
EXTENDS Naturals, Sequences, FiniteSets

CONSTANTS
    Conns,     \* connections
    Polls,
    NoSub,     \* no subscription: the nil of the map subs
    Free,      \* the value of subsMu when no goroutine holds it
    BufSize,   \* sendBufferSize
    MaxEvents, \* bound on the events published per poll
    SubscribeMayFail  \* whether redis.Subscribe may return an error

ASSUME HubAssumption ==
    /\ NoSub \notin Conns
    /\ Free \notin Conns
    /\ BufSize \in Nat \ {0}
    /\ MaxEvents \in Nat
    /\ SubscribeMayFail \in BOOLEAN

VARIABLES
    watch,      \* the pollID of each connection
    pc,
    clients,    \* hub.clients
    subs,       \* hub.subs
    subsMu,     \* the connection whose goroutine holds subsMu, or Free
    victim,     \* the subscription that stopSubscription took out of subs
    open,       \* the socket is not closed by this side
    writer,     \* writePump: "off", "run", "exit"
    send,       \* the channel c.send
    wire,       \* what writePump has written to the socket
    bridge,     \* the goroutine of a subscription: "off", "run", "exit"
    cancelled,  \* its context is cancelled
    inbox,      \* events that Redis has delivered to it
    event,      \* the event it is broadcasting
    todo,       \* the clients of its Broadcast not yet served
    published   \* number of events PUBLISHed for each poll

serveVars  == <<watch, pc, clients, subs, subsMu, victim>>
socketVars == <<open, writer, send, wire>>
bridgeVars == <<bridge, cancelled, inbox, event, todo>>
vars == <<serveVars, socketVars, bridgeVars, published>>

ServePC == {"register", "ensure", "subscribing", "serve", "unregister",
            "stop", "cancel", "await", "gone"}

\* An event is known by its number among those that a subscription received; on
\* its way to a browser that subscription is recorded beside it.
Delivery == [from : Conns, poll : Polls, n : Nat]

TypeOK ==
    /\ watch \in [Conns -> Polls]
    /\ pc \in [Conns -> ServePC]
    /\ clients \in [Polls -> SUBSET Conns]
    /\ subs \in [Polls -> Conns \union {NoSub}]
    /\ subsMu \in Conns \union {Free}
    /\ victim \in [Conns -> Conns \union {NoSub}]
    /\ open \in [Conns -> BOOLEAN]
    /\ writer \in [Conns -> {"off", "run", "exit"}]
    /\ send \in [Conns -> Seq(Delivery)]
    /\ \A c \in Conns : Len(send[c]) <= BufSize
    /\ wire \in [Conns -> Seq(Delivery)]
    /\ bridge \in [Conns -> {"off", "run", "exit"}]
    /\ cancelled \in [Conns -> BOOLEAN]
    /\ inbox \in [Conns -> Seq(Nat)]
    /\ event \in [Conns -> Nat]
    /\ todo \in [Conns -> SUBSET Conns]
    /\ published \in [Polls -> 0..MaxEvents]

Init ==
    /\ watch \in [Conns -> Polls]
    /\ pc = [c \in Conns |-> "register"]
    /\ clients = [p \in Polls |-> {}]
    /\ subs = [p \in Polls |-> NoSub]
    /\ subsMu = Free
    /\ victim = [c \in Conns |-> NoSub]
    /\ open = [c \in Conns |-> TRUE]
    /\ writer = [c \in Conns |-> "off"]
    /\ send = [c \in Conns |-> <<>>]
    /\ wire = [c \in Conns |-> <<>>]
    /\ bridge = [c \in Conns |-> "off"]
    /\ cancelled = [c \in Conns |-> FALSE]
    /\ inbox = [c \in Conns |-> <<>>]
    /\ event = [c \in Conns |-> 0]
    /\ todo = [c \in Conns |-> {}]
    /\ published = [p \in Polls |-> 0]

Goto(c, from, to) ==
    /\ pc[c] = from
    /\ pc' = [pc EXCEPT ![c] = to]

\* ServePoll goes on to `go client.writePump()` and readPump.
StartPumps(c, from) ==
    /\ Goto(c, from, "serve")
    /\ writer' = [writer EXCEPT ![c] = "run"]
    /\ UNCHANGED <<open, send, wire>>

Running(c) == bridge[c] = "run"

-----------------------------------------------------------------------------
(* Register.  As in Stores, a "Variant" is a mistaken form of what follows.  *)

Register(c) ==
    LET p == watch[c] IN
    /\ clients' = [clients EXCEPT ![p] = @ \union {c}]
    /\ \/ clients[p] = {} /\ Goto(c, "register", "ensure") /\ UNCHANGED socketVars
       \/ clients[p] # {} /\ StartPumps(c, "register")
    /\ UNCHANGED <<watch, subs, subsMu, victim, bridgeVars, published>>

\* Variant: without the test of subs under subsMu.
LockSubscriptionsBlindly(c) ==
    /\ subsMu = Free
    /\ Goto(c, "ensure", "subscribing")
    /\ subsMu' = c
    /\ UNCHANGED <<watch, clients, subs, victim, socketVars, bridgeVars, published>>

\* Under subsMu: nothing to do if subs has the poll; otherwise subsMu is
\* kept during the round trip to Redis.
LockSubscriptions(c) ==
    /\ subsMu = Free
    /\ \/ /\ subs[watch[c]] # NoSub
          /\ StartPumps(c, "ensure")
          /\ UNCHANGED subsMu
       \/ /\ subs[watch[c]] = NoSub
          /\ Goto(c, "ensure", "subscribing")
          /\ subsMu' = c
          /\ UNCHANGED socketVars
    /\ UNCHANGED <<watch, clients, subs, victim, bridgeVars, published>>

Subscribed(c) ==
    /\ StartPumps(c, "subscribing")
    /\ subs' = [subs EXCEPT ![watch[c]] = c]
    /\ subsMu' = Free
    /\ bridge' = [bridge EXCEPT ![c] = "run"]
    /\ UNCHANGED <<watch, clients, victim, cancelled, inbox, event, todo, published>>

\* Variant: the early return keeps subsMu.
SubscribeFailedLocked(c) ==
    /\ SubscribeMayFail
    /\ StartPumps(c, "subscribing")
    /\ UNCHANGED <<watch, clients, subs, subsMu, victim, bridgeVars, published>>

\* Subscribe returned an error: it is logged, and the connection is served
\* all the same.
SubscribeFailed(c) ==
    /\ SubscribeMayFail
    /\ StartPumps(c, "subscribing")
    /\ subsMu' = Free
    /\ UNCHANGED <<watch, clients, subs, victim, bridgeVars, published>>

-----------------------------------------------------------------------------
(* Unregister *)

\* Variant: `last` is computed before the client is deleted.
UnregisterLate(c) ==
    LET p == watch[c] IN
    /\ clients' = [clients EXCEPT ![p] = @ \ {c}]
    /\ \/ clients[p] = {} /\ Goto(c, "unregister", "stop")
       \/ clients[p] # {} /\ Goto(c, "unregister", "gone")
    /\ UNCHANGED <<watch, subs, subsMu, victim, socketVars, bridgeVars, published>>

Unregister(c) ==
    LET p == watch[c] IN
    /\ clients' = [clients EXCEPT ![p] = @ \ {c}]
    /\ \/ clients[p] \subseteq {c} /\ Goto(c, "unregister", "stop")
       \/ ~(clients[p] \subseteq {c}) /\ Goto(c, "unregister", "gone")
    /\ UNCHANGED <<watch, subs, subsMu, victim, socketVars, bridgeVars, published>>

TakeSubscription(c) ==
    LET p == watch[c] IN
    /\ subsMu = Free
    /\ subs' = [subs EXCEPT ![p] = NoSub]
    /\ victim' = [victim EXCEPT ![c] = subs[p]]
    /\ \/ subs[p] = NoSub /\ Goto(c, "stop", "gone")
       \/ subs[p] # NoSub /\ Goto(c, "stop", "cancel")
    /\ UNCHANGED <<watch, clients, subsMu, socketVars, bridgeVars, published>>

CancelSubscription(c) ==
    /\ Goto(c, "cancel", "await")
    /\ cancelled' = [cancelled EXCEPT ![victim[c]] = TRUE]
    /\ UNCHANGED <<watch, clients, subs, subsMu, victim, socketVars,
                   bridge, inbox, event, todo, published>>

\* The goroutine's done is closed, or 2 seconds have passed: no guard.
Awaited(c) ==
    /\ Goto(c, "await", "gone")
    /\ UNCHANGED <<watch, clients, subs, subsMu, victim, socketVars,
                   bridgeVars, published>>

-----------------------------------------------------------------------------
(* The pumps *)

\* ReadMessage fails because the browser left, the network broke or the read
\* deadline passed; the deferred close() closes the socket.
PeerGone(c) ==
    /\ open[c]
    /\ Goto(c, "serve", "unregister")
    /\ open' = [open EXCEPT ![c] = FALSE]
    /\ UNCHANGED <<watch, clients, subs, subsMu, victim, writer, send, wire,
                   bridgeVars, published>>

\* ReadMessage fails because this side has closed the socket.
ReadClosed(c) ==
    /\ ~open[c]
    /\ Goto(c, "serve", "unregister")
    /\ UNCHANGED <<watch, clients, subs, subsMu, victim, socketVars,
                   bridgeVars, published>>

WriteEvent(c) ==
    /\ writer[c] = "run"
    /\ send[c] # <<>>
    /\ open[c]
    /\ send' = [send EXCEPT ![c] = Tail(@)]
    /\ wire' = [wire EXCEPT ![c] = Append(@, Head(send[c]))]
    /\ UNCHANGED <<serveVars, open, writer, bridgeVars, published>>

\* A write of an event fails, at the latest after writeWait: the event is
\* lost, writePump returns and closes the socket.
WriteFails(c) ==
    /\ writer[c] = "run"
    /\ send[c] # <<>>
    /\ send' = [send EXCEPT ![c] = Tail(@)]
    /\ writer' = [writer EXCEPT ![c] = "exit"]
    /\ open' = [open EXCEPT ![c] = FALSE]
    /\ UNCHANGED <<serveVars, wire, bridgeVars, published>>

\* The ticker fires on an open socket whose network is broken.  (A ping that
\* is written changes nothing.)
PingBreaks(c) ==
    /\ writer[c] = "run"
    /\ open[c]
    /\ writer' = [writer EXCEPT ![c] = "exit"]
    /\ open' = [open EXCEPT ![c] = FALSE]
    /\ UNCHANGED <<serveVars, send, wire, bridgeVars, published>>

\* The ticker fires on a socket that this side has closed.  Nothing closes
\* c.send, so this is how an idle pump ends.
PingFails(c) ==
    /\ writer[c] = "run"
    /\ ~open[c]
    /\ writer' = [writer EXCEPT ![c] = "exit"]
    /\ UNCHANGED <<serveVars, open, send, wire, bridgeVars, published>>

-----------------------------------------------------------------------------
(* The goroutine of a subscription, and Broadcast *)

Idle(s) == Running(s) /\ todo[s] = {}

\* Variant: every client of the hub.
BeginBroadcastToAll(s) ==
    /\ Idle(s)
    /\ inbox[s] # <<>>
    /\ event' = [event EXCEPT ![s] = Head(inbox[s])]
    /\ inbox' = [inbox EXCEPT ![s] = Tail(@)]
    /\ todo' = [todo EXCEPT ![s] = UNION {clients[p] : p \in Polls}]
    /\ UNCHANGED <<serveVars, socketVars, bridge, cancelled, published>>

\* An event arrives on the channel of sub, and Broadcast copies the clients
\* of the poll under mu.
BeginBroadcast(s) ==
    /\ Idle(s)
    /\ inbox[s] # <<>>
    /\ event' = [event EXCEPT ![s] = Head(inbox[s])]
    /\ inbox' = [inbox EXCEPT ![s] = Tail(@)]
    /\ todo' = [todo EXCEPT ![s] = clients[watch[s]]]
    /\ UNCHANGED <<serveVars, socketVars, bridge, cancelled, published>>

\* Variant: a plain send, which blocks while the buffer is full.
SendBlocking(s, c) ==
    /\ c \in todo[s]
    /\ todo' = [todo EXCEPT ![s] = @ \ {c}]
    /\ Len(send[c]) < BufSize
    /\ send' = [send EXCEPT ![c] = Append(@,
                   [from |-> s, poll |-> watch[s], n |-> event[s]])]
    /\ UNCHANGED <<serveVars, open, writer, wire, bridge, cancelled, inbox, event, published>>

\* Variant: the default case drops the event and keeps the client.
SendOrSkip(s, c) ==
    /\ c \in todo[s]
    /\ todo' = [todo EXCEPT ![s] = @ \ {c}]
    /\ send' = [send EXCEPT ![c] =
                   IF Len(@) < BufSize
                   THEN Append(@, [from |-> s, poll |-> watch[s], n |-> event[s]])
                   ELSE @]
    /\ UNCHANGED <<serveVars, open, writer, wire, bridge, cancelled, inbox, event, published>>

\* Variant: an unbounded buffer.
SendUnbounded(s, c) ==
    /\ c \in todo[s]
    /\ todo' = [todo EXCEPT ![s] = @ \ {c}]
    /\ send' = [send EXCEPT ![c] = Append(@,
                   [from |-> s, poll |-> watch[s], n |-> event[s]])]
    /\ UNCHANGED <<serveVars, open, writer, wire, bridge, cancelled, inbox, event, published>>

\* The select on c.send, with the copy of the clients and without any lock:
\* a full buffer closes the socket instead of blocking.
SendTo(s, c) ==
    /\ c \in todo[s]
    /\ todo' = [todo EXCEPT ![s] = @ \ {c}]
    /\ \/ /\ Len(send[c]) < BufSize
          /\ send' = [send EXCEPT ![c] = Append(@,
                         [from |-> s, poll |-> watch[s], n |-> event[s]])]
          /\ UNCHANGED open
       \/ /\ Len(send[c]) >= BufSize
          /\ open' = [open EXCEPT ![c] = FALSE]
          /\ UNCHANGED send
    /\ UNCHANGED <<serveVars, writer, wire, bridge, cancelled, inbox, event, published>>

\* ctx.Done: sub.Close and close(done); what is left of the inbox is dropped.
EndBridge(s) ==
    /\ Idle(s)
    /\ cancelled[s]
    /\ bridge' = [bridge EXCEPT ![s] = "exit"]
    /\ inbox' = [inbox EXCEPT ![s] = <<>>]
    /\ UNCHANGED <<serveVars, socketVars, cancelled, event, todo, published>>

\* The number of events that a running subscription has received.
Received(s) == event[s] + Len(inbox[s])

\* Redis hands an event to the subscriptions of the poll's channel whose
\* connection is up.  The client restores a broken connection by itself, and
\* nothing replays what was published meanwhile.
PublishEvent(p) ==
    /\ published[p] < MaxEvents
    /\ published' = [published EXCEPT ![p] = @ + 1]
    /\ \E up \in SUBSET {s \in Conns : Running(s) /\ watch[s] = p} :
           inbox' = [s \in Conns |->
                        IF s \in up THEN Append(inbox[s], Received(s) + 1) ELSE inbox[s]]
    /\ UNCHANGED <<serveVars, socketVars, bridge, cancelled, event, todo>>

-----------------------------------------------------------------------------
\* The steps a connection's own goroutines take without help from outside.
ServeStep(c) ==
    \/ Register(c)
    \/ LockSubscriptions(c)
    \/ Subscribed(c) \/ SubscribeFailed(c)
    \/ ReadClosed(c)
    \/ Unregister(c)
    \/ TakeSubscription(c)
    \/ CancelSubscription(c)
    \/ Awaited(c)

WriteStep(c) == WriteEvent(c) \/ WriteFails(c) \/ PingFails(c)

BridgeStep(s) ==
    \/ BeginBroadcast(s)
    \/ \E c \in Conns : SendTo(s, c)
    \/ EndBridge(s)

Next ==
    \/ \E c \in Conns :
           \/ ServeStep(c) \/ WriteStep(c) \/ BridgeStep(c)
           \/ PeerGone(c) \/ PingBreaks(c)
    \/ \E p \in Polls : PublishEvent(p)

Spec == Init /\ [][Next]_vars

\* Goroutines are scheduled, the ticker of writePump fires, timers expire,
\* and Redis answers SUBSCRIBE.  Browsers, networks and publishers owe
\* nothing.
Fairness ==
    \A c \in Conns :
        /\ WF_vars(ServeStep(c))
        /\ WF_vars(WriteStep(c))
        /\ WF_vars(BridgeStep(c))

FairSpec == Spec /\ Fairness

-----------------------------------------------------------------------------
(* Safety *)

\* No subscription outlives its viewers: a poll without clients has none in
\* subs, unless a goroutine is on its way to stop it ("torn down to avoid
\* leaking goroutines", Unregister).
NoLeakedSubscription ==
    \A p \in Polls :
        (subs[p] # NoSub /\ clients[p] = {}) =>
            \E c \in Conns : watch[c] = p /\ pc[c] = "stop"

\* Every bridging goroutine that nobody is cancelling is the one in subs: a
\* poll never has two goroutines that both believe they are its bridge.
NoOrphanBridge ==
    \A s \in Conns :
        (Running(s) /\ ~cancelled[s]) =>
            \/ subs[watch[s]] = s
            \/ \E c \in Conns : pc[c] = "cancel" /\ victim[c] = s

\* What one subscription brought to a browser is a gapless stretch of the
\* events that the subscription received: after event n the next one from it is
\* n + 1.  A slow client is disconnected, never skipped; only Redis loses events.
Gapless(q) ==
    \A i, j \in DOMAIN q :
        (/\ i < j /\ q[i].from = q[j].from
         /\ \A k \in (i + 1)..(j - 1) : q[k].from # q[i].from)
            => q[j].n = q[i].n + 1

NoSilentGap == \A c \in Conns : Gapless(wire[c])

\* "Broadcasts updates only to the clients of the affected poll".
OnlyOwnPoll ==
    \A c \in Conns : \A i \in DOMAIN wire[c] : wire[c][i].poll = watch[c]

(* Liveness *)

\* A connection whose socket is closed is unregistered and its goroutine
\* ends: no cycle of waiting on mu, subsMu, done and the pumps.
ClosedConnectionsEnd ==
    \A c \in Conns : ~open[c] ~> (pc[c] = "gone" /\ writer[c] # "run")

\* A cancelled bridge ends, even if nobody waits for it any more.
CancelledBridgesEnd == \A s \in Conns : cancelled[s] ~> ~Running(s)

\* An event that reached the bridge of a client's poll is written to the
\* client, or the client is disconnected, or the bridge was cancelled.
Wrote(c, n) == \E i \in DOMAIN wire[c] : wire[c][i].n = n

DeliveredOrDisconnected ==
    \A c, s \in Conns : \A n \in 1..MaxEvents :
        (/\ subs[watch[s]] = s /\ c \in clients[watch[s]]
         /\ \E i \in DOMAIN inbox[s] : inbox[s][i] = n)
            ~> (Wrote(c, n) \/ ~open[c] \/ cancelled[s])

-----------------------------------------------------------------------------
(* A statement of the sources' comments that the code does not keep. *)

\* websocket_service.go, Register: "lazily starts the Redis subscriber for its
\* poll when it is the first viewer".  When no goroutine is inside Register,
\* Unregister or stopSubscription, a poll with viewers has a subscription
\* (none failed: that is another matter).
Settled(c) == pc[c] \in {"register", "serve", "gone"}

ViewersAreSubscribed ==
    \A p \in Polls :
        (clients[p] # {} /\ \A c \in Conns : watch[c] = p => Settled(c))
            => subs[p] # NoSub

=============================================================================
