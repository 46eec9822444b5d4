----------------------------- MODULE PageSocket -----------------------------
(***************************************************************************)
(* useWebSocket: the hook by which one poll page keeps a WebSocket to the   *)
(* poll of its route.  The browser runs one handler at a time, so a handler *)
(* (an effect with its cleanup, onopen, onmessage, onclose, a timer) is one *)
(* step.  Sockets outlive the reference the hook keeps: one that is closing *)
(* may still run its onclose while its successor is in use.                 *)
(*                                                                         *)
(* Waiting times are not modelled, so retryRef, which only chooses a delay, *)
(* and the heartbeat, whose messages the server's read loop discards, have  *)
(* no state here.                                                           *)
(***************************************************************************)
EXTENDS Naturals, Sequences

CONSTANTS
    Polls,
    Sockets,    \* WebSocket objects; one that has closed is used again
    Bridges,    \* the goroutines of the hubs, on any instance, that broadcast
    PollOf,     \* ... and the poll of each
    None,       \* null: no poll, no socket
    MaxTimers,  \* bound on the timers pending when the route changes
    MaxEvents   \* bound on the events that a bridge broadcasts

ASSUME PageSocketAssumption ==
    /\ None \notin Polls \union Sockets \union Bridges
    /\ PollOf \in [Bridges -> Polls]
    /\ MaxTimers \in Nat
    /\ MaxEvents \in Nat

VARIABLES
    route,            \* the poll id of the route, None once the page is left
    pollIdRef,
    shouldReconnect,  \* shouldReconnectRef
    socketRef,
    timers,           \* number of pending reconnect timers
    connected,
    live,             \* the event that last set results and totalVotes
    readyState,
    peer,             \* the poll in a socket's URL
    hasOnclose,       \* the socket's onclose is not null
    joined,           \* the bridges that count the socket among their clients
    wire,             \* events on their way to the browser
    relayed           \* number of events that each bridge has broadcast

hookVars   == <<route, pollIdRef, shouldReconnect, socketRef, timers, connected, live>>
socketVars == <<readyState, peer, hasOnclose, joined, wire>>
pageSocketVars == <<hookVars, socketVars, relayed>>

ReadyState == {"CONNECTING", "OPEN", "CLOSING", "CLOSED"}

\* An event is numbered by the bridge that broadcasts it.
Event == [from : Bridges, type : {"poll_update", "poll_closed"}, n : 1..MaxEvents]
Shown == [from : Bridges, n : 1..MaxEvents]
NothingShown == [from |-> None, n |-> 0]

PageSocketTypeOK ==
    /\ route \in Polls \union {None}
    /\ pollIdRef \in Polls
    /\ shouldReconnect \in BOOLEAN
    /\ socketRef \in Sockets \union {None}
    /\ timers \in Nat
    /\ connected \in BOOLEAN
    /\ live \in Shown \union {NothingShown}
    /\ readyState \in [Sockets -> ReadyState]
    /\ peer \in [Sockets -> Polls \union {None}]
    /\ hasOnclose \in [Sockets -> BOOLEAN]
    /\ joined \in [Sockets -> SUBSET Bridges]
    /\ wire \in [Sockets -> Seq(Event)]
    /\ relayed \in [Bridges -> 0..MaxEvents]

Live(s) == readyState[s] \in {"OPEN", "CONNECTING"}

\* The state after the hook's first effect: one socket is connecting.
PageSocketInit ==
    \E p \in Polls, s \in Sockets :
        /\ route = p
        /\ pollIdRef = p
        /\ shouldReconnect = TRUE
        /\ socketRef = s
        /\ timers = 0
        /\ connected = FALSE
        /\ live = NothingShown
        /\ readyState = [t \in Sockets |-> IF t = s THEN "CONNECTING" ELSE "CLOSED"]
        /\ peer = [t \in Sockets |-> IF t = s THEN p ELSE None]
        /\ hasOnclose = [t \in Sockets |-> t = s]
        /\ joined = [t \in Sockets |-> {}]
        /\ wire = [t \in Sockets |-> <<>>]
        /\ relayed = [b \in Bridges |-> 0]

-----------------------------------------------------------------------------
(* connect.  A "Variant" is a mistaken form of the definition after it.      *)

\* new WebSocket, once the handler has left the sockets as in `ready`.
OpenSocket(s, p, ready, onclose) ==
    /\ ready[s] = "CLOSED"
    /\ socketRef' = s
    /\ readyState' = [ready EXCEPT ![s] = "CONNECTING"]
    /\ hasOnclose' = [onclose EXCEPT ![s] = TRUE]
    /\ peer' = [peer EXCEPT ![s] = p]
    /\ UNCHANGED <<joined, wire>>

InUse == socketRef # None /\ Live(socketRef)

\* Variant: without the test of the current socket.
ConnectAlways ==
    \E s \in Sockets : OpenSocket(s, pollIdRef, readyState, hasOnclose)

\* Nothing to do while the current socket is open or connecting.  A closing
\* one is replaced although its onclose is still to come.
Connect ==
    \/ InUse /\ UNCHANGED <<socketRef, socketVars>>
    \/ ~InUse /\ \E s \in Sockets : OpenSocket(s, pollIdRef, readyState, hasOnclose)

\* The timer that onclose set.  No cleanup clears it, so it may fire for a
\* later route than the one it was set for.
TimerFires ==
    /\ timers > 0
    /\ timers' = timers - 1
    /\ \/ shouldReconnect /\ Connect
       \/ ~shouldReconnect /\ UNCHANGED <<socketRef, socketVars>>
    /\ UNCHANGED <<route, pollIdRef, shouldReconnect, connected, live, relayed>>

-----------------------------------------------------------------------------
(* The effects *)

\* The sockets after the cleanup: the current one loses its onclose and is
\* closed, which does nothing to one that is closing or closed already.
CleanReady ==
    [s \in Sockets |-> IF s = socketRef /\ Live(s) THEN "CLOSING" ELSE readyState[s]]
CleanOnclose == [s \in Sockets |-> hasOnclose[s] /\ s # socketRef]

\* Variant: a cleanup that only drops the reference.
NavigateWithoutClose(p) ==
    /\ route \notin {None, p}
    /\ timers < MaxTimers
    /\ route' = p
    /\ pollIdRef' = p
    /\ shouldReconnect' = TRUE
    /\ connected' = FALSE
    /\ \E s \in Sockets : OpenSocket(s, p, readyState, hasOnclose)
    /\ UNCHANGED <<timers, live, relayed>>

\* Variant: without setConnected(false).
NavigateStillConnected(p) ==
    /\ route \notin {None, p}
    /\ timers < MaxTimers
    /\ route' = p
    /\ pollIdRef' = p
    /\ shouldReconnect' = TRUE
    /\ \E s \in Sockets : OpenSocket(s, p, CleanReady, CleanOnclose)
    /\ UNCHANGED <<timers, connected, live, relayed>>

\* The route changes to another poll: cleanup, then both effects.  results
\* and totalVotes stay.
Navigate(p) ==
    /\ route \notin {None, p}
    /\ timers < MaxTimers
    /\ route' = p
    /\ pollIdRef' = p
    /\ shouldReconnect' = TRUE
    /\ connected' = FALSE
    /\ \E s \in Sockets : OpenSocket(s, p, CleanReady, CleanOnclose)
    /\ UNCHANGED <<timers, live, relayed>>

\* The page is left: only the cleanup runs.
Leave ==
    /\ route # None
    /\ route' = None
    /\ shouldReconnect' = FALSE
    /\ socketRef' = None
    /\ readyState' = CleanReady
    /\ hasOnclose' = CleanOnclose
    /\ UNCHANGED <<pollIdRef, timers, connected, live, peer, joined, wire, relayed>>

-----------------------------------------------------------------------------
(* Events of a socket *)

\* onopen.  A socket that was closed while connecting never opens.
Opens(s) ==
    /\ readyState[s] = "CONNECTING"
    /\ readyState' = [readyState EXCEPT ![s] = "OPEN"]
    /\ connected' = TRUE
    /\ UNCHANGED <<route, pollIdRef, shouldReconnect, socketRef, timers, live,
                   peer, hasOnclose, joined, wire, relayed>>

\* Variant: without the tests of the type and of Array.isArray: poll_closed,
\* which has no results, sets them to null.
MessageUnchecked(s) ==
    /\ readyState[s] = "OPEN"
    /\ wire[s] # <<>>
    /\ wire' = [wire EXCEPT ![s] = Tail(@)]
    /\ LET msg == Head(wire[s]) IN
           live' = [from |-> msg.from,
                    n |-> IF msg.type = "poll_update" THEN msg.n ELSE None]
    /\ UNCHANGED <<route, pollIdRef, shouldReconnect, socketRef, timers, connected,
                   readyState, peer, hasOnclose, joined, relayed>>

\* onmessage: a poll_update replaces the live results; "poll_closed" is
\* none of the types it knows.
Message(s) ==
    /\ readyState[s] = "OPEN"
    /\ wire[s] # <<>>
    /\ wire' = [wire EXCEPT ![s] = Tail(@)]
    /\ LET msg == Head(wire[s]) IN
           live' = IF msg.type = "poll_update"
                   THEN [from |-> msg.from, n |-> msg.n] ELSE live
    /\ UNCHANGED <<route, pollIdRef, shouldReconnect, socketRef, timers, connected,
                   readyState, peer, hasOnclose, joined, relayed>>

\* A close frame has arrived; the close event is still to come.
BeginsToClose(s) ==
    /\ readyState[s] = "OPEN"
    /\ readyState' = [readyState EXCEPT ![s] = "CLOSING"]
    /\ UNCHANGED <<hookVars, peer, hasOnclose, joined, wire, relayed>>

SocketCloses(s) ==
    /\ readyState[s] # "CLOSED"
    /\ readyState' = [readyState EXCEPT ![s] = "CLOSED"]
    /\ joined' = [joined EXCEPT ![s] = {}]
    /\ wire' = [wire EXCEPT ![s] = <<>>]
    /\ hasOnclose' = [hasOnclose EXCEPT ![s] = FALSE]
    /\ peer' = [peer EXCEPT ![s] = None]
    /\ UNCHANGED <<route, pollIdRef, shouldReconnect, live, relayed>>

\* Variant: onclose without setTimeout.
ClosedNoRetry(s) ==
    /\ SocketCloses(s)
    /\ connected' = (connected /\ ~hasOnclose[s])
    /\ UNCHANGED <<socketRef, timers>>

\* The close event, and onclose unless the cleanup has removed it.  It does
\* not ask whether s is still the current socket.
Closed(s) ==
    /\ SocketCloses(s)
    /\ \/ ~hasOnclose[s] /\ UNCHANGED <<connected, timers, socketRef>>
       \/ /\ hasOnclose[s]
          /\ connected' = FALSE
          /\ \/ ~shouldReconnect /\ socketRef' = None /\ UNCHANGED timers
             \/ shouldReconnect /\ timers' = timers + 1 /\ UNCHANGED socketRef

-----------------------------------------------------------------------------
(* The server's side *)

\* The hub of some instance has the connection among its clients, some time
\* after the upgrade: from now on the hub's bridge for the poll serves it, and
\* beside that one perhaps a cancelled predecessor.
Join(s, b) ==
    /\ Live(s)
    /\ PollOf[b] = peer[s]
    /\ b \notin joined[s]
    /\ joined' = [joined EXCEPT ![s] = @ \union {b}]
    /\ UNCHANGED <<hookVars, readyState, peer, hasOnclose, wire, relayed>>

\* Bridge b broadcasts the next event.  A connection that joins gets none of
\* the earlier ones; other bridges of the poll may be ahead or behind.
Relay(b, type) ==
    /\ relayed[b] < MaxEvents
    /\ relayed' = [relayed EXCEPT ![b] = @ + 1]
    /\ wire' = [s \in Sockets |->
                   IF b \in joined[s] /\ Live(s)
                   THEN Append(wire[s], [from |-> b, type |-> type, n |-> relayed[b] + 1])
                   ELSE wire[s]]
    /\ UNCHANGED <<hookVars, readyState, peer, hasOnclose, joined>>

SocketStep(s) ==
    \/ Opens(s) \/ Message(s) \/ BeginsToClose(s) \/ Closed(s)
    \/ \E b \in Bridges : Join(s, b)

PageSocketNext ==
    \/ \E s \in Sockets : SocketStep(s)
    \/ TimerFires
    \/ \E p \in Polls : Navigate(p)
    \/ Leave
    \/ \E b \in Bridges, type \in {"poll_update", "poll_closed"} : Relay(b, type)

PageSocketSpec == PageSocketInit /\ [][PageSocketNext]_pageSocketVars

\* Timers fire, and a closing handshake ends (at the latest by a timeout of
\* the browser).  Users, servers and networks owe nothing else.
PageSocketFairness ==
    /\ WF_pageSocketVars(TimerFires)
    /\ \A s \in Sockets : WF_pageSocketVars(readyState[s] = "CLOSING" /\ Closed(s))

PageSocketFairSpec == PageSocketSpec /\ PageSocketFairness

-----------------------------------------------------------------------------
\* Of all the sockets the hook has opened at most one is open or connecting,
\* whatever timers, cleanups and late close events interleave: else each
\* event would be shown twice and the server would keep a leaked connection.
\* It is a socket to the poll in the route; after the page is left there is
\* none, although a reconnect timer may still be pending.
OneLiveSocket ==
    \A s \in Sockets : Live(s) =>
        peer[s] = route /\ \A t \in Sockets : Live(t) => s = t

\* The page claims live updates only while a socket is open or its close
\* event is still to come.
ConnectedMeansSocket ==
    (connected /\ route # None) =>
        \E s \in Sockets : hasOnclose[s] /\ readyState[s] \in {"OPEN", "CLOSING"}

\* While the live results shown come from one bridge they never go back to an
\* earlier broadcast, across reconnects and route changes, although sockets
\* that are closing overlap with their successors.  (Another bridge of the poll
\* may be behind the one whose events were shown.)
LiveNeverGoesBack ==
    [][live'.from = live.from => live'.n >= live.n]_pageSocketVars

\* A page whose socket is lost opens another one, for as long as it is not
\* left ("onclose handles reconnection").
Reconnects == (route # None /\ ~InUse) ~> (InUse \/ route = None)

=============================================================================
