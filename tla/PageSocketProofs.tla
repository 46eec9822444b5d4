--------------------------- MODULE PageSocketProofs ---------------------------
(***************************************************************************)
(* Proofs about PageSocket, for every set of polls and sockets and every    *)
(* number of timers and events.                                             *)
(***************************************************************************)
EXTENDS PageSocket, SequenceTheorems, TLAPS

-----------------------------------------------------------------------------
(* What connect and the cleanup do to the sockets *)

\* The part of the type that opening and closing sockets touches.
SocketTypes ==
    /\ socketRef \in Sockets \union {None}
    /\ readyState \in [Sockets -> ReadyState]
    /\ peer \in [Sockets -> Polls \union {None}]
    /\ hasOnclose \in [Sockets -> BOOLEAN]

LEMMA CleanType ==
    ASSUME PageSocketTypeOK
    PROVE  /\ CleanReady \in [Sockets -> ReadyState]
           /\ CleanOnclose \in [Sockets -> BOOLEAN]
BY DEF PageSocketTypeOK, CleanReady, CleanOnclose, ReadyState

LEMMA OpenSocketType ==
    ASSUME PageSocketTypeOK, NEW s \in Sockets, NEW p \in Polls,
           NEW ready \in [Sockets -> ReadyState],
           NEW onclose \in [Sockets -> BOOLEAN],
           OpenSocket(s, p, ready, onclose)
    PROVE  SocketTypes'
BY DEF PageSocketTypeOK, OpenSocket, SocketTypes, ReadyState

LEMMA NavigateType ==
    ASSUME PageSocketTypeOK, NEW p \in Polls, Navigate(p)
    PROVE  PageSocketTypeOK'
<1>1. SocketTypes'
  BY CleanType, OpenSocketType DEF Navigate
<1>2. joined' = joined /\ wire' = wire
  BY DEF Navigate, OpenSocket
<1> QED
  BY <1>1, <1>2 DEF PageSocketTypeOK, SocketTypes, Navigate

LEMMA TimerType ==
    ASSUME PageSocketTypeOK, TimerFires
    PROVE  PageSocketTypeOK'
<1>1. SocketTypes' /\ joined' = joined /\ wire' = wire
  <2>1. CASE UNCHANGED <<socketRef, socketVars>>
    BY <2>1 DEF PageSocketTypeOK, SocketTypes, socketVars
  <2>2. CASE \E s \in Sockets : OpenSocket(s, pollIdRef, readyState, hasOnclose)
    <3>1. PICK s \in Sockets : OpenSocket(s, pollIdRef, readyState, hasOnclose)
      BY <2>2
    <3>2. SocketTypes'
      BY <3>1, OpenSocketType DEF PageSocketTypeOK
    <3> QED
      BY <3>1, <3>2 DEF OpenSocket
  <2> QED
    BY <2>1, <2>2 DEF TimerFires, Connect
<1>2. timers' \in Nat
  BY DEF TimerFires, PageSocketTypeOK
<1> QED
  BY <1>1, <1>2 DEF PageSocketTypeOK, SocketTypes, TimerFires

LEMMA LeaveType ==
    ASSUME PageSocketTypeOK, Leave
    PROVE  PageSocketTypeOK'
BY CleanType DEF PageSocketTypeOK, Leave

\* Both cases of msg.type leave a well-typed `live`.
LEMMA MessageType ==
    ASSUME PageSocketTypeOK, NEW s \in Sockets, Message(s)
    PROVE  PageSocketTypeOK'
<1>1. /\ wire \in [Sockets -> Seq(Event)] /\ wire[s] \in Seq(Event) /\ wire[s] # <<>>
      /\ live \in Shown \union {NothingShown}
  BY DEF PageSocketTypeOK, Message
<1>2. Head(wire[s]) \in Event /\ Tail(wire[s]) \in Seq(Event)
  BY <1>1
<1>3. live' \in Shown \union {NothingShown}
  BY <1>1, <1>2 DEF Message, Event, Shown
<1>4. wire' \in [Sockets -> Seq(Event)]
  BY <1>1, <1>2 DEF Message
<1> QED
  BY <1>3, <1>4 DEF PageSocketTypeOK, Message

LEMMA RelayType ==
    ASSUME PageSocketTypeOK, NEW b \in Bridges,
           NEW type \in {"poll_update", "poll_closed"}, Relay(b, type)
    PROVE  PageSocketTypeOK'
<1>1. relayed[b] + 1 \in 1..MaxEvents /\ relayed' \in [Bridges -> 0..MaxEvents]
  BY PageSocketAssumption DEF PageSocketTypeOK, Relay
<1>2. [from |-> b, type |-> type, n |-> relayed[b] + 1] \in Event
  BY <1>1 DEF Event
<1>3. wire' \in [Sockets -> Seq(Event)]
  BY <1>2 DEF PageSocketTypeOK, Relay
<1> QED
  BY <1>1, <1>3 DEF PageSocketTypeOK, Relay, hookVars

LEMMA SocketStepType ==
    ASSUME PageSocketTypeOK, NEW s \in Sockets, SocketStep(s)
    PROVE  PageSocketTypeOK'
<1>1. CASE Opens(s)
  BY <1>1 DEF PageSocketTypeOK, Opens, ReadyState
<1>2. CASE Message(s)
  BY <1>2, MessageType
<1>3. CASE BeginsToClose(s)
  BY <1>3 DEF PageSocketTypeOK, BeginsToClose, hookVars, ReadyState
<1>4. CASE Closed(s)
  <2>1. <<>> \in Seq(Event)
    OBVIOUS
  <2>2. /\ wire' \in [Sockets -> Seq(Event)]
        /\ peer' \in [Sockets -> Polls \union {None}]
        /\ readyState' \in [Sockets -> ReadyState]
    BY <1>4, <2>1 DEF PageSocketTypeOK, Closed, SocketCloses, ReadyState
  <2>3. /\ joined' \in [Sockets -> SUBSET Bridges] /\ hasOnclose' \in [Sockets -> BOOLEAN]
    BY <1>4 DEF PageSocketTypeOK, Closed, SocketCloses
  <2>4. connected' \in BOOLEAN /\ (timers' = timers \/ timers' = timers + 1)
    BY <1>4 DEF PageSocketTypeOK, Closed
  <2>5. timers' \in Nat
    BY <2>4 DEF PageSocketTypeOK
  <2>6. socketRef' \in Sockets \union {None}
    BY <1>4 DEF PageSocketTypeOK, Closed
  <2> QED
    BY <1>4, <2>2, <2>3, <2>4, <2>5, <2>6 DEF PageSocketTypeOK, Closed, SocketCloses
<1>5. CASE \E b \in Bridges : Join(s, b)
  BY <1>5 DEF PageSocketTypeOK, Join, hookVars
<1> QED
  BY <1>1, <1>2, <1>3, <1>4, <1>5 DEF SocketStep

LEMMA TypeInit == PageSocketInit => PageSocketTypeOK
<1> SUFFICES ASSUME PageSocketInit PROVE PageSocketTypeOK
  OBVIOUS
<1>1. 0 \in 0..MaxEvents /\ 0 \in Nat /\ <<>> \in Seq(Event)
  BY PageSocketAssumption
<1>2. PICK p \in Polls, s \in Sockets : PageSocketInit!(p, s)
  BY DEF PageSocketInit
<1>3. readyState \in [Sockets -> ReadyState]
  BY <1>2 DEF ReadyState
<1>4. peer \in [Sockets -> Polls \union {None}] /\ hasOnclose \in [Sockets -> BOOLEAN]
  BY <1>2
<1> QED
  BY <1>1, <1>2, <1>3, <1>4 DEF PageSocketTypeOK

LEMMA TypeStep == PageSocketTypeOK /\ [PageSocketNext]_pageSocketVars => PageSocketTypeOK'
<1> SUFFICES ASSUME PageSocketTypeOK, [PageSocketNext]_pageSocketVars
             PROVE  PageSocketTypeOK'
  OBVIOUS
<1>1. CASE UNCHANGED pageSocketVars
  BY <1>1 DEF PageSocketTypeOK, pageSocketVars, hookVars, socketVars
<1> QED
  BY <1>1, SocketStepType, TimerType, NavigateType, LeaveType, RelayType
     DEF PageSocketNext

\* Every reachable state of the hook and its sockets is well typed.
THEOREM TypeCorrect == PageSocketSpec => []PageSocketTypeOK
BY TypeInit, TypeStep, PTL DEF PageSocketSpec

-----------------------------------------------------------------------------
(* The sockets of a hook *)

\* What the handlers keep true: a socket in use is the current one, belongs to
\* the route and has its onclose; the references follow the route.
RefsInv ==
    /\ \A s \in Sockets :
           Live(s) => /\ s = socketRef /\ route # None
                      /\ peer[s] = route /\ hasOnclose[s]
    /\ route # None => pollIdRef = route /\ shouldReconnect
    /\ route = None => ~shouldReconnect

HookInv == RefsInv /\ ConnectedMeansSocket

LEMMA HookInit == PageSocketInit => HookInv
<1> SUFFICES ASSUME PageSocketInit PROVE HookInv
  OBVIOUS
<1>1. PICK p \in Polls, s \in Sockets : PageSocketInit!(p, s)
  BY DEF PageSocketInit
<1>2. p # None
  BY PageSocketAssumption
<1>3. RefsInv
  BY <1>1, <1>2 DEF RefsInv, Live
<1> QED
  BY <1>1, <1>3 DEF HookInv, ConnectedMeansSocket

\* After the cleanup no socket is in use.
LEMMA CleanIsIdle ==
    ASSUME RefsInv, NEW s \in Sockets
    PROVE  CleanReady[s] \notin {"OPEN", "CONNECTING"}
BY DEF RefsInv, CleanReady, Live

LEMMA NavigateHook ==
    ASSUME PageSocketTypeOK, HookInv, NEW p \in Polls, Navigate(p)
    PROVE  HookInv'
<1>1. PICK s \in Sockets : OpenSocket(s, p, CleanReady, CleanOnclose)
  BY DEF Navigate
<1>2. p # None /\ route' = p /\ pollIdRef' = p /\ shouldReconnect' /\ ~connected'
  BY PageSocketAssumption DEF Navigate
<1>3. ASSUME NEW t \in Sockets, Live(t)' PROVE t = s
  <2>1. readyState' = [CleanReady EXCEPT ![s] = "CONNECTING"]
    BY <1>1 DEF OpenSocket
  <2>2. t # s => readyState'[t] = CleanReady[t]
    BY <2>1
  <2> QED
    BY <1>3, <2>2, CleanIsIdle DEF HookInv, Live
<1>4. peer'[s] = p /\ hasOnclose'[s] /\ socketRef' = s
  BY <1>1, CleanType DEF OpenSocket, PageSocketTypeOK
<1>5. RefsInv'
  BY <1>2, <1>3, <1>4 DEF RefsInv
<1> QED
  BY <1>2, <1>5 DEF HookInv, ConnectedMeansSocket

LEMMA TimerHook ==
    ASSUME PageSocketTypeOK, HookInv, TimerFires
    PROVE  HookInv'
<1>0. UNCHANGED <<route, pollIdRef, shouldReconnect, connected>>
  BY DEF TimerFires
<1>1. CASE UNCHANGED <<socketRef, socketVars>>
  BY <1>0, <1>1 DEF HookInv, RefsInv, ConnectedMeansSocket, Live, socketVars
<1>2. CASE shouldReconnect /\ ~InUse
           /\ \E s \in Sockets : OpenSocket(s, pollIdRef, readyState, hasOnclose)
  <2>1. PICK s \in Sockets : OpenSocket(s, pollIdRef, readyState, hasOnclose)
    BY <1>2
  <2>2. \A t \in Sockets : ~Live(t)
    BY <1>2, PageSocketAssumption DEF HookInv, RefsInv, InUse, Live
  <2>3. /\ readyState[s] = "CLOSED" /\ socketRef' = s
        /\ readyState' = [readyState EXCEPT ![s] = "CONNECTING"]
        /\ peer' = [peer EXCEPT ![s] = pollIdRef]
        /\ hasOnclose' = [hasOnclose EXCEPT ![s] = TRUE]
    BY <2>1 DEF OpenSocket
  <2>4. \A t \in Sockets : Live(t)' => t = s
    BY <2>2, <2>3 DEF Live, PageSocketTypeOK
  <2>5. peer'[s] = pollIdRef /\ hasOnclose'[s]
    BY <2>3 DEF PageSocketTypeOK
  <2>6. route # None /\ pollIdRef = route
    BY <1>2 DEF HookInv, RefsInv
  <2>7. RefsInv'
    BY <1>0, <2>3, <2>4, <2>5, <2>6 DEF HookInv, RefsInv
  <2>8. ConnectedMeansSocket'
    <3> SUFFICES ASSUME connected
                 PROVE  \E t \in Sockets :
                            hasOnclose'[t] /\ readyState'[t] \in {"OPEN", "CLOSING"}
      BY <1>0, <2>6 DEF ConnectedMeansSocket
    <3>1. PICK t \in Sockets : hasOnclose[t] /\ readyState[t] \in {"OPEN", "CLOSING"}
      BY <2>6 DEF HookInv, ConnectedMeansSocket
    <3>2. t # s
      BY <2>3, <3>1
    <3> QED
      BY <2>3, <3>1, <3>2 DEF PageSocketTypeOK
  <2> QED
    BY <2>7, <2>8 DEF HookInv
<1> QED
  BY <1>1, <1>2 DEF TimerFires, Connect

LEMMA LeaveHook ==
    ASSUME PageSocketTypeOK, HookInv, Leave
    PROVE  HookInv'
<1>1. \A s \in Sockets : ~Live(s)'
  BY CleanIsIdle DEF HookInv, Leave, Live
<1> QED
  BY <1>1 DEF HookInv, RefsInv, ConnectedMeansSocket, Leave

LEMMA ClosedHook ==
    ASSUME PageSocketTypeOK, HookInv, NEW s \in Sockets, Closed(s)
    PROVE  HookInv'
<1>1. /\ readyState' = [readyState EXCEPT ![s] = "CLOSED"]
      /\ hasOnclose' = [hasOnclose EXCEPT ![s] = FALSE]
      /\ peer' = [peer EXCEPT ![s] = None]
      /\ UNCHANGED <<route, pollIdRef, shouldReconnect>>
  BY DEF Closed, SocketCloses
<1>2. \A t \in Sockets : t # s => /\ readyState'[t] = readyState[t]
                                  /\ hasOnclose'[t] = hasOnclose[t]
                                  /\ peer'[t] = peer[t]
  BY <1>1 DEF PageSocketTypeOK
<1>3. readyState'[s] = "CLOSED"
  BY <1>1 DEF PageSocketTypeOK
<1>4. route # None => socketRef' = socketRef
  BY DEF Closed, HookInv, RefsInv
<1>5. RefsInv'
  BY <1>1, <1>2, <1>3, <1>4 DEF HookInv, RefsInv, Live
<1>6. CASE hasOnclose[s]
  BY <1>5, <1>6 DEF Closed, HookInv, ConnectedMeansSocket
<1>7. CASE ~hasOnclose[s]
  <2>1. connected' = connected
    BY <1>7 DEF Closed
  <2>2. ASSUME connected, route # None
        PROVE  \E t \in Sockets :
                   hasOnclose'[t] /\ readyState'[t] \in {"OPEN", "CLOSING"}
    <3>1. PICK t \in Sockets : hasOnclose[t] /\ readyState[t] \in {"OPEN", "CLOSING"}
      BY <2>2 DEF HookInv, ConnectedMeansSocket
    <3> QED
      BY <1>2, <1>7, <3>1
  <2> QED
    BY <1>1, <1>5, <2>1, <2>2 DEF HookInv, ConnectedMeansSocket
<1> QED
  BY <1>6, <1>7

LEMMA SocketStepHook ==
    ASSUME PageSocketTypeOK, HookInv, NEW s \in Sockets, SocketStep(s)
    PROVE  HookInv'
<1>1. CASE Opens(s)
  <2>1. /\ readyState' = [readyState EXCEPT ![s] = "OPEN"] /\ Live(s)
        /\ UNCHANGED <<route, pollIdRef, shouldReconnect, socketRef, peer, hasOnclose>>
    BY <1>1 DEF Opens, Live
  <2>2. \A t \in Sockets : Live(t)' => Live(t)
    BY <2>1 DEF Live, PageSocketTypeOK
  <2>3. RefsInv'
    BY <2>1, <2>2 DEF HookInv, RefsInv
  <2>4. hasOnclose'[s] /\ readyState'[s] = "OPEN"
    BY <2>1 DEF HookInv, RefsInv, PageSocketTypeOK
  <2> QED
    BY <2>3, <2>4 DEF HookInv, ConnectedMeansSocket
<1>2. CASE Message(s)
  BY <1>2 DEF Message, HookInv, RefsInv, ConnectedMeansSocket, Live
<1>3. CASE BeginsToClose(s)
  <2>1. /\ readyState' = [readyState EXCEPT ![s] = "CLOSING"] /\ readyState[s] = "OPEN"
        /\ UNCHANGED <<route, pollIdRef, shouldReconnect, socketRef, connected,
                       peer, hasOnclose>>
    BY <1>3 DEF BeginsToClose, hookVars
  <2>2. \A t \in Sockets :
            /\ Live(t)' => Live(t)
            /\ readyState[t] \in {"OPEN", "CLOSING"} => readyState'[t] \in {"OPEN", "CLOSING"}
    BY <2>1 DEF Live, PageSocketTypeOK
  <2>3. RefsInv'
    BY <2>1, <2>2 DEF HookInv, RefsInv
  <2>4. ConnectedMeansSocket'
    BY <2>1, <2>2 DEF HookInv, ConnectedMeansSocket
  <2> QED
    BY <2>3, <2>4 DEF HookInv
<1>4. CASE Closed(s)
  BY <1>4, ClosedHook
<1>5. CASE \E b \in Bridges : Join(s, b)
  BY <1>5 DEF Join, hookVars, HookInv, RefsInv, ConnectedMeansSocket, Live
<1> QED
  BY <1>1, <1>2, <1>3, <1>4, <1>5 DEF SocketStep

LEMMA HookStepInv ==
    PageSocketTypeOK /\ HookInv /\ [PageSocketNext]_pageSocketVars => HookInv'
<1> SUFFICES ASSUME PageSocketTypeOK, HookInv, [PageSocketNext]_pageSocketVars
             PROVE  HookInv'
  OBVIOUS
<1>1. CASE UNCHANGED pageSocketVars
  BY <1>1 DEF HookInv, RefsInv, ConnectedMeansSocket, Live, pageSocketVars, hookVars,
     socketVars
<1>2. CASE \E b \in Bridges, type \in {"poll_update", "poll_closed"} : Relay(b, type)
  BY <1>2 DEF Relay, hookVars, HookInv, RefsInv, ConnectedMeansSocket, Live
<1> QED
  BY <1>1, <1>2, SocketStepHook, TimerHook, NavigateHook, LeaveHook DEF PageSocketNext

LEMMA HookAlways == PageSocketSpec => []HookInv
<1>1. PageSocketInit => HookInv
  BY HookInit
<1>2. PageSocketTypeOK /\ HookInv /\ [PageSocketNext]_pageSocketVars => HookInv'
  BY HookStepInv
<1> QED
  BY <1>1, <1>2, TypeCorrect, PTL DEF PageSocketSpec

\* However timers, cleanups and late close events interleave, the hook never
\* has two sockets in use.
THEOREM OneSocket == PageSocketSpec => []OneLiveSocket
<1>1. HookInv => OneLiveSocket
  BY DEF HookInv, RefsInv, OneLiveSocket
<1> QED
  BY <1>1, HookAlways, PTL

\* `connected` is true only while some socket's onclose can still reset it.
THEOREM ConnectedTruthfully == PageSocketSpec => []ConnectedMeansSocket
<1>1. HookInv => ConnectedMeansSocket
  BY DEF HookInv
<1> QED
  BY <1>1, HookAlways, PTL

-----------------------------------------------------------------------------
(* The order of events *)

\* The events that b brought to w lie between lo, exclusive, and hi, in
\* increasing order.
Ordered(w, b, lo, hi) ==
    \A i \in 1..Len(w) : w[i].from = b =>
        /\ lo < w[i].n /\ w[i].n <= hi
        /\ \A j \in 1..Len(w) : (i < j /\ w[j].from = b) => w[i].n < w[j].n

\* The event of b that the page shows, 0 if it shows none of b.
ShownOf(b) == IF live.from = b THEN live.n ELSE 0

LEMMA EventNumber == \A e \in Event : e.n \in Nat
BY PageSocketAssumption DEF Event

LEMMA Counters ==
    ASSUME PageSocketTypeOK
    PROVE  /\ \A b : ShownOf(b) \in Nat
           /\ \A b \in Bridges : relayed[b] \in Nat
BY PageSocketAssumption DEF ShownOf, PageSocketTypeOK, Shown, NothingShown

LEMMA OrderedTail ==
    ASSUME NEW w \in Seq(Event), NEW lo \in Nat, NEW hi \in Nat, NEW b,
           w # <<>>, Ordered(w, b, lo, hi)
    PROVE  /\ Head(w).from = b =>
                  /\ lo < Head(w).n /\ Head(w).n <= hi
                  /\ Ordered(Tail(w), b, Head(w).n, hi)
           /\ Ordered(Tail(w), b, lo, hi)
<1>1. /\ Len(w) \in Nat /\ Len(w) >= 1 /\ Head(w) = w[1] /\ Len(Tail(w)) = Len(w) - 1
      /\ \A i \in 1..Len(Tail(w)) : Tail(w)[i] = w[i + 1]
  OBVIOUS
<1>2. 1 \in 1..Len(w) /\ \A i \in 1..Len(Tail(w)) : i + 1 \in 1..Len(w) /\ 1 < i + 1
  BY <1>1
<1>3. Head(w).from = b => lo < Head(w).n /\ Head(w).n <= hi
  BY <1>1, <1>2 DEF Ordered
<1>4. ASSUME NEW i \in 1..Len(Tail(w)), Tail(w)[i].from = b
      PROVE  /\ lo < Tail(w)[i].n /\ Tail(w)[i].n <= hi
             /\ Head(w).from = b => Head(w).n < Tail(w)[i].n
             /\ \A j \in 1..Len(Tail(w)) :
                    (i < j /\ Tail(w)[j].from = b) => Tail(w)[i].n < Tail(w)[j].n
  <2>1. i + 1 \in 1..Len(w) /\ 1 < i + 1 /\ w[i + 1].from = b
    BY <1>1, <1>2, <1>4
  <2>2. lo < w[i + 1].n /\ w[i + 1].n <= hi /\ (w[1].from = b => w[1].n < w[i + 1].n)
    BY <1>2, <2>1 DEF Ordered
  <2>3. ASSUME NEW j \in 1..Len(Tail(w)), i < j, Tail(w)[j].from = b
        PROVE  w[i + 1].n < w[j + 1].n
    <3>1. j + 1 \in 1..Len(w) /\ i + 1 < j + 1 /\ w[j + 1].from = b
      BY <1>1, <1>2, <2>3
    <3> QED
      BY <2>1, <3>1 DEF Ordered
  <2> QED
    BY <1>1, <2>2, <2>3
<1> QED
  BY <1>3, <1>4 DEF Ordered

\* Appending the event of b that comes next keeps the order of every bridge c.
LEMMA OrderedAppend ==
    ASSUME NEW w \in Seq(Event), NEW lo \in Nat, NEW hi \in Nat, NEW top \in Nat,
           NEW b, NEW c, Ordered(w, c, lo, hi), NEW e \in Event, e.from = b, hi <= top,
           b = c => lo <= hi /\ e.n = hi + 1 /\ top = hi + 1
    PROVE  Ordered(Append(w, e), c, lo, top)
<1>1. /\ Len(w) \in Nat /\ Len(Append(w, e)) = Len(w) + 1
      /\ Append(w, e)[Len(w) + 1] = e
      /\ \A i \in 1..Len(w) : Append(w, e)[i] = w[i] /\ w[i] \in Event
  OBVIOUS
<1>2. \A i \in 1..Len(w) : w[i].n \in Nat
  BY <1>1, EventNumber
<1> DEFINE v == Append(w, e)
<1> HIDE DEF v
<1>3. /\ Len(v) = Len(w) + 1 /\ v[Len(w) + 1] = e
      /\ \A i \in 1..Len(w) : v[i] = w[i]
  BY <1>1 DEF v
<1>4. ASSUME NEW i \in 1..(Len(w) + 1), v[i].from = c
      PROVE  /\ lo < v[i].n /\ v[i].n <= top
             /\ \A j \in 1..(Len(w) + 1) : (i < j /\ v[j].from = c) => v[i].n < v[j].n
  <2>1. CASE i \in 1..Len(w)
    <3>1. lo < w[i].n /\ w[i].n <= hi /\ w[i].n \in Nat /\ v[i] = w[i]
      BY <1>2, <1>3, <1>4, <2>1 DEF Ordered
    <3>2. ASSUME NEW j \in 1..(Len(w) + 1), i < j, v[j].from = c
          PROVE  w[i].n < v[j].n
      <4>1. CASE j \in 1..Len(w)
        BY <1>3, <1>4, <2>1, <3>1, <3>2, <4>1 DEF Ordered
      <4>2. CASE j = Len(w) + 1
        <5>1. e.from = c /\ v[j] = e
          BY <1>3, <3>2, <4>2
        <5>2. b = c /\ e.n = hi + 1
          BY <5>1
        <5> QED
          BY <3>1, <5>1, <5>2
      <4> QED
        BY <1>1, <4>1, <4>2
    <3> QED
      BY <3>1, <3>2
  <2>2. CASE i = Len(w) + 1
    <3>1. e.from = c /\ v[i] = e
      BY <1>3, <1>4, <2>2
    <3>2. lo <= hi /\ e.n = hi + 1 /\ top = hi + 1
      BY <3>1
    <3> QED
      BY <1>1, <2>2, <3>1, <3>2
  <2> QED
    BY <1>1, <2>1, <2>2
<1> QED
  BY <1>3, <1>4 DEF Ordered, v

\* What a socket in use still has to deliver of a bridge comes after what is
\* shown of that bridge.
WireInv ==
    /\ \A b \in Bridges : ShownOf(b) <= relayed[b]
    /\ \A s \in Sockets :
           /\ readyState[s] = "CLOSED" => wire[s] = <<>>
           /\ Live(s) => \A b \in Bridges : Ordered(wire[s], b, ShownOf(b), relayed[b])

LEMMA OrderedEmpty == \A b, lo, hi : Ordered(<<>>, b, lo, hi)
BY DEF Ordered

LEMMA WireInit == PageSocketInit => WireInv
<1> SUFFICES ASSUME PageSocketInit PROVE WireInv
  OBVIOUS
<1>1. live = NothingShown /\ relayed = [b \in Bridges |-> 0] /\ wire = [t \in Sockets |-> <<>>]
  BY DEF PageSocketInit
<1>2. \A b \in Bridges : ShownOf(b) = 0
  BY <1>1 DEF ShownOf, NothingShown
<1> QED
  BY <1>1, <1>2, OrderedEmpty DEF WireInv

\* A handler that touches neither the events nor what is shown: a socket that
\* comes into use had closed before, so its wire is empty.
LEMMA WireKept ==
    ASSUME WireInv, UNCHANGED <<live, wire, relayed>>,
           \A s \in Sockets : readyState'[s] = "CLOSED" => readyState[s] = "CLOSED",
           \A s \in Sockets : Live(s)' => readyState[s] = "CLOSED" \/ Live(s)
    PROVE  WireInv'
<1>1. \A b : ShownOf(b)' = ShownOf(b)
  BY DEF ShownOf
<1>2. ASSUME NEW s \in Sockets, Live(s)', NEW b \in Bridges
      PROVE  Ordered(wire[s], b, ShownOf(b), relayed[b])
  BY <1>2, OrderedEmpty DEF WireInv
<1>3. \A s \in Sockets : readyState'[s] = "CLOSED" => wire'[s] = <<>>
  BY DEF WireInv
<1> QED
  BY <1>1, <1>2, <1>3 DEF WireInv

LEMMA OpenSocketWire ==
    ASSUME PageSocketTypeOK, WireInv, NEW s \in Sockets, NEW p \in Polls,
           NEW ready \in [Sockets -> ReadyState],
           NEW onclose \in [Sockets -> BOOLEAN],
           \A t \in Sockets : (ready[t] = "CLOSED") = (readyState[t] = "CLOSED"),
           \A t \in Sockets : ready[t] \in {"OPEN", "CONNECTING"} => Live(t),
           OpenSocket(s, p, ready, onclose), UNCHANGED <<live, relayed>>
    PROVE  WireInv'
<1>1. /\ ready[s] = "CLOSED" /\ wire' = wire
      /\ readyState' = [ready EXCEPT ![s] = "CONNECTING"]
  BY DEF OpenSocket
<1>2. \A t \in Sockets : readyState'[t] = "CLOSED" => readyState[t] = "CLOSED"
  BY <1>1
<1>3. \A t \in Sockets : Live(t)' => readyState[t] = "CLOSED" \/ Live(t)
  BY <1>1 DEF Live, PageSocketTypeOK
<1> QED
  BY <1>1, <1>2, <1>3, WireKept

LEMMA TimerWire ==
    ASSUME PageSocketTypeOK, WireInv, TimerFires
    PROVE  WireInv'
<1>1. CASE UNCHANGED <<socketRef, socketVars>>
  BY <1>1, WireKept DEF TimerFires, socketVars, Live
<1>2. CASE \E s \in Sockets : OpenSocket(s, pollIdRef, readyState, hasOnclose)
  BY <1>2, OpenSocketWire DEF TimerFires, PageSocketTypeOK, Live
<1> QED
  BY <1>1, <1>2 DEF TimerFires, Connect

LEMMA NavigateWire ==
    ASSUME PageSocketTypeOK, HookInv, WireInv, NEW p \in Polls, Navigate(p)
    PROVE  WireInv'
<1>1. \A t \in Sockets :
          /\ (CleanReady[t] = "CLOSED") = (readyState[t] = "CLOSED")
          /\ CleanReady[t] \notin {"OPEN", "CONNECTING"}
  BY CleanIsIdle DEF HookInv, CleanReady, Live
<1> QED
  BY <1>1, CleanType, OpenSocketWire DEF Navigate

LEMMA LeaveWire ==
    ASSUME PageSocketTypeOK, HookInv, WireInv, Leave
    PROVE  WireInv'
<1>1. \A t \in Sockets : /\ ~Live(t)'
                         /\ readyState'[t] = "CLOSED" => readyState[t] = "CLOSED"
  BY CleanIsIdle DEF HookInv, Leave, CleanReady, Live
<1> QED
  BY <1>1, WireKept DEF Leave

LEMMA ClosedWire ==
    ASSUME PageSocketTypeOK, WireInv, NEW s \in Sockets, Closed(s)
    PROVE  WireInv'
<1>1. /\ readyState' = [readyState EXCEPT ![s] = "CLOSED"]
      /\ wire' = [wire EXCEPT ![s] = <<>>]
      /\ live' = live /\ relayed' = relayed
  BY DEF Closed, SocketCloses
<1>2. \A b : ShownOf(b)' = ShownOf(b)
  BY <1>1 DEF ShownOf
<1>3. /\ readyState'[s] = "CLOSED" /\ wire'[s] = <<>>
      /\ \A t \in Sockets : t # s => readyState'[t] = readyState[t] /\ wire'[t] = wire[t]
  BY <1>1 DEF PageSocketTypeOK
<1> QED
  BY <1>1, <1>2, <1>3 DEF WireInv, Live

\* What is true of the socket that delivers a message, and of the message.
LEMMA MessageFacts ==
    ASSUME PageSocketTypeOK, HookInv, WireInv, NEW s \in Sockets, Message(s)
    PROVE  /\ Live(s) /\ \A t \in Sockets : Live(t) => t = s
           /\ wire[s] \in Seq(Event) /\ wire[s] # <<>>
           /\ Head(wire[s]) \in Event
           /\ \A b \in Bridges :
                  /\ Head(wire[s]).from = b =>
                         /\ ShownOf(b) < Head(wire[s]).n /\ Head(wire[s]).n <= relayed[b]
                         /\ Ordered(Tail(wire[s]), b, Head(wire[s]).n, relayed[b])
                  /\ Ordered(Tail(wire[s]), b, ShownOf(b), relayed[b])
<1>1. Live(s) /\ wire[s] # <<>> /\ wire[s] \in Seq(Event)
  BY DEF Message, Live, PageSocketTypeOK
<1>2. \A t \in Sockets : Live(t) => t = s
  BY <1>1 DEF HookInv, RefsInv
<1>3. Head(wire[s]) \in Event
  BY <1>1
<1> QED
  BY <1>1, <1>2, <1>3, Counters, OrderedTail DEF WireInv

\* Lowering the bound keeps the order: another bridge's event is shown.
LEMMA OrderedLower ==
    ASSUME NEW w \in Seq(Event), NEW b, NEW lo \in Nat, NEW hi \in Nat, Ordered(w, b, lo, hi)
    PROVE  Ordered(w, b, 0, hi)
<1>1. \A i \in 1..Len(w) : w[i] \in Event
  OBVIOUS
<1>2. \A i \in 1..Len(w) : w[i].n \in Nat
  BY <1>1, EventNumber
<1> QED
  BY <1>2 DEF Ordered

LEMMA MessageWire ==
    ASSUME PageSocketTypeOK, HookInv, WireInv, NEW s \in Sockets, Message(s)
    PROVE  WireInv'
<1> DEFINE msg == Head(wire[s])
<1>1. /\ wire' = [wire EXCEPT ![s] = Tail(wire[s])]
      /\ UNCHANGED <<readyState, relayed>>
      /\ live' = live \/ live' = [from |-> msg.from, n |-> msg.n]
  BY DEF Message
<1>2. wire'[s] = Tail(wire[s]) /\ \A t \in Sockets : t # s => wire'[t] = wire[t]
  BY <1>1 DEF PageSocketTypeOK
<1>3. \A t \in Sockets : readyState'[t] = "CLOSED" => wire'[t] = <<>>
  BY <1>1, <1>2, MessageFacts DEF WireInv, Live
<1>4. ASSUME NEW b \in Bridges
      PROVE  /\ ShownOf(b)' <= relayed[b]
             /\ Ordered(Tail(wire[s]), b, ShownOf(b)', relayed[b])
  <2>1. CASE live' = live
    BY <2>1, MessageFacts DEF WireInv, ShownOf
  <2>2. CASE live' = [from |-> msg.from, n |-> msg.n] /\ msg.from = b
    BY <2>2, MessageFacts DEF ShownOf
  <2>3. CASE live' = [from |-> msg.from, n |-> msg.n] /\ msg.from # b
    <3>1. ShownOf(b)' = 0
      BY <2>3 DEF ShownOf
    <3>2. wire[s] \in Seq(Event) /\ wire[s] # <<>>
      BY MessageFacts
    <3>3. Tail(wire[s]) \in Seq(Event)
      BY <3>2
    <3>4. ShownOf(b) \in Nat /\ relayed[b] \in Nat
      BY Counters
    <3>5. Ordered(Tail(wire[s]), b, ShownOf(b), relayed[b])
      BY MessageFacts
    <3>6. Ordered(Tail(wire[s]), b, 0, relayed[b])
      BY <3>3, <3>4, <3>5, OrderedLower
    <3> QED
      BY <3>1, <3>4, <3>6
  <2> QED
    BY <1>1, <2>1, <2>2, <2>3
<1>5. \A t \in Sockets : Live(t)' => t = s
  BY <1>1, MessageFacts DEF Live
<1> QED
  BY <1>1, <1>2, <1>3, <1>4, <1>5 DEF WireInv

LEMMA RelayWire ==
    ASSUME PageSocketTypeOK, WireInv, NEW b \in Bridges,
           NEW type \in {"poll_update", "poll_closed"}, Relay(b, type)
    PROVE  WireInv'
<1>1. /\ relayed[b] \in Nat /\ relayed[b] < MaxEvents /\ MaxEvents \in Nat
      /\ relayed' = [relayed EXCEPT ![b] = relayed[b] + 1]
      /\ UNCHANGED <<live, readyState>>
  BY PageSocketAssumption, Counters DEF Relay, hookVars
<1>2. \A c : ShownOf(c)' = ShownOf(c)
  BY <1>1 DEF ShownOf
<1>3. \A c \in Bridges : /\ relayed[c] \in Nat /\ relayed'[c] \in Nat
                         /\ relayed'[c] = IF c = b THEN relayed[b] + 1 ELSE relayed[c]
  BY <1>1, Counters DEF PageSocketTypeOK
<1> DEFINE e == [from |-> b, type |-> type, n |-> relayed[b] + 1]
<1>4. e \in Event /\ e.from = b /\ e.n = relayed[b] + 1
  BY <1>1 DEF Event
<1>5. \A s \in Sockets : wire'[s] = wire[s] \/ (Live(s) /\ wire'[s] = Append(wire[s], e))
  BY DEF Relay
<1> HIDE DEF e
<1>6. ASSUME NEW s \in Sockets, Live(s), NEW c \in Bridges
      PROVE  Ordered(wire'[s], c, ShownOf(c), relayed'[c])
  <2>1. /\ wire[s] \in Seq(Event) /\ ShownOf(c) \in Nat /\ ShownOf(c) <= relayed[c]
        /\ Ordered(wire[s], c, ShownOf(c), relayed[c])
    BY <1>6, Counters DEF WireInv, PageSocketTypeOK
  <2>2. CASE wire'[s] = wire[s]
    <3>1. \A i \in 1..Len(wire[s]) : wire[s][i] \in Event
      BY <2>1
    <3>2. \A i \in 1..Len(wire[s]) : wire[s][i].n \in Nat
      BY <3>1, EventNumber
    <3>3. relayed[c] <= relayed'[c]
      BY <1>3
    <3> QED
      BY <1>3, <2>1, <2>2, <3>2, <3>3 DEF Ordered
  <2>3. CASE wire'[s] = Append(wire[s], e)
    <3>1. relayed[c] <= relayed'[c] /\ relayed[c] \in Nat /\ relayed'[c] \in Nat
      BY <1>3
    <3>2. b = c => ShownOf(c) <= relayed[c] /\ e.n = relayed[c] + 1
                   /\ relayed'[c] = relayed[c] + 1
      BY <1>3, <1>4, <2>1
    <3>3. Ordered(Append(wire[s], e), c, ShownOf(c), relayed'[c])
      BY <1>4, <2>1, <3>1, <3>2, OrderedAppend
    <3> QED
      BY <2>3, <3>3
  <2> QED
    BY <1>5, <2>2, <2>3
<1>7. \A c \in Bridges : ShownOf(c)' <= relayed'[c]
  BY <1>2, <1>3, Counters DEF WireInv
<1>8. \A s \in Sockets : readyState'[s] = "CLOSED" => wire'[s] = <<>>
  BY <1>1, <1>5 DEF WireInv, Live
<1> QED
  BY <1>1, <1>2, <1>6, <1>7, <1>8 DEF WireInv, Live

LEMMA WireStep ==
    PageSocketTypeOK /\ HookInv /\ WireInv /\ [PageSocketNext]_pageSocketVars => WireInv'
<1> SUFFICES ASSUME PageSocketTypeOK, HookInv, WireInv, [PageSocketNext]_pageSocketVars
             PROVE  WireInv'
  OBVIOUS
<1>1. CASE UNCHANGED pageSocketVars
  BY <1>1, WireKept DEF pageSocketVars, hookVars, socketVars, Live
<1>2. ASSUME NEW s \in Sockets, SocketStep(s) PROVE WireInv'
  <2>1. CASE Opens(s)
    BY <2>1, WireKept DEF Opens, Live, PageSocketTypeOK
  <2>2. CASE BeginsToClose(s)
    BY <2>2, WireKept DEF BeginsToClose, hookVars, Live, PageSocketTypeOK
  <2>3. CASE \E b \in Bridges : Join(s, b)
    BY <2>3, WireKept DEF Join, hookVars, Live
  <2> QED
    BY <1>2, <2>1, <2>2, <2>3, MessageWire, ClosedWire DEF SocketStep
<1> QED
  BY <1>1, <1>2, TimerWire, NavigateWire, LeaveWire, RelayWire DEF PageSocketNext

\* Only a message changes what is shown, and it brings a later event.
LEMMA ShownGrows ==
    ASSUME PageSocketTypeOK, HookInv, WireInv, [PageSocketNext]_pageSocketVars
    PROVE  live'.from = live.from => live'.n >= live.n
<1>0. live.n \in Nat
  BY PageSocketAssumption DEF PageSocketTypeOK, Shown, NothingShown
<1>1. CASE \E s \in Sockets : Message(s)
  <2>1. PICK s \in Sockets : Message(s)
    BY <1>1
  <2>2. Head(wire[s]) \in Event
    BY <2>1, MessageFacts
  <2>3. Head(wire[s]).from \in Bridges /\ Head(wire[s]).n \in Nat
    BY <2>2, EventNumber DEF Event
  <2>4. ShownOf(Head(wire[s]).from) < Head(wire[s]).n
    BY <2>1, <2>3, MessageFacts
  <2>5. live' = live \/ live' = [from |-> Head(wire[s]).from, n |-> Head(wire[s]).n]
    BY <2>1 DEF Message
  <2> QED
    BY <1>0, <2>3, <2>4, <2>5 DEF ShownOf
<1>2. CASE ~\E s \in Sockets : Message(s)
  <2>1. live' = live
    BY <1>2 DEF PageSocketNext, SocketStep, Opens, BeginsToClose, Closed, SocketCloses,
       Join, TimerFires, Navigate, Leave, Relay, hookVars, pageSocketVars
  <2> QED
    BY <1>0, <2>1
<1> QED
  BY <1>1, <1>2

\* The live results shown never go back to an earlier broadcast of the bridge
\* they come from, across reconnects, late close events and route changes.
THEOREM ShownNeverGoesBack == PageSocketSpec => LiveNeverGoesBack
<1>1. PageSocketInit => WireInv
  BY WireInit
<1>2. PageSocketTypeOK /\ HookInv /\ WireInv /\ [PageSocketNext]_pageSocketVars => WireInv'
  BY WireStep
<1>3. PageSocketSpec => []WireInv
  BY <1>1, <1>2, TypeCorrect, HookAlways, PTL DEF PageSocketSpec
<1>4. PageSocketTypeOK /\ HookInv /\ WireInv /\ [PageSocketNext]_pageSocketVars
          => [live'.from = live.from => live'.n >= live.n]_pageSocketVars
  BY ShownGrows
<1> QED
  BY <1>3, <1>4, TypeCorrect, HookAlways, PTL DEF PageSocketSpec, LiveNeverGoesBack

=============================================================================
