--------------------------- MODULE KeepAliveProofs ---------------------------
(***************************************************************************)
(* The timing of a connection, proved for every value of the two waits and *)
(* of the round trip.  KInv says of each timer how much of its time is      *)
(* accounted for by the ping period, the round trip and the outage.        *)
(***************************************************************************)
EXTENDS KeepAlive, TLAPS

\* The time since the last pong (PongWait - readLeft) is spent on waiting for
\* the tick, on the stalled link, and on the round trip of a ping.
PongAccounted ==
    Open =>
        /\ pings > 0 =>
               PongWait + pongLeft <= readLeft + PingPeriod + MaxDelay + lost
        /\ (pings = 0 /\ (tick \/ writer = "ping")) =>
               PongWait <= readLeft + PingPeriod + lost
        /\ (pings = 0 /\ ~tick /\ writer # "ping") =>
               PongWait + tickLeft <= readLeft + PingPeriod + lost

WriteAccounted ==
    (Open /\ Busy /\ link = "stalled") => WriteWait <= writeLeft + lost

SilenceAccounted == reader = "reading" => lost + readLeft <= PongWait

LingerAccounted ==
    /\ Open => lingering = 0
    /\ (writer = "idle" /\ ~tick) => lingering + tickLeft <= PingPeriod
    /\ lingering <= PingPeriod

EndsClosed ==
    /\ Open => reader = "reading" /\ writer # "done"
    /\ lingering > 0 => reader = "done"

KInv ==
    /\ KeepAliveTypeOK
    /\ PongAccounted
    /\ WriteAccounted
    /\ SilenceAccounted
    /\ LingerAccounted
    /\ EndsClosed
    /\ DroppedMeansOutage

\* The ping period is nine tenths of pongWait, rounded down, and not zero.
LEMMA PeriodPositive == PingPeriod \in Nat /\ PingPeriod >= 1
BY KeepAliveAssumption DEF PingPeriod

LEMMA KInvInit == Init => KInv
<1> SUFFICES ASSUME Init PROVE KInv
    OBVIOUS
<1>1. KeepAliveTypeOK
  <2>1. /\ PingPeriod \in 1..PingPeriod
        /\ 0 \in Nat
        /\ WriteWait \in 0..WriteWait
        /\ PongWait \in 0..PongWait
        /\ MaxDelay \in 0..MaxDelay
        BY PeriodPositive, KeepAliveAssumption
  <2>2. QED
        BY <2>1 DEF Init, KeepAliveTypeOK
<1>2. PongAccounted /\ WriteAccounted /\ SilenceAccounted /\ LingerAccounted
      BY PeriodPositive, KeepAliveAssumption
      DEF Init, PongAccounted, WriteAccounted, SilenceAccounted, LingerAccounted,
          Open, Busy
<1>3. EndsClosed /\ DroppedMeansOutage
      BY DEF Init, EndsClosed, DroppedMeansOutage, Open
<1>4. QED
      BY <1>1, <1>2, <1>3 DEF KInv

LEMMA KInvStep == KInv /\ [Next]_vars => KInv'
<1> SUFFICES ASSUME KInv, [Next]_vars PROVE KInv'
    OBVIOUS
<1> USE PeriodPositive, KeepAliveAssumption
        DEF KInv, KeepAliveTypeOK, PongAccounted, WriteAccounted, SilenceAccounted,
            LingerAccounted, EndsClosed, DroppedMeansOutage,
            Open, Busy
<1>1. CASE Pong
      BY <1>1 DEF Pong
<1>2. CASE ClosedAsSlow
      BY <1>2 DEF ClosedAsSlow
<1>3. CASE BrowserLeaves
      BY <1>3 DEF BrowserLeaves, ReadEnds
<1>4. CASE ReadTimeout
      BY <1>4 DEF ReadTimeout, ReadEnds
<1>5. CASE ReadClosed
      BY <1>5 DEF ReadClosed, ReadEnds
<1>6. CASE WriteEvent
      BY <1>6 DEF WriteEvent, BeginWrite
<1>7. CASE WritePing
      BY <1>7 DEF WritePing, BeginWrite
<1>8. CASE Written
      BY <1>8 DEF Written
<1>9. CASE WriteFails
      BY <1>9 DEF WriteFails
<1>10. CASE Stall \/ Recover
       BY <1>10 DEF Stall, Recover, SetLink
<1>11. CASE Pass
  <2> USE <1>11 DEF Pass, Elapse
  <2>1. KeepAliveTypeOK'
        BY DEF Less
  <2>2. PongAccounted'
    <3>1. CASE Open /\ pings > 0
          BY <3>1 DEF Urgent, Less
    <3>2. CASE Open /\ pings = 0 /\ (tick \/ writer = "ping")
          BY <3>2 DEF Urgent, Less
    <3>3. CASE Open /\ pings = 0 /\ ~tick /\ writer # "ping" /\ tickLeft = 1
      <4>1. /\ readLeft' = readLeft - 1
            /\ lost' \in Nat /\ lost' >= lost
            BY <3>3 DEF Urgent, Less
      <4>2. PongWait <= readLeft' + PingPeriod + lost'
            BY <3>3, <4>1
      <4>3. tick' = TRUE /\ pings' = 0
            BY <3>3
      <4>4. QED
            BY <4>2, <4>3
    <3>4. CASE Open /\ pings = 0 /\ ~tick /\ writer # "ping" /\ tickLeft # 1
          BY <3>4 DEF Urgent, Less
    <3>5. QED
          BY <3>1, <3>2, <3>3, <3>4
  <2>3. WriteAccounted' /\ SilenceAccounted'
        BY DEF Urgent, Less
  <2>4. LingerAccounted'
    <3>1. CASE tickLeft = 1
          BY <3>1 DEF Urgent
    <3>2. CASE tickLeft # 1
          BY <3>2 DEF Urgent
    <3>3. QED
          BY <3>1, <3>2
  <2>5. DroppedMeansOutage'
        OBVIOUS
  <2>6. EndsClosed'
        BY DEF Urgent
  <2>7. QED
        BY <2>1, <2>2, <2>3, <2>4, <2>5, <2>6
<1>12. CASE UNCHANGED vars
       BY <1>12 DEF vars
<1>13. QED
       BY <1>1, <1>2, <1>3, <1>4, <1>5, <1>6, <1>7, <1>8, <1>9, <1>10, <1>11,
          <1>12 DEF Next, Over

LEMMA KInvAlways == Spec => []KInv
BY KInvInit, KInvStep, PTL DEF Spec

\* Type correctness.
THEOREM TypeCorrect == Spec => []KeepAliveTypeOK
BY KInvAlways, PTL DEF KInv

\* No viewer whose link did not stall is dropped as silent, for every pongWait
\* and every round trip that the period leaves room for, and none as stuck
\* without an outage of writeWait.
THEOREM DroppedAfterOutage == Spec => []DroppedMeansOutage
BY KInvAlways, PTL DEF KInv

\* A vanished viewer is noticed within pongWait.
THEOREM VanishedNoticed == Spec => []VanishedIsNoticed
<1>1. KInv => VanishedIsNoticed
      BY KeepAliveAssumption
      DEF KInv, KeepAliveTypeOK, SilenceAccounted, VanishedIsNoticed
<1>2. QED
      BY <1>1, KInvAlways, PTL

\* No pump outlives its socket by more than a ping period.
THEOREM BothPumpsEnd == Spec => []PumpsEnd
<1>1. KInv => PumpsEnd
      BY DEF KInv, LingerAccounted, EndsClosed, PumpsEnd
<1>2. QED
      BY <1>1, KInvAlways, PTL

=============================================================================
