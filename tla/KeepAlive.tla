------------------------------ MODULE KeepAlive ------------------------------
(***************************************************************************)
(* readPump and writePump of one served connection against the clock: the  *)
(* read deadline that pongs renew, the ticker that makes writePump ping,    *)
(* and the deadline of a write.  The link to the browser may stall at any   *)
(* time and recover, or never recover, which is how a browser that vanished *)
(* looks.                                                                  *)
(*                                                                         *)
(* Time is counted in units.  A timer is kept as the time left to it.  What *)
(* a goroutine can do at once it does before time passes (Urgent).  The     *)
(* browser answers pings by itself; the page's heartbeat is a message that  *)
(* readPump reads and drops, and does not touch the deadline.               *)
(***************************************************************************)
EXTENDS Naturals

CONSTANTS
    PongWait,   \* pongWait
    WriteWait,  \* writeWait
    MaxDelay,   \* bound on ping to pong, apart from the time the link stalls
    MaxPongs    \* bound on the pongs outstanding when the link stalls

PingPeriod == (PongWait * 9) \div 10

ASSUME KeepAliveAssumption ==
    /\ PongWait \in Nat
    /\ PongWait >= 2
    /\ WriteWait \in Nat \ {0}
    /\ MaxDelay \in Nat
    /\ MaxPongs \in Nat

VARIABLES
    link,      \* "good", or "stalled": nothing gets through
    ended,     \* why the socket was closed, "no" while it is open
    reader,    \* readPump: "reading" or "done"
    writer,    \* writePump: "idle", writing an "event" or a "ping", or "done"
    readLeft,  \* until the read deadline
    writeLeft, \* until the deadline of the current write
    tickLeft,  \* until the ticker's next tick
    tick,      \* ticker.C holds a tick; it has room for one
    pings,     \* pings written whose pong has not been read
    pongLeft,  \* within which the next of these pongs arrives on a good link
    lost,      \* time the link has been stalled since the last pong was read
    lingering  \* time since the socket was closed

vars == <<link, ended, reader, writer, readLeft, writeLeft, tickLeft, tick,
          pings, pongLeft, lost, lingering>>

Open == ended = "no"
Busy == writer \in {"event", "ping"}

KeepAliveTypeOK ==
    /\ link \in {"good", "stalled"}
    /\ ended \in {"no", "left", "silent", "stuck", "slow"}
    /\ reader \in {"reading", "done"}
    /\ writer \in {"idle", "event", "ping", "done"}
    /\ readLeft \in 0..PongWait
    /\ writeLeft \in 0..WriteWait
    /\ tickLeft \in 1..PingPeriod
    /\ tick \in BOOLEAN
    /\ pings \in Nat
    /\ pongLeft \in 0..MaxDelay
    /\ lost \in Nat
    /\ lingering \in Nat

\* readPump has set the first deadline and writePump has made its ticker.
Init ==
    /\ link = "good"
    /\ ended = "no"
    /\ reader = "reading"
    /\ writer = "idle"
    /\ readLeft = PongWait
    /\ writeLeft = WriteWait
    /\ tickLeft = PingPeriod
    /\ tick = FALSE
    /\ pings = 0
    /\ pongLeft = MaxDelay
    /\ lost = 0
    /\ lingering = 0

-----------------------------------------------------------------------------
(* readPump.  A "Variant" is a mistaken form of the definition after it.     *)

\* Variant: a handler that reads the pong and leaves the deadline alone.
PongIgnored ==
    /\ Open /\ reader = "reading" /\ link = "good" /\ pings > 0
    /\ pings' = pings - 1
    /\ pongLeft' = MaxDelay
    /\ lost' = 0
    /\ UNCHANGED <<link, ended, reader, writer, readLeft, writeLeft, tickLeft,
                   tick, lingering>>

\* The pong handler.
Pong ==
    /\ Open /\ reader = "reading" /\ link = "good" /\ pings > 0
    /\ readLeft' = PongWait
    /\ pings' = pings - 1
    /\ pongLeft' = MaxDelay
    /\ lost' = 0
    /\ UNCHANGED <<link, ended, reader, writer, writeLeft, tickLeft, tick,
                   lingering>>

\* ReadMessage returns an error, and the deferred close() closes the socket
\* unless it is closed already.
ReadEnds(why) ==
    /\ reader = "reading"
    /\ reader' = "done"
    /\ ended' = IF Open THEN why ELSE ended
    /\ UNCHANGED <<link, writer, readLeft, writeLeft, tickLeft, tick, pings,
                   pongLeft, lost, lingering>>

\* Broadcast finds c.send full and closes the socket under both pumps.
ClosedAsSlow ==
    /\ Open
    /\ ended' = "slow"
    /\ UNCHANGED <<link, reader, writer, readLeft, writeLeft, tickLeft, tick,
                   pings, pongLeft, lost, lingering>>

BrowserLeaves == Open /\ link = "good" /\ ReadEnds("left")
ReadTimeout   == Open /\ readLeft = 0 /\ ReadEnds("silent")
ReadClosed    == ~Open /\ ReadEnds(ended)

-----------------------------------------------------------------------------
(* writePump *)

\* The select takes an event of c.send or the tick, whichever it likes.
BeginWrite(what) ==
    /\ writer = "idle"
    /\ writer' = what
    /\ writeLeft' = WriteWait
    /\ tick' = (tick /\ what # "ping")
    /\ UNCHANGED <<link, ended, reader, readLeft, tickLeft, pings, pongLeft,
                   lost, lingering>>

WriteEvent == BeginWrite("event")
WritePing  == tick /\ BeginWrite("ping")

\* Variant: the deadline is renewed when a ping is written.
WrittenRenews ==
    /\ Busy /\ Open
    /\ writer' = "idle"
    /\ pings' = IF writer = "ping" THEN pings + 1 ELSE pings
    /\ pongLeft' = IF pings = 0 THEN MaxDelay ELSE pongLeft
    /\ readLeft' = IF writer = "ping" THEN PongWait ELSE readLeft
    /\ UNCHANGED <<link, ended, reader, writeLeft, tickLeft, tick, lost, lingering>>

\* WriteMessage returns.  On a stalled link it may, while the socket's own
\* buffer has room.
Written ==
    /\ Busy /\ Open
    /\ writer' = "idle"
    /\ pings' = IF writer = "ping" THEN pings + 1 ELSE pings
    /\ pongLeft' = IF pings = 0 THEN MaxDelay ELSE pongLeft
    /\ UNCHANGED <<link, ended, reader, readLeft, writeLeft, tickLeft, tick,
                   lost, lingering>>

\* It fails, by its deadline or because the socket is closed: the deferred
\* calls stop the ticker and close the socket.
WriteFails ==
    /\ Busy
    /\ ~Open \/ (link = "stalled" /\ writeLeft = 0)
    /\ writer' = "done"
    /\ ended' = IF Open THEN "stuck" ELSE ended
    /\ UNCHANGED <<link, reader, readLeft, writeLeft, tickLeft, tick, pings,
                   pongLeft, lost, lingering>>

-----------------------------------------------------------------------------
(* The link and the clock *)

SetLink(from, to) ==
    /\ Open
    /\ link = from
    /\ link' = to
    /\ UNCHANGED <<ended, reader, writer, readLeft, writeLeft, tickLeft, tick,
                   pings, pongLeft, lost, lingering>>

\* A good link takes what is being written at once.
Stall   == ~Busy /\ pings <= MaxPongs /\ SetLink("good", "stalled")
Recover == SetLink("stalled", "good")

Urgent ==
    \/ reader = "reading" /\ (readLeft = 0 \/ ~Open)
    \/ writer = "idle" /\ tick
    \/ Busy /\ (link = "good" \/ writeLeft = 0 \/ ~Open)
    \/ Open /\ link = "good" /\ pings > 0 /\ pongLeft = 0

Less(timer) == IF timer > 0 THEN timer - 1 ELSE 0

\* All timers but the ticker; over once writePump has ended too.
Elapse ==
    /\ ~Urgent /\ writer # "done"
    /\ readLeft' = IF Open THEN Less(readLeft) ELSE readLeft
    /\ writeLeft' = IF Busy THEN Less(writeLeft) ELSE writeLeft
    /\ pongLeft' = IF Open /\ link = "good" /\ pings > 0
                   THEN Less(pongLeft) ELSE pongLeft
    /\ lost' = IF Open /\ link = "stalled" THEN lost + 1 ELSE lost
    /\ lingering' = IF Open THEN 0 ELSE lingering + 1
    /\ UNCHANGED <<link, ended, reader, writer, pings>>

\* Variant: a timer, which fires once, in place of the ticker.
PassOneTick ==
    /\ Elapse
    /\ tickLeft' = Less(tickLeft)
    /\ tick' = (tick \/ tickLeft = 1)

\* Variant: the ticker is stopped with the reader.
PassTickerStopped ==
    /\ Elapse
    /\ tickLeft' = IF ~Open THEN tickLeft
                   ELSE IF tickLeft = 1 THEN PingPeriod ELSE tickLeft - 1
    /\ tick' = (tick \/ (Open /\ tickLeft = 1))

\* One unit of time.  A tick that finds ticker.C full is dropped.
Pass ==
    /\ Elapse
    /\ tickLeft' = IF tickLeft = 1 THEN PingPeriod ELSE tickLeft - 1
    /\ tick' = (tick \/ tickLeft = 1)

\* ServePoll has returned and both pumps have ended.
Over == reader = "done" /\ writer = "done" /\ UNCHANGED vars

Next ==
    \/ Pong \/ ClosedAsSlow \/ BrowserLeaves \/ ReadTimeout \/ ReadClosed
    \/ WriteEvent \/ WritePing \/ Written \/ WriteFails
    \/ Stall \/ Recover \/ Pass \/ Over

Spec == Init /\ [][Next]_vars

-----------------------------------------------------------------------------
\* A viewer is dropped as silent only if its link has been stalled, since its
\* last pong, for what the deadline leaves beside the ping period and the
\* round trip: 60 s - 54 s - MaxDelay in the code.  It is dropped as stuck only
\* after an outage as long as a write may take.  A viewer whose link does not
\* stall is kept for ever, however writes, ticks and pongs interleave.
DroppedMeansOutage ==
    /\ ended = "silent" => lost + PingPeriod + MaxDelay >= PongWait
    /\ ended = "stuck" => lost >= WriteWait

\* A viewer that vanished is noticed: no connection is still served when its
\* link has been stalled for pongWait, whatever the socket's buffer takes.
VanishedIsNoticed == reader = "reading" => lost <= PongWait

\* No goroutine is left behind: once the socket is closed for whatever reason
\* readPump ends at once, and writePump, which nobody tells, within a period of
\* its ticker (time passes only while writePump is there).
PumpsEnd ==
    /\ lingering > 0 => reader = "done"
    /\ lingering <= PingPeriod

=============================================================================
