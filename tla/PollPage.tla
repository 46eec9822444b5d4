------------------------------ MODULE PollPage ------------------------------
(***************************************************************************)
(* Poll.jsx on top of useWebSocket: the page's loads and its vote, each a   *)
(* request answered whenever the network likes, with the poll id that was   *)
(* in the route when it was sent.  The backend is reduced to what a page    *)
(* can tell: who has voted, which polls are closed, and the events.         *)
(* The creator's buttons, rendering and the copied link are left out.       *)
(***************************************************************************)
EXTENDS PageSocket

CONSTANTS
    Loads,     \* calls of loadPoll; one that is over is used again
    VoteLoad,  \* the one that handleVote awaits: it runs once at a time
    HasToken   \* whether the viewer is logged in

ASSUME PollPageAssumption == VoteLoad \in Loads /\ HasToken \in BOOLEAN

VARIABLES
    poll,       \* the id of the poll in the state `poll`, None before any
    hasVoted,
    pollStatus, \* "open" until a load has succeeded
    loading,
    error,
    load,       \* the calls of loadPoll that are in flight
    vote,       \* handleVote: the call in flight, if any
    closed,     \* the backend: polls that are closed
    voted       \* the backend: polls in which this viewer has voted

pageVars    == <<poll, hasVoted, pollStatus, loading, error, load, vote>>
backendVars == <<closed, voted>>
vars        == <<pageSocketVars, pageVars, backendVars>>

NoLoad == [pc |-> "free", poll |-> None, hasVoted |-> FALSE, closed |-> FALSE]
Sent(p) == [pc |-> "sent", poll |-> p, hasVoted |-> FALSE, closed |-> FALSE]
Load == [pc : {"sent", "answered", "failed"}, poll : Polls,
         hasVoted : BOOLEAN, closed : BOOLEAN]

\* votingId is set while pc # "none"; `option` is the poll of the option.
NoVote == [pc |-> "none", poll |-> None, option |-> None]
HandleVote == [pc : {"posted", "voted", "refused", "reload"},
               poll : Polls, option : Polls]

TypeOK ==
    /\ PageSocketTypeOK
    /\ poll \in Polls \union {None}
    /\ hasVoted \in BOOLEAN
    /\ pollStatus \in {"open", "active", "closed"}
    /\ loading \in BOOLEAN
    /\ error \in BOOLEAN
    /\ load \in [Loads -> Load \union {NoLoad}]
    /\ vote \in HandleVote \union {NoVote}
    /\ closed \in SUBSET Polls
    /\ voted \in SUBSET Polls

Init ==
    /\ PageSocketInit
    /\ poll = None
    /\ hasVoted = FALSE
    /\ pollStatus = "open"
    /\ loading = TRUE
    /\ error = FALSE
    /\ \E l \in Loads \ {VoteLoad} :
           load = [k \in Loads |-> IF k = l THEN Sent(route) ELSE NoLoad]
    /\ vote = NoVote
    /\ closed = {}
    /\ voted \in SUBSET Polls

Mounted == route # None

SendLoad(l, p) ==
    /\ load[l].pc = "free"
    /\ load' = [load EXCEPT ![l] = Sent(p)]

-----------------------------------------------------------------------------
(* The route *)

\* loadPoll changes with the id, and its effect loads the new poll.
OpenPoll(p) ==
    /\ Navigate(p)
    /\ loading' = TRUE
    /\ \E l \in Loads \ {VoteLoad} : SendLoad(l, p)
    /\ UNCHANGED <<poll, hasVoted, pollStatus, error, vote, backendVars>>

\* What is in flight when the page is left has no effect on it any more.
LeavePage ==
    /\ Leave
    /\ load' = [l \in Loads |-> NoLoad]
    /\ UNCHANGED <<poll, hasVoted, pollStatus, loading, error, vote, backendVars>>

-----------------------------------------------------------------------------
(* loadPoll *)

\* GetPoll answers.  viewerState knows a viewer by the token or by the
\* X-Voter-Id header, and loadPoll sends no such header; an error of HasVoted
\* is dropped and reads as FALSE.
ServeLoad(l) ==
    /\ load[l].pc = "sent"
    /\ \E found \in BOOLEAN :
           LET p == load[l].poll IN
               load' = [load EXCEPT ![l] =
                           [pc |-> "answered", poll |-> p,
                            hasVoted |-> found /\ HasToken /\ p \in voted,
                            closed |-> p \in closed]]
    /\ UNCHANGED <<pageSocketVars, poll, hasVoted, pollStatus, loading, error,
                   vote, backendVars>>

LoseLoad(l) ==
    /\ load[l].pc = "sent"
    /\ load' = [load EXCEPT ![l].pc = "failed"]
    /\ UNCHANGED <<pageSocketVars, poll, hasVoted, pollStatus, loading, error,
                   vote, backendVars>>

\* handleVote awaits its own load and then ends.
LoadEnds(l) ==
    /\ load' = [load EXCEPT ![l] = NoLoad]
    /\ vote' = IF l = VoteLoad THEN NoVote ELSE vote
    /\ UNCHANGED <<pageSocketVars, backendVars>>

\* An answer is applied whatever the route is by now.  Without the spinner
\* handleVote resets `loading` right after, so each answer resets it.
LoadSucceeds(l) ==
    /\ Mounted
    /\ load[l].pc = "answered"
    /\ LoadEnds(l)
    /\ poll' = load[l].poll
    /\ hasVoted' = load[l].hasVoted
    /\ pollStatus' = IF load[l].closed THEN "closed" ELSE "active"
    /\ error' = FALSE
    /\ loading' = FALSE

\* Variant: setLoading(false) only after a success.
LoadFailsLoading(l) ==
    /\ Mounted
    /\ load[l].pc = "failed"
    /\ LoadEnds(l)
    /\ error' = TRUE
    /\ UNCHANGED <<poll, hasVoted, pollStatus, loading>>

LoadFails(l) ==
    /\ Mounted
    /\ load[l].pc = "failed"
    /\ LoadEnds(l)
    /\ error' = TRUE
    /\ loading' = FALSE
    /\ UNCHANGED <<poll, hasVoted, pollStatus>>

\* "Try again", shown while no poll has been loaded; it shows no spinner, so
\* it can be pressed again.
TryAgain ==
    /\ Mounted /\ ~loading /\ error /\ poll = None
    /\ \E l \in Loads \ {VoteLoad} : SendLoad(l, route)
    /\ UNCHANGED <<pageSocketVars, poll, hasVoted, pollStatus, loading, error,
                   vote, backendVars>>

-----------------------------------------------------------------------------
(* handleVote *)

\* Variant: without the test of `poll` in canVote.
ClickVoteUnloaded ==
    /\ Mounted /\ ~loading
    /\ ~hasVoted /\ pollStatus # "closed"
    /\ vote.pc = "none"
    /\ vote' = [pc |-> "posted", poll |-> route, option |-> poll]
    /\ UNCHANGED <<pageSocketVars, poll, hasVoted, pollStatus, loading, error,
                   load, backendVars>>

\* The buttons are there, and enabled, if canVote holds and no vote is under
\* way.  The option is one of the poll shown, the request is to the route's.
ClickVote ==
    /\ Mounted /\ ~loading /\ poll # None
    /\ ~hasVoted /\ pollStatus # "closed"
    /\ vote.pc = "none"
    /\ vote' = [pc |-> "posted", poll |-> route, option |-> poll]
    /\ UNCHANGED <<pageSocketVars, poll, hasVoted, pollStatus, loading, error,
                   load, backendVars>>

VoteServed(answer) ==
    /\ vote.pc = "posted"
    /\ vote' = [vote EXCEPT !.pc = answer]
    /\ UNCHANGED <<pageSocketVars, poll, hasVoted, pollStatus, loading, error,
                   load, closed>>

Acceptable == vote.poll \notin closed /\ vote.option = vote.poll

\* The vote is stored, or was before: "already voted" is treated alike.
ServeVote ==
    /\ Acceptable
    /\ VoteServed("voted")
    /\ voted' = voted \union {vote.poll}

\* Any other answer, or none; the vote may have been stored all the same.
RefuseVote ==
    /\ VoteServed("refused")
    /\ \/ UNCHANGED voted
       \/ Acceptable /\ voted' = voted \union {vote.poll}

\* Variant: setLoading(true) without the load that ends it.
VoteAcceptedNoReload ==
    /\ Mounted
    /\ vote.pc = "voted"
    /\ hasVoted' = TRUE
    /\ loading' = TRUE
    /\ vote' = NoVote
    /\ UNCHANGED <<pageSocketVars, poll, pollStatus, error, load, backendVars>>

VoteAccepted ==
    /\ Mounted
    /\ vote.pc = "voted"
    /\ hasVoted' = TRUE
    /\ loading' = TRUE
    /\ vote' = [vote EXCEPT !.pc = "reload"]
    /\ SendLoad(VoteLoad, vote.poll)
    /\ UNCHANGED <<pageSocketVars, poll, pollStatus, error, backendVars>>

VoteRefused ==
    /\ Mounted
    /\ vote.pc = "refused"
    /\ vote' = NoVote
    /\ UNCHANGED <<pageSocketVars, poll, hasVoted, pollStatus, loading, error,
                   load, backendVars>>

-----------------------------------------------------------------------------
(* The rest of the system *)

\* The creator closes the poll.  (A close whose event is not published looks
\* the same to the page, and the events of votes only change the live
\* results: PageSocket.)
OthersClose(p) ==
    /\ p \notin closed
    /\ closed' = closed \union {p}
    /\ \E b \in Bridges : PollOf[b] = p /\ Relay(b, "poll_closed")
    /\ UNCHANGED <<pageVars, voted>>

HookStep ==
    /\ TimerFires \/ \E s \in Sockets : SocketStep(s)
    /\ UNCHANGED <<pageVars, backendVars>>

LoadStep(l) == ServeLoad(l) \/ LoseLoad(l) \/ LoadSucceeds(l) \/ LoadFails(l)

VoteAnswer == ServeVote \/ RefuseVote \/ VoteAccepted \/ VoteRefused

Next ==
    \/ HookStep
    \/ LeavePage \/ TryAgain \/ ClickVote
    \/ \E p \in Polls : OpenPoll(p) \/ OthersClose(p)
    \/ \E l \in Loads : LoadStep(l)
    \/ VoteAnswer

Spec == Init /\ [][Next]_vars

\* Every request ends, with an answer or an error, and the browser runs the
\* handler.  The viewer owes nothing.
Fairness ==
    /\ \A l \in Loads : WF_vars(LoadStep(l))
    /\ WF_vars(VoteAnswer)

FairSpec == Spec /\ Fairness

-----------------------------------------------------------------------------
InFlight(l) == load[l].pc # "free"

\* The spinner, which hides the whole page, is up only while a load is in
\* flight, however loads of several routes and of a vote overlap.
SpinnerIsJustified == (Mounted /\ loading) => \E l \in Loads : InFlight(l)

\* The spinner and the disabled vote buttons do not stay for ever: whatever
\* fails, the viewer gets back a page that can be used.
PageNeverStuck ==
    /\ loading ~> (~loading \/ ~Mounted)
    /\ vote.pc # "none" ~> (vote.pc = "none" \/ ~Mounted)

-----------------------------------------------------------------------------
(* Statements of the sources' comments that the code does not keep. *)

\* poll_service.go, ClosePoll: "the new status is broadcast over Redis Pub/Sub
\* so connected clients update in real time": a page that shows poll p and
\* receives the event shows p as closed.
CloseEventClosesPage ==
    [][\A s \in Sockets :
           (/\ wire[s] # <<>> /\ wire' = [wire EXCEPT ![s] = Tail(@)]
            /\ readyState' = readyState /\ Head(wire[s]).type = "poll_closed"
            /\ poll = peer[s])
               => pollStatus' = "closed"]_vars

\* poll_handler.go, viewerState: computes "whether they have already voted in
\* the poll": a page at rest that shows p knows whether its viewer has.
VotedViewerIsTold ==
    (/\ Mounted /\ poll = route /\ route \in voted
     /\ vote.pc = "none" /\ ~error
     /\ \A l \in Loads : ~InFlight(l)) => hasVoted

=============================================================================
