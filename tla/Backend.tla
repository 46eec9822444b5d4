------------------------------- MODULE Backend -------------------------------
(***************************************************************************)
(* The backend on one poll: vote requests, the requests of the poll's      *)
(* creator and readers, interleaved at every remote call over the shared   *)
(* stores, with requests that fail at any call and a Redis that can lose   *)
(* its data.                                                               *)
(***************************************************************************)
EXTENDS VoteService, PollService

CONSTANT MaxLosses  \* bound on the number of times Redis loses its data

ASSUME BackendAssumption == MaxLosses \in Nat

VARIABLE losses

vars == <<storeVars, voteVars, pollVars, losses>>

Init ==
    /\ StoresInit
    /\ VoteInit
    /\ PollInit
    /\ losses = 0

\* A flush, or a restart without persistence: the case ensureSeeded is for.
LoseRedis ==
    /\ cached
    /\ losses < MaxLosses
    /\ losses' = losses + 1
    /\ cached' = FALSE
    /\ results' = ZeroTally
    /\ counters' = ZeroTally
    /\ UNCHANGED <<mongoVars, channel, voteVars, pollVars>>

VoteNext ==
    /\ \E r \in VoteRequests : VoteStep(r) \/ FailVote(r)
    /\ UNCHANGED <<pollVars, losses>>

CreateNext ==
    /\ InsertPoll \/ SeedPoll \/ FailCreate
    /\ UNCHANGED <<voteVars, losses>>

OwnerNext ==
    /\ \E a \in OwnerRequests :
           FindOwned(a) \/ UpdateOwned(a) \/ PublishClosed(a) \/ FailOwner(a)
    /\ UNCHANGED <<voteVars, losses>>

ReadNext ==
    /\ \E q \in Readers :
           \/ ReadFind(q) \/ ReadCount(q) \/ ReadEnsure(q) \/ ReadGet(q)
           \/ FailRead(q)
    /\ UNCHANGED <<voteVars, losses>>

Next == VoteNext \/ CreateNext \/ OwnerNext \/ ReadNext \/ LoseRedis

Spec == Init /\ [][Next]_vars

-----------------------------------------------------------------------------
TypeOK == StoresTypeOK /\ VoteTypeOK /\ PollTypeOK /\ losses \in 0..MaxLosses

(* ----- one voter, one vote ----- *)

\* The votes collection never holds two votes of one voter, whatever requests
\* race between the handler and the insert (vote_repository.go, Create).
OneVotePerVoter ==
    \A d, e \in votes : d.voterKey = e.voterKey => d = e

Stored(r) == \E d \in votes : d._id = r

\* The answer to POST /vote tells the truth: 200 is given for a vote that is
\* stored, 409 only if another request of the same voter stored one, and 400
\* or 404 only if this request stored nothing.
AnswersAreTruthful ==
    \A r \in VoteRequests :
        /\ vpc[r] = "ok" => Stored(r)
        /\ vpc[r] = "duplicate" =>
               /\ ~Stored(r)
               /\ \E d \in votes : d.voterKey = ballot[r].voterKey
        /\ vpc[r] \in {"notFound", "pollClosed", "invalid"} => ~Stored(r)

(* ----- the live counters against the votes ----- *)

\* Votes in MongoDB whose increment is still to come, or never will.
Uncounted(o) ==
    {r \in VoteRequests :
        vpc[r] \in {"incr", "uncounted"} /\ ballot[r].optionId = o}

\* Increments that were applied and sent again: the script is not idempotent.
Repeated(o) ==
    {p \in VoteRequests \X (1..MaxRetries) :
        p[2] <= repeats[p[1]] /\ ballot[p[1]].optionId = o}

\* The live count of an option plus the votes stored but not yet counted is
\* the number of votes stored plus that of repeated increments: no interleaving
\* of votes, reads that seed the hash and failures counts a vote twice in any
\* other way or drops one silently.
Accounted ==
    \A o \in Options :
        results[o] + Cardinality(Uncounted(o)) =
            Cardinality(VotesFor(o)) + Cardinality(Repeated(o))

\* ... as long as Redis has kept its data, and then in both of its locations,
\* the hash and the option counters (IncrementVote's script "keeps both
\* locations in sync").
TallyAccountsForVotes == losses = 0 => Accounted /\ counters = results

\* No live counter ever decreases, except when Redis loses it: seeding the
\* hash, with counts read however long ago, never overwrites live counters.
TallyNeverGoesBack ==
    [][losses' = losses =>
           \A o \in Options : results'[o] >= results[o]]_vars

\* Votes in MongoDB whose increment has been done.
Counted(o) == {d \in VotesFor(o) : vpc[d._id] \notin {"incr", "uncounted"}}

\* Even when Redis loses its data, however often, no option shows votes it
\* never got and no vote counts more than twice: once in the seed that a read
\* took from MongoDB and once by its own late increment, and once more each
\* time that the client repeated the increment.
CountedAtMostTwice ==
    \A o \in Options :
        results[o] <= Cardinality(VotesFor(o)) + Cardinality(Counted(o))
                      + Cardinality(Repeated(o))

Below(f, g) == \A o \in Options : f[o] <= g[o]

Updates == {i \in DOMAIN channel : channel[i].type = "poll_update"}

\* The tallies on the channel are all moments of one history: of any two, one
\* is below the other, and none shows a vote that is not counted.
PublishedTalliesAreConsistent ==
    losses = 0 =>
        \A i, j \in Updates :
            /\ Below(channel[i].results, results)
            /\ \/ Below(channel[i].results, channel[j].results)
               \/ Below(channel[j].results, channel[i].results)

\* When every stored vote has been answered 200, the current tally is
\* among the published ones: no viewer is left without it for good because
\* the last counter read too early.
SettledTallyIsPublished ==
    (losses = 0 /\ votes # {} /\ \A d \in votes : vpc[d._id] = "ok") =>
        \E i \in Updates : channel[i].results = results

(* ----- the life of the poll ----- *)

Drained ==
    /\ status \in {"closed", "deleted"}
    /\ \A r \in VoteRequests : vpc[r] \notin {"ensure", "create"}

\* A request that found the poll active may still store its vote after the
\* close; once those requests are through, no request follows them and the
\* votes of a closed or deleted poll never change again.
DrainedPollIsFrozen == [][Drained => Drained' /\ votes' = votes]_vars

\* An existing poll changes status only by a request of its creator.
OnlyCreatorModifies ==
    [][(status' # status /\ status # "absent") =>
           \E a \in OwnerRequests :
               opc[a] = "update" /\ opc'[a] # "update"
               /\ demand[a].user = Creator]_vars

Gone ==
    /\ status = "deleted"
    /\ \A a \in OwnerRequests :
           ~(opc[a] = "update" /\ demand[a].op = "close")

\* A deleted poll comes back only by a close that had found it before the
\* delete and updates it afterwards: with no such close under way it is
\* deleted for good, whatever requests follow (poll_service.go, ClosePoll).
DeletedStaysDeleted == [][Gone => Gone']_vars

ClosedPublished == \E i \in DOMAIN channel : channel[i].type = "poll_closed"

\* No "poll_closed" event is on the channel while the poll accepts votes; and
\* a poll is closed without the event only while a close of its creator is
\* about to publish it, or after one has failed (poll_service.go, ClosePoll).
ClosedEventFollowsClose ==
    /\ ClosedPublished => status \in {"closed", "deleted"}
    /\ status = "closed" =>
           \/ ClosedPublished
           \/ \E a \in OwnerRequests :
                  /\ demand[a] = [user |-> Creator, op |-> "close"]
                  /\ opc[a] \in {"publish", "failed"}

(* ----- refinement ----- *)

\* The live tally without the repeated increments.
TrueTally == [o \in Options |-> results[o] - Cardinality(Repeated(o))]

Contract == INSTANCE TallyContract
                WITH BallotIds <- VoteRequests, cast <- votes, tally <- TrueTally

\* While Redis keeps its data the backend implements the contract.
ImplementsContract == Contract!Spec

-----------------------------------------------------------------------------
(* A statement of the sources' comments that the code does not keep. *)

\* redis_service.go, EnsureResults: "a single Redis Lua script guards against
\* double initialization so live counters are never skewed".
LiveCountersNeverSkewed == Accounted

=============================================================================
