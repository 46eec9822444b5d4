----------------------------- MODULE VoteService -----------------------------
(***************************************************************************)
(* VoteHandler.Vote and VoteService.Vote: the cast-vote flow.  Each request *)
(* is a goroutine of some backend instance; between two of its remote calls *)
(* any other request, of this or another instance, may run.  vpc[r] is the  *)
(* next remote call of request r or the answer it got:                      *)
(*   "find"    FindByID, then the status and option checks                  *)
(*   "ensure"  EnsureResults with a nil seed                                *)
(*   "create"  VoteRepository.Create                                        *)
(*   "incr"    IncrementVote                                                *)
(*   "read"    GetResults                                                   *)
(*   "publish" PublishUpdate                                                *)
(* The poll's ExpiresAt is set by no operation of the program, so the       *)
(* expiry check of Vote always passes and is not a branch of the model.     *)
(***************************************************************************)
EXTENDS Stores

CONSTANT MaxRetries  \* of the Redis client: 3 unless RedisURL says otherwise

ASSUME VoteAssumption == MaxRetries \in Nat

VARIABLES
    vpc,      \* [VoteRequests -> VotePC]
    ballot,   \* the voter key and option id each request carries
    snapshot, \* the results that the request read and will publish, then zero
    repeats   \* how often its increment was applied and sent again

voteVars == <<vpc, ballot, snapshot, repeats>>

VotePending == {"find", "ensure", "create", "incr", "read", "publish"}

\* "uncounted" and "failed" are the same 500 answer (or lost connection):
\* the model tells apart a failure that left a stored vote uncounted.
VoteAnswer == {"ok", "notFound", "pollClosed", "invalid", "duplicate",
               "failed", "uncounted"}

VotePC == VotePending \union VoteAnswer

Ballot == [voterKey : Voters, optionId : Options \union {UnknownOption}]

VoteTypeOK ==
    /\ vpc \in [VoteRequests -> VotePC]
    /\ ballot \in [VoteRequests -> Ballot]
    /\ snapshot \in [VoteRequests -> Tally]
    /\ repeats \in [VoteRequests -> 0..MaxRetries]

VoteInit ==
    /\ vpc = [r \in VoteRequests |-> "find"]
    /\ ballot \in [VoteRequests -> Ballot]
    /\ snapshot = [r \in VoteRequests |-> ZeroTally]
    /\ repeats = [r \in VoteRequests |-> 0]

GoVote(r, from, to) ==
    /\ vpc[r] = from
    /\ vpc' = [vpc EXCEPT ![r] = to]
    /\ UNCHANGED <<ballot, repeats>>

-----------------------------------------------------------------------------
\* Variant: without the validOption loop.
FindPollAnyOption(r) ==
    /\ \/ ~Findable /\ GoVote(r, "find", "notFound")
       \/ status = "closed" /\ GoVote(r, "find", "pollClosed")
       \/ status = "active" /\ GoVote(r, "find", "ensure")
    /\ UNCHANGED <<storeVars, snapshot>>

\* Variant: without the status check.
FindPollAnyStatus(r) ==
    /\ \/ ~Findable /\ GoVote(r, "find", "notFound")
       \/ /\ Findable
          /\ ballot[r].optionId \notin Options
          /\ GoVote(r, "find", "invalid")
       \/ /\ Findable
          /\ ballot[r].optionId \in Options
          /\ GoVote(r, "find", "ensure")
    /\ UNCHANGED <<storeVars, snapshot>>

\* FindByID, and the checks made on the copy of the poll that it returns.
FindPoll(r) ==
    /\ \/ ~Findable /\ GoVote(r, "find", "notFound")
       \/ status = "closed" /\ GoVote(r, "find", "pollClosed")
       \/ /\ status = "active"
          /\ ballot[r].optionId \notin Options
          /\ GoVote(r, "find", "invalid")
       \/ /\ status = "active"
          /\ ballot[r].optionId \in Options
          /\ GoVote(r, "find", "ensure")
    /\ UNCHANGED <<storeVars, snapshot>>

EnsureCounters(r) ==
    /\ GoVote(r, "ensure", "create")
    /\ EnsureResults(ZeroTally)
    /\ UNCHANGED <<mongoVars, channel, snapshot>>

\* Variant: a votes collection without the unique index.
CreateVoteNoIndex(r) ==
    /\ GoVote(r, "create", "incr")
    /\ InsertVote([_id |-> r, voterKey |-> ballot[r].voterKey,
                   optionId |-> ballot[r].optionId])
    /\ UNCHANGED <<redisVars, channel, snapshot>>

\* Variant: the duplicate-key error is swallowed.
CreateVoteSwallow(r) ==
    /\ \/ /\ HasVoted(ballot[r].voterKey)
          /\ GoVote(r, "create", "ok")
          /\ UNCHANGED mongoVars
       \/ /\ ~HasVoted(ballot[r].voterKey)
          /\ GoVote(r, "create", "incr")
          /\ InsertVote([_id |-> r, voterKey |-> ballot[r].voterKey,
                         optionId |-> ballot[r].optionId])
    /\ UNCHANGED <<redisVars, channel, snapshot>>

\* InsertOne: the unique index turns a second vote of a voter into
\* ErrVoteAlreadyExists, the 409 answer.
CreateVote(r) ==
    /\ \/ /\ HasVoted(ballot[r].voterKey)
          /\ GoVote(r, "create", "duplicate")
          /\ UNCHANGED mongoVars
       \/ /\ ~HasVoted(ballot[r].voterKey)
          /\ GoVote(r, "create", "incr")
          /\ InsertVote([_id |-> r, voterKey |-> ballot[r].voterKey,
                         optionId |-> ballot[r].optionId])
    /\ UNCHANGED <<redisVars, channel, snapshot>>

\* Variant: an error of IncrementVote is only logged.
CountVoteOrGoOn(r) ==
    /\ GoVote(r, "incr", "read")
    /\ IncrementVote(ballot[r].optionId) \/ UNCHANGED redisVars
    /\ UNCHANGED <<mongoVars, channel, snapshot>>

\* Variant: GetResults before IncrementVote.
CountVoteAfterRead(r) ==
    /\ GoVote(r, "incr", "publish")
    /\ snapshot' = [snapshot EXCEPT ![r] = results]
    /\ IncrementVote(ballot[r].optionId)
    /\ UNCHANGED <<mongoVars, channel>>

CountVote(r) ==
    /\ GoVote(r, "incr", "read")
    /\ IncrementVote(ballot[r].optionId)
    /\ UNCHANGED <<mongoVars, channel, snapshot>>

\* The answer to an applied script is lost, and the client, which repeats what
\* a network error has ended, sends it again.
RepeatIncrement(r) ==
    /\ vpc[r] = "incr"
    /\ repeats[r] < MaxRetries
    /\ repeats' = [repeats EXCEPT ![r] = @ + 1]
    /\ IncrementVote(ballot[r].optionId)
    /\ UNCHANGED <<mongoVars, channel, vpc, ballot, snapshot>>

\* Variant: only the count of the request's own option is read.
ReadOwnResult(r) ==
    /\ GoVote(r, "read", "publish")
    /\ snapshot' = [snapshot EXCEPT ![r] =
           [ZeroTally EXCEPT ![ballot[r].optionId] = results[ballot[r].optionId]]]
    /\ UNCHANGED storeVars

ReadResults(r) ==
    /\ GoVote(r, "read", "publish")
    /\ snapshot' = [snapshot EXCEPT ![r] = results]
    /\ UNCHANGED storeVars

PublishResults(r) ==
    /\ GoVote(r, "publish", "ok")
    /\ Publish("poll_update", snapshot[r])
    /\ snapshot' = [snapshot EXCEPT ![r] = ZeroTally]
    /\ UNCHANGED <<mongoVars, redisVars>>

\* A remote call returns an error, the client's context is cancelled or the
\* instance crashes: Vote returns at once, and nothing done so far is undone.
\* A call that was applied although it reported an error is the step above
\* followed by this one.
FailVote(r) ==
    /\ \/ \E pc \in VotePending \ {"incr"} : GoVote(r, pc, "failed")
       \/ GoVote(r, "incr", "uncounted")
    /\ snapshot' = [snapshot EXCEPT ![r] = ZeroTally]
    /\ UNCHANGED storeVars

VoteStep(r) ==
    \/ FindPoll(r)
    \/ EnsureCounters(r)
    \/ CreateVote(r)
    \/ CountVote(r)
    \/ RepeatIncrement(r)
    \/ ReadResults(r)
    \/ PublishResults(r)

=============================================================================
