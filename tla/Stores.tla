------------------------------- MODULE Stores -------------------------------
(***************************************************************************)
(* The two stores of the backend, seen from ONE poll: the polls and votes  *)
(* collections of MongoDB (permanent), the results hash and the option     *)
(* counters of Redis (live), and the poll's Pub/Sub channel.  No key of    *)
(* either store is shared by two polls, so one poll is all of the state    *)
(* that a request about it can reach.                                      *)
(*                                                                         *)
(* Every operator below is one call of a repository or of RedisService: a  *)
(* single command or Lua script of the server, hence atomic.  The ensureMu *)
(* of RedisService only serialises calls of one already atomic script and  *)
(* has no state of its own here.                                           *)
(***************************************************************************)
EXTENDS Naturals, FiniteSets, Sequences

CONSTANTS
    VoteRequests,   \* POST /api/polls/:id/vote requests, of any instance
    Voters,         \* voter keys: "user:<id>" or "anon:<browser id>"
    Options,        \* the option ids of the poll
    UnknownOption   \* an option id the poll does not have

ASSUME StoresAssumption ==
    /\ IsFiniteSet(VoteRequests)
    /\ UnknownOption \notin Options

VARIABLES
    status,    \* the status of the poll's document, "absent" before InsertOne
    votes,     \* the documents of the votes collection
    cached,    \* EXISTS poll:{id}:results
    results,   \* the fields of that hash; a missing field reads as 0
    counters,  \* poll:{id}:option:{o}; a missing key increments from 0
    channel    \* everything PUBLISHed on poll:{id}:updates, oldest first

mongoVars == <<status, votes>>
redisVars == <<cached, results, counters>>
storeVars == <<status, votes, cached, results, counters, channel>>

Tally     == [Options -> Nat]
ZeroTally == [o \in Options |-> 0]
Status    == {"absent", "active", "closed", "deleted"}
Vote      == [_id : VoteRequests, voterKey : Voters, optionId : Options]
Event     == [type : {"poll_update", "poll_closed"}, results : Tally]

StoresTypeOK ==
    /\ status \in Status
    /\ votes \in SUBSET Vote
    /\ cached \in BOOLEAN
    /\ results \in Tally
    /\ counters \in Tally
    /\ channel \in Seq(Event)

StoresInit ==
    /\ status = "absent"
    /\ votes = {}
    /\ cached = FALSE
    /\ results = ZeroTally
    /\ counters = ZeroTally
    /\ channel = <<>>

-----------------------------------------------------------------------------
(* PollRepository.  A definition marked "Variant" is a mistaken form of the   *)
(* one that follows it; it is part of no specification and is kept to show   *)
(* that the properties tell the two apart.                                   *)

\* FindByID and FindByCreator hide a soft-deleted document.
Findable == status \in {"active", "closed"}

\* UpdateOne selects by _id alone, whatever the document's status is by now.
UpdateStatus(s) ==
    /\ status # "absent"
    /\ status' = s
    /\ UNCHANGED votes

-----------------------------------------------------------------------------
(* VoteRepository *)

\* The unique index on (pollId, voterKey) already holds this voter.
HasVoted(v) == \E d \in votes : d.voterKey = v

InsertVote(d) ==
    /\ votes' = votes \union {d}
    /\ UNCHANGED status

VotesFor(o) == {d \in votes : d.optionId = o}

\* The aggregation has no group for an option without votes; the seed map
\* then yields Go's zero value.
CountByOption == [o \in Options |-> Cardinality(VotesFor(o))]

-----------------------------------------------------------------------------
(* RedisService *)

\* Variant: the script without its EXISTS test.
EnsureResultsOverwrite(seed) ==
    /\ cached' = TRUE
    /\ results' = seed
    /\ UNCHANGED counters

\* Variant: HINCRBY of every seed count instead of HSET behind EXISTS.
EnsureResultsAdd(seed) ==
    /\ cached' = TRUE
    /\ results' = [o \in Options |-> results[o] + seed[o]]
    /\ UNCHANGED counters

\* The Lua script writes the seed only when the hash does not exist.
EnsureResults(seed) ==
    /\ cached' = TRUE
    /\ results' = IF cached THEN results ELSE seed
    /\ UNCHANGED counters

\* INCR of the option counter and HINCRBY of the hash, in one script.
\* HINCRBY creates the hash if it has been lost meanwhile.
IncrementVote(o) ==
    /\ cached' = TRUE
    /\ results' = [results EXCEPT ![o] = @ + 1]
    /\ counters' = [counters EXCEPT ![o] = @ + 1]

Publish(type, tally) ==
    channel' = Append(channel, [type |-> type, results |-> tally])

=============================================================================
