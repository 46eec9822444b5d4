---------------------------- MODULE BackendProofs ----------------------------
(***************************************************************************)
(* Proofs about Backend, for every set of requests, voters, options and    *)
(* users and every bound on the losses of Redis.                           *)
(***************************************************************************)
EXTENDS Backend, FiniteSetTheorems, TLAPS

-----------------------------------------------------------------------------
(* Type correctness *)

\* The zero tally is a tally.
LEMMA ZeroTallyType == ZeroTally \in Tally
BY DEF ZeroTally, Tally

\* The counts that the seed aggregation returns are a tally.
LEMMA CountByOptionType ==
    ASSUME IsFiniteSet(votes)
    PROVE  CountByOption \in Tally
<1>1. ASSUME NEW o \in Options PROVE Cardinality(VotesFor(o)) \in Nat
  <2>1. VotesFor(o) \in SUBSET votes
    BY DEF VotesFor
  <2>2. IsFiniteSet(VotesFor(o))
    BY <2>1, FS_Subset
  <2> QED
    BY <2>2, FS_CardinalityType
<1> QED
  BY <1>1 DEF CountByOption, Tally

\* The document that request r inserts.
Doc(r) == [_id |-> r, voterKey |-> ballot[r].voterKey, optionId |-> ballot[r].optionId]

Unchecked == {"find", "notFound", "pollClosed", "invalid", "failed"}

\* A request past the checks of FindPoll carries an option of the poll.
OptionChecked ==
    \A r \in VoteRequests :
        vpc[r] \notin Unchecked => ballot[r].optionId \in Options

\* Votes are inserted one at a time, so the collection is finite even when
\* the sets of voters and options are not.
TypeInv == TypeOK /\ OptionChecked /\ IsFiniteSet(votes)

LEMMA TypeInit == Init => TypeInv
<1> SUFFICES ASSUME Init PROVE TypeInv
  OBVIOUS
<1>1. StoresTypeOK
  <2>1. <<>> \in Seq(Event)
    OBVIOUS
  <2>2. status \in Status /\ votes \in SUBSET Vote /\ cached \in BOOLEAN
    BY DEF Init, StoresInit, Status
  <2> QED
    BY <2>1, <2>2, ZeroTallyType DEF Init, StoresInit, StoresTypeOK
<1>2. VoteTypeOK
  BY ZeroTallyType, VoteAssumption DEF Init, VoteInit, VoteTypeOK, VotePC, VotePending
<1>3. PollTypeOK
  BY ZeroTallyType DEF Init, PollInit, PollTypeOK, CreatePC, OwnerPC, ReadPC
<1>4. losses \in 0..MaxLosses
  BY BackendAssumption DEF Init
<1>5. IsFiniteSet(votes)
  BY FS_EmptySet DEF Init, StoresInit
<1>6. OptionChecked
  BY DEF Init, VoteInit, OptionChecked, Unchecked
<1> QED
  BY <1>1, <1>2, <1>3, <1>4, <1>5, <1>6 DEF TypeInv, TypeOK

\* Seeding and incrementing keep the live counters well typed.
LEMMA EnsureType ==
    ASSUME StoresTypeOK, NEW s \in Tally, EnsureResults(s)
    PROVE  cached' \in BOOLEAN /\ results' \in Tally /\ counters' \in Tally
BY DEF StoresTypeOK, EnsureResults

LEMMA IncrementType ==
    ASSUME StoresTypeOK, NEW o \in Options, IncrementVote(o)
    PROVE  cached' \in BOOLEAN /\ results' \in Tally /\ counters' \in Tally
BY DEF StoresTypeOK, IncrementVote, Tally

LEMMA PublishType ==
    ASSUME StoresTypeOK, NEW s \in Tally, NEW t \in {"poll_update", "poll_closed"},
           Publish(t, s)
    PROVE  channel' \in Seq(Event)
BY DEF StoresTypeOK, Publish, Event

\* What each kind of request writes of its own state is well typed.
LEMMA GoVoteType ==
    ASSUME VoteTypeOK, NEW r \in VoteRequests, NEW from, NEW to \in VotePC,
           GoVote(r, from, to)
    PROVE  /\ vpc' \in [VoteRequests -> VotePC] /\ ballot' \in [VoteRequests -> Ballot]
           /\ repeats' \in [VoteRequests -> 0..MaxRetries]
BY DEF VoteTypeOK, GoVote

LEMMA VoteStepType ==
    ASSUME TypeInv, NEW r \in VoteRequests, VoteStep(r) \/ FailVote(r)
    PROVE  StoresTypeOK' /\ VoteTypeOK' /\ OptionChecked' /\ IsFiniteSet(votes)'
<1> USE DEF TypeInv, TypeOK
<1>0. VoteTypeOK /\ StoresTypeOK
  OBVIOUS
<1>1. CASE FindPoll(r)
  <2>1. PICK to \in {"notFound", "pollClosed", "invalid", "ensure"} :
            /\ GoVote(r, "find", to)
            /\ to = "ensure" => ballot[r].optionId \in Options
    BY <1>1 DEF FindPoll
  <2>2. to \in VotePC
    BY <2>1 DEF VotePC, VotePending, VoteAnswer
  <2>3. UNCHANGED storeVars /\ snapshot' = snapshot
    BY <1>1 DEF FindPoll
  <2>4. StoresTypeOK' /\ IsFiniteSet(votes)'
    BY <2>3 DEF StoresTypeOK, storeVars
  <2>5. VoteTypeOK'
    BY <2>1, <2>2, <2>3, GoVoteType DEF VoteTypeOK
  <2>6. OptionChecked'
    BY <2>1, <2>2 DEF OptionChecked, GoVote, VoteTypeOK, Unchecked
  <2> QED
    BY <2>4, <2>5, <2>6
<1>2. CASE EnsureCounters(r)
  <2>1. GoVote(r, "ensure", "create") /\ "create" \in VotePC
    BY <1>2 DEF EnsureCounters, VotePC, VotePending
  <2>2. StoresTypeOK' /\ IsFiniteSet(votes)'
    BY <1>2, EnsureType, ZeroTallyType DEF EnsureCounters, StoresTypeOK, mongoVars
  <2>3. VoteTypeOK'
    BY <1>2, <2>1, GoVoteType DEF EnsureCounters, VoteTypeOK
  <2>4. OptionChecked'
    BY <2>1 DEF OptionChecked, GoVote, VoteTypeOK, Unchecked
  <2> QED
    BY <2>2, <2>3, <2>4
<1>3. CASE CreateVote(r)
  <2>1. PICK to \in {"duplicate", "incr"} : GoVote(r, "create", to)
    BY <1>3 DEF CreateVote
  <2>2. to \in VotePC
    BY <2>1 DEF VotePC, VotePending, VoteAnswer
  <2>3. VoteTypeOK'
    BY <1>3, <2>1, <2>2, GoVoteType DEF CreateVote, VoteTypeOK
  <2>4. OptionChecked'
    BY <2>1, <2>2 DEF OptionChecked, GoVote, VoteTypeOK, Unchecked
  <2>5. ballot[r].voterKey \in Voters /\ ballot[r].optionId \in Options
    BY <2>1 DEF OptionChecked, GoVote, VoteTypeOK, Unchecked, Ballot
  <2>6. Doc(r) \in Vote
    BY <2>5 DEF Doc, Vote
  <2>7. votes' = votes \/ votes' = votes \union {Doc(r)}
    BY <1>3 DEF CreateVote, InsertVote, mongoVars, Doc
  <2>8. IsFiniteSet(votes)'
    BY <2>7, FS_AddElement
  <2>9. StoresTypeOK'
    BY <1>3, <2>6, <2>7 DEF CreateVote, InsertVote, mongoVars, redisVars, StoresTypeOK
  <2> QED
    BY <2>3, <2>4, <2>8, <2>9
<1>4. CASE CountVote(r)
  <2>1. GoVote(r, "incr", "read") /\ "read" \in VotePC
    BY <1>4 DEF CountVote, VotePC, VotePending
  <2>2. ballot[r].optionId \in Options
    BY <2>1 DEF OptionChecked, GoVote, Unchecked
  <2>3. StoresTypeOK' /\ IsFiniteSet(votes)'
    BY <1>4, <2>2, IncrementType DEF CountVote, StoresTypeOK, mongoVars
  <2>4. VoteTypeOK'
    BY <1>4, <2>1, GoVoteType DEF CountVote, VoteTypeOK
  <2>5. OptionChecked'
    BY <2>1 DEF OptionChecked, GoVote, VoteTypeOK, Unchecked
  <2> QED
    BY <2>3, <2>4, <2>5
<1>8. CASE RepeatIncrement(r)
  <2>1. /\ vpc[r] = "incr" /\ repeats[r] < MaxRetries
        /\ repeats' = [repeats EXCEPT ![r] = @ + 1]
        /\ UNCHANGED <<vpc, ballot, snapshot, channel, status, votes>>
        /\ IncrementVote(ballot[r].optionId)
    BY <1>8 DEF RepeatIncrement, mongoVars
  <2>2. ballot[r].optionId \in Options
    BY <2>1 DEF OptionChecked, Unchecked
  <2>3. StoresTypeOK' /\ IsFiniteSet(votes)'
    BY <2>1, <2>2, IncrementType DEF StoresTypeOK
  <2>4. VoteTypeOK' /\ OptionChecked'
    BY <2>1, VoteAssumption DEF VoteTypeOK, OptionChecked
  <2> QED
    BY <2>3, <2>4
<1>5. CASE ReadResults(r)
  <2>1. GoVote(r, "read", "publish") /\ "publish" \in VotePC
    BY <1>5 DEF ReadResults, VotePC, VotePending
  <2>2. StoresTypeOK' /\ IsFiniteSet(votes)'
    BY <1>5 DEF ReadResults, StoresTypeOK, storeVars
  <2>3. VoteTypeOK'
    BY <1>5, <2>1, GoVoteType DEF ReadResults, VoteTypeOK, StoresTypeOK
  <2>4. OptionChecked'
    BY <2>1 DEF OptionChecked, GoVote, VoteTypeOK, Unchecked
  <2> QED
    BY <2>2, <2>3, <2>4
<1>6. CASE PublishResults(r)
  <2>1. GoVote(r, "publish", "ok") /\ "ok" \in VotePC
    BY <1>6 DEF PublishResults, VotePC, VoteAnswer
  <2>2. snapshot[r] \in Tally
    BY DEF VoteTypeOK
  <2>3. StoresTypeOK' /\ IsFiniteSet(votes)'
    BY <1>6, <2>2, PublishType DEF PublishResults, StoresTypeOK, mongoVars, redisVars
  <2>4. VoteTypeOK'
    BY <1>6, <2>1, GoVoteType, ZeroTallyType DEF PublishResults, VoteTypeOK
  <2>5. OptionChecked'
    BY <2>1 DEF OptionChecked, GoVote, VoteTypeOK, Unchecked
  <2> QED
    BY <2>3, <2>4, <2>5
<1>7. CASE FailVote(r)
  <2>1. PICK from \in VotePending, to \in {"failed", "uncounted"} :
            /\ GoVote(r, from, to)
            /\ to = "uncounted" => from = "incr"
    BY <1>7 DEF FailVote, VotePending
  <2>2. to \in VotePC
    BY <2>1 DEF VotePC, VoteAnswer
  <2>3. StoresTypeOK' /\ IsFiniteSet(votes)'
    BY <1>7 DEF FailVote, StoresTypeOK, storeVars
  <2>4. VoteTypeOK'
    BY <1>7, <2>1, <2>2, GoVoteType, ZeroTallyType DEF FailVote, VoteTypeOK
  <2>5. OptionChecked'
    BY <2>1, <2>2 DEF OptionChecked, GoVote, VoteTypeOK, Unchecked
  <2> QED
    BY <2>3, <2>4, <2>5
<1> QED
  BY <1>1, <1>2, <1>3, <1>4, <1>5, <1>6, <1>7, <1>8 DEF VoteStep

LEMMA PollStepType ==
    ASSUME TypeInv, UNCHANGED voteVars,
           \/ CreateNext
           \/ OwnerNext
           \/ ReadNext
    PROVE  StoresTypeOK' /\ PollTypeOK' /\ IsFiniteSet(votes)' /\ losses' = losses
<1> USE DEF TypeInv, TypeOK
<1>0. StoresTypeOK /\ PollTypeOK
  OBVIOUS
<1>1. CASE CreateNext
  <2>1. CASE InsertPoll
    BY <1>1, <2>1 DEF CreateNext, InsertPoll, GoCreate, StoresTypeOK, PollTypeOK,
                      redisVars, Status, CreatePC
  <2>2. CASE SeedPoll
    <3>1. StoresTypeOK' /\ IsFiniteSet(votes)'
      BY <2>2, EnsureType, ZeroTallyType DEF SeedPoll, StoresTypeOK, mongoVars
    <3> QED
      BY <1>1, <2>2, <3>1 DEF CreateNext, SeedPoll, GoCreate, PollTypeOK, CreatePC
  <2>3. CASE FailCreate
    BY <1>1, <2>3 DEF CreateNext, FailCreate, GoCreate, StoresTypeOK, PollTypeOK,
                      storeVars, CreatePC
  <2> QED
    BY <1>1, <2>1, <2>2, <2>3 DEF CreateNext
<1>2. CASE OwnerNext
  <2>1. PICK a \in OwnerRequests :
            FindOwned(a) \/ UpdateOwned(a) \/ PublishClosed(a) \/ FailOwner(a)
    BY <1>2 DEF OwnerNext
  <2>2. PollTypeOK'
    BY <2>1 DEF FindOwned, UpdateOwned, PublishClosed, FailOwner, GoOwner,
                PollTypeOK, OwnerPC
  <2>3. StoresTypeOK' /\ IsFiniteSet(votes)'
    <3>1. CASE FindOwned(a) \/ FailOwner(a)
      BY <3>1 DEF FindOwned, FailOwner, storeVars, StoresTypeOK
    <3>2. CASE UpdateOwned(a)
      BY <3>2 DEF UpdateOwned, UpdateStatus, redisVars, StoresTypeOK, Status
    <3>3. CASE PublishClosed(a)
      BY <3>3, PublishType, ZeroTallyType
         DEF PublishClosed, StoresTypeOK, mongoVars, redisVars
    <3> QED
      BY <2>1, <3>1, <3>2, <3>3
  <2> QED
    BY <1>2, <2>2, <2>3 DEF OwnerNext
<1>3. CASE ReadNext
  <2>1. PICK q \in Readers :
            ReadFind(q) \/ ReadCount(q) \/ ReadEnsure(q) \/ ReadGet(q) \/ FailRead(q)
    BY <1>3 DEF ReadNext
  <2>2. StoresTypeOK' /\ IsFiniteSet(votes)'
    <3>1. CASE ReadEnsure(q)
      BY <3>1, EnsureType DEF ReadEnsure, StoresTypeOK, PollTypeOK, mongoVars
    <3>2. CASE ~ReadEnsure(q)
      BY <2>1, <3>2 DEF ReadFind, ReadCount, ReadGet, FailRead, storeVars, StoresTypeOK
    <3> QED
      BY <3>1, <3>2
  <2>3. PollTypeOK'
    <3>1. rpc' \in [Readers -> ReadPC] /\ UNCHANGED <<cpc, opc, demand>>
      BY <2>1 DEF ReadFind, ReadCount, ReadEnsure, ReadGet, FailRead, GoRead,
                  PollTypeOK, ReadPC
    <3>2. seed' \in [Readers -> Tally]
      BY <2>1, ZeroTallyType, CountByOptionType
         DEF ReadFind, ReadCount, ReadEnsure, ReadGet, FailRead, PollTypeOK
    <3> QED
      BY <3>1, <3>2 DEF PollTypeOK
  <2> QED
    BY <1>3, <2>2, <2>3 DEF ReadNext
<1> QED
  BY <1>1, <1>2, <1>3

LEMMA TypeStep == TypeInv /\ [Next]_vars => TypeInv'
<1> SUFFICES ASSUME TypeInv, [Next]_vars PROVE TypeInv'
  OBVIOUS
<1>1. CASE VoteNext
  <2>1. PICK r \in VoteRequests : VoteStep(r) \/ FailVote(r)
    BY <1>1 DEF VoteNext
  <2>2. PollTypeOK' /\ (losses \in 0..MaxLosses)'
    BY <1>1 DEF VoteNext, pollVars, TypeInv, TypeOK, PollTypeOK
  <2> QED
    BY <2>1, <2>2, VoteStepType DEF TypeInv, TypeOK
<1>2. CASE CreateNext \/ OwnerNext \/ ReadNext
  <2>1. UNCHANGED voteVars
    BY <1>2 DEF CreateNext, OwnerNext, ReadNext
  <2>2. VoteTypeOK' /\ OptionChecked'
    BY <2>1 DEF voteVars, TypeInv, TypeOK, VoteTypeOK, OptionChecked
  <2> QED
    BY <1>2, <2>1, <2>2, PollStepType DEF TypeInv, TypeOK
<1>3. CASE LoseRedis
  <2>1. StoresTypeOK' /\ IsFiniteSet(votes)'
    BY <1>3, ZeroTallyType DEF LoseRedis, mongoVars, TypeInv, TypeOK, StoresTypeOK
  <2>2. VoteTypeOK' /\ PollTypeOK' /\ OptionChecked'
    BY <1>3 DEF LoseRedis, voteVars, pollVars, TypeInv, TypeOK, VoteTypeOK,
                PollTypeOK, OptionChecked
  <2>3. (losses \in 0..MaxLosses)'
    BY <1>3, BackendAssumption DEF LoseRedis, TypeInv, TypeOK
  <2> QED
    BY <2>1, <2>2, <2>3 DEF TypeInv, TypeOK
<1>4. CASE UNCHANGED vars
  BY <1>4 DEF vars, storeVars, voteVars, pollVars, TypeInv, TypeOK, StoresTypeOK,
              VoteTypeOK, PollTypeOK, OptionChecked
<1> QED
  BY <1>1, <1>2, <1>3, <1>4 DEF Next

LEMMA TypeInvariant == Spec => []TypeInv
BY TypeInit, TypeStep, PTL DEF Spec

\* The stores, the requests and the readers only ever hold well-typed values:
\* in particular the live counters never go negative or off the poll's options.
THEOREM TypeCorrect == Spec => []TypeOK
<1>1. TypeInv => TypeOK
  BY DEF TypeInv
<1> QED
  BY <1>1, TypeInvariant, PTL

-----------------------------------------------------------------------------
(* The votes collection *)

\* Where a request whose vote is stored can stand, and where its vote must be.
MayHaveVoted == {"incr", "read", "publish", "ok", "uncounted", "failed"}
MustHaveVoted == MayHaveVoted \ {"failed"}

\* The documents are those of the requests that came through CreateVote.
VotesMatchRequests ==
    /\ \A d \in votes : /\ d._id \in VoteRequests
                        /\ d = Doc(d._id)
                        /\ vpc[d._id] \in MayHaveVoted
    /\ \A r \in VoteRequests : vpc[r] \in MustHaveVoted => Doc(r) \in votes

\* A 409 answer has a reason.
RefusedVotersHaveVoted ==
    \A r \in VoteRequests : vpc[r] = "duplicate" => HasVoted(ballot[r].voterKey)

VotesInv == VotesMatchRequests /\ OneVotePerVoter /\ RefusedVotersHaveVoted

\* The one step that changes the votes ...
StoresVote(r) ==
    /\ GoVote(r, "create", "incr")
    /\ ~HasVoted(ballot[r].voterKey)
    /\ votes' = votes \union {Doc(r)}

\* ... and all that the others do to a request, as far as the votes go.
Moves(r, from, to) ==
    /\ GoVote(r, from, to)
    /\ votes' = votes
    /\ from \in VotePending /\ to \in VotePC \ {"incr"}
    /\ to \in MustHaveVoted => from \in MustHaveVoted
    /\ from \in MustHaveVoted => to \in MayHaveVoted
    /\ to = "duplicate" => HasVoted(ballot[r].voterKey)

LEMMA StepOnVotes ==
    ASSUME [Next]_vars
    PROVE  \/ \E r \in VoteRequests : StoresVote(r)
           \/ \E r \in VoteRequests : \E from, to \in VotePC : Moves(r, from, to)
           \/ votes' = votes /\ vpc' = vpc /\ ballot' = ballot
<1> USE DEF VotePC, VotePending, VoteAnswer, MayHaveVoted, MustHaveVoted
<1>1. CASE VoteNext
  <2>1. PICK r \in VoteRequests : VoteStep(r) \/ FailVote(r)
    BY <1>1 DEF VoteNext
  <2>2. CASE FindPoll(r)
    BY <2>2 DEF FindPoll, storeVars, Moves
  <2>3. CASE EnsureCounters(r)
    BY <2>3 DEF EnsureCounters, mongoVars, Moves
  <2>4. CASE CreateVote(r)
    <3>1. \/ GoVote(r, "create", "duplicate") /\ HasVoted(ballot[r].voterKey) /\ votes' = votes
          \/ StoresVote(r)
      BY <2>4 DEF CreateVote, InsertVote, mongoVars, StoresVote, Doc
    <3> QED
      BY <3>1 DEF Moves
  <2>5. CASE CountVote(r)
    BY <2>5 DEF CountVote, mongoVars, Moves
  <2>6. CASE ReadResults(r)
    BY <2>6 DEF ReadResults, storeVars, Moves
  <2>7. CASE PublishResults(r)
    BY <2>7 DEF PublishResults, mongoVars, Moves
  <2>8. CASE FailVote(r)
    BY <2>8 DEF FailVote, storeVars, Moves
  <2>9. CASE RepeatIncrement(r)
    BY <2>9 DEF RepeatIncrement, mongoVars
  <2> QED
    BY <2>1, <2>2, <2>3, <2>4, <2>5, <2>6, <2>7, <2>8, <2>9 DEF VoteStep
<1>2. CASE CreateNext
  BY <1>2 DEF CreateNext, InsertPoll, SeedPoll, FailCreate, voteVars, storeVars, mongoVars
<1>3. CASE OwnerNext
  BY <1>3 DEF OwnerNext, FindOwned, UpdateOwned, UpdateStatus, PublishClosed, FailOwner,
              voteVars, storeVars, mongoVars
<1>4. CASE ReadNext
  BY <1>4 DEF ReadNext, ReadFind, ReadCount, ReadEnsure, ReadGet, FailRead,
              voteVars, storeVars, mongoVars
<1>5. CASE LoseRedis \/ UNCHANGED vars
  BY <1>5 DEF LoseRedis, vars, voteVars, storeVars, mongoVars
<1> QED
  BY <1>1, <1>2, <1>3, <1>4, <1>5 DEF Next

LEMMA VotesInit == Init => VotesInv
BY DEF Init, StoresInit, VoteInit, VotesInv, VotesMatchRequests, MayHaveVoted,
       MustHaveVoted, OneVotePerVoter, RefusedVotersHaveVoted

LEMMA VotesStep == TypeInv /\ VotesInv /\ [Next]_vars => VotesInv'
<1> SUFFICES ASSUME TypeInv, VotesInv, [Next]_vars PROVE VotesInv'
  OBVIOUS
<1>0. vpc \in [VoteRequests -> VotePC]
  BY DEF TypeInv, TypeOK, VoteTypeOK
<1>1. ASSUME NEW r \in VoteRequests, StoresVote(r) PROVE VotesInv'
  <2>1. /\ vpc[r] = "create" /\ vpc' = [vpc EXCEPT ![r] = "incr"]
        /\ ballot' = ballot /\ votes' = votes \union {Doc(r)}
    BY <1>1 DEF StoresVote, GoVote
  <2>2. \A s : Doc(s)' = Doc(s)
    BY <2>1 DEF Doc
  <2>3. Doc(r)._id = r /\ Doc(r).voterKey = ballot[r].voterKey
    BY DEF Doc
  <2>4. VotesMatchRequests'
    <3>1. ASSUME NEW d \in votes'
          PROVE  d._id \in VoteRequests /\ d = Doc(d._id)' /\ vpc'[d._id] \in MayHaveVoted
      BY <1>0, <2>1, <2>2, <2>3 DEF VotesInv, VotesMatchRequests, MayHaveVoted
    <3>2. ASSUME NEW s \in VoteRequests, vpc'[s] \in MustHaveVoted PROVE Doc(s)' \in votes'
      BY <1>0, <2>1, <2>2, <3>2 DEF VotesInv, VotesMatchRequests
    <3> QED
      BY <3>1, <3>2 DEF VotesMatchRequests
  <2>5. OneVotePerVoter'
    <3>1. \A d \in votes : d.voterKey # Doc(r).voterKey
      BY <1>1, <2>3 DEF StoresVote, HasVoted
    <3> QED
      BY <2>1, <3>1 DEF VotesInv, OneVotePerVoter
  <2>6. RefusedVotersHaveVoted'
    BY <1>0, <2>1 DEF VotesInv, RefusedVotersHaveVoted, HasVoted
  <2> QED
    BY <2>4, <2>5, <2>6 DEF VotesInv
<1>2. ASSUME NEW r \in VoteRequests, NEW from, NEW to, Moves(r, from, to) PROVE VotesInv'
  <2>1. /\ vpc[r] = from /\ vpc' = [vpc EXCEPT ![r] = to]
        /\ ballot' = ballot /\ votes' = votes
    BY <1>2 DEF Moves, GoVote
  <2>2. \A s : Doc(s)' = Doc(s)
    BY <2>1 DEF Doc
  <2>3. VotesMatchRequests'
    <3>1. ASSUME NEW d \in votes'
          PROVE  d._id \in VoteRequests /\ d = Doc(d._id)' /\ vpc'[d._id] \in MayHaveVoted
      BY <1>0, <1>2, <2>1, <2>2
         DEF VotesInv, VotesMatchRequests, MayHaveVoted, MustHaveVoted, Moves, VotePending
    <3>2. ASSUME NEW s \in VoteRequests, vpc'[s] \in MustHaveVoted PROVE Doc(s)' \in votes'
      BY <1>0, <1>2, <2>1, <2>2, <3>2 DEF VotesInv, VotesMatchRequests, Moves
    <3> QED
      BY <3>1, <3>2 DEF VotesMatchRequests
  <2>4. OneVotePerVoter' /\ RefusedVotersHaveVoted'
    BY <1>0, <1>2, <2>1 DEF VotesInv, OneVotePerVoter, RefusedVotersHaveVoted, HasVoted, Moves
  <2> QED
    BY <2>3, <2>4 DEF VotesInv
<1>3. CASE votes' = votes /\ vpc' = vpc /\ ballot' = ballot
  BY <1>3 DEF VotesInv, VotesMatchRequests, OneVotePerVoter, RefusedVotersHaveVoted,
              HasVoted, Doc
<1> QED
  BY <1>1, <1>2, <1>3, StepOnVotes

LEMMA VotesInvariant == Spec => []VotesInv
BY TypeInvariant, VotesInit, VotesStep, PTL DEF Spec

\* However requests interleave and fail, and whatever is closed, deleted or
\* lost meanwhile, no voter ever has two votes in MongoDB.
THEOREM OneVote == Spec => []OneVotePerVoter
<1>1. VotesInv => OneVotePerVoter
  BY DEF VotesInv
<1> QED
  BY <1>1, VotesInvariant, PTL

\* Every answer of the vote handler tells the truth about the stored votes.
THEOREM TruthfulAnswers == Spec => []AnswersAreTruthful
<1>1. ASSUME VotesInv PROVE AnswersAreTruthful
  <2>1. ASSUME NEW r \in VoteRequests, Stored(r) PROVE vpc[r] \in MayHaveVoted
    BY <1>1, <2>1 DEF VotesInv, VotesMatchRequests, Stored
  <2>2. ASSUME NEW r \in VoteRequests, vpc[r] = "ok" PROVE Stored(r)
    BY <1>1, <2>2 DEF VotesInv, VotesMatchRequests, MayHaveVoted, MustHaveVoted, Stored, Doc
  <2> QED
    BY <1>1, <2>1, <2>2
       DEF AnswersAreTruthful, VotesInv, RefusedVotersHaveVoted, HasVoted, MayHaveVoted
<1> QED
  BY <1>1, VotesInvariant, PTL

-----------------------------------------------------------------------------
(* The live counters *)

\* A Redis without the hash has no counters either, after a loss as before
\* the first seed.
ColdIsZero == ~cached => results = ZeroTally /\ counters = ZeroTally

LEMMA ColdInit == Init => ColdIsZero
BY DEF Init, StoresInit, ColdIsZero

LEMMA ColdStep == ColdIsZero /\ [Next]_vars => ColdIsZero'
<1> SUFFICES ASSUME ColdIsZero, [Next]_vars PROVE ColdIsZero'
  OBVIOUS
<1> USE DEF ColdIsZero
<1>1. CASE VoteNext
  <2>1. PICK r \in VoteRequests : VoteStep(r) \/ FailVote(r)
    BY <1>1 DEF VoteNext
  <2>2. CASE EnsureCounters(r) \/ CountVote(r) \/ RepeatIncrement(r)
    BY <2>2 DEF EnsureCounters, EnsureResults, CountVote, RepeatIncrement, IncrementVote
  <2>3. CASE ~(EnsureCounters(r) \/ CountVote(r) \/ RepeatIncrement(r))
    BY <2>1, <2>3 DEF VoteStep, FindPoll, CreateVote, ReadResults, PublishResults,
                      FailVote, storeVars, redisVars, ZeroTally
  <2> QED
    BY <2>2, <2>3
<1>2. CASE CreateNext
  BY <1>2 DEF CreateNext, InsertPoll, SeedPoll, FailCreate, EnsureResults,
              storeVars, redisVars, ZeroTally
<1>3. CASE OwnerNext
  BY <1>3 DEF OwnerNext, FindOwned, UpdateOwned, PublishClosed, FailOwner,
              storeVars, redisVars, ZeroTally
<1>4. CASE ReadNext
  BY <1>4 DEF ReadNext, ReadFind, ReadCount, ReadEnsure, ReadGet, FailRead,
              EnsureResults, storeVars, ZeroTally
<1>5. CASE LoseRedis \/ UNCHANGED vars
  BY <1>5 DEF LoseRedis, vars, storeVars, ZeroTally
<1> QED
  BY <1>1, <1>2, <1>3, <1>4, <1>5 DEF Next

LEMMA ColdInvariant == Spec => []ColdIsZero
BY ColdInit, ColdStep, PTL DEF Spec

\* As long as Redis has kept its data, a vote is only stored once the hash
\* exists, and a reader that would create the hash holds no old count.
WarmWhenUsed ==
    /\ votes # {} => cached
    /\ \A r \in VoteRequests : vpc[r] = "create" => cached
    /\ ~cached => \A q \in Readers : seed[q] = ZeroTally

\* The tally-and-votes part of the state before any loss.
KeptInv == losses = 0 => WarmWhenUsed /\ counters = results /\ Accounted

\* The two steps that change the live counters ...
AddsOne(o) ==
    /\ votes' = votes
    /\ results' = [results EXCEPT ![o] = @ + 1]
    /\ counters' = [counters EXCEPT ![o] = @ + 1]

CountsVote(r) == GoVote(r, "incr", "read") /\ AddsOne(ballot[r].optionId)

Repeats(r) ==
    /\ vpc[r] = "incr" /\ repeats[r] < MaxRetries
    /\ repeats' = [repeats EXCEPT ![r] = @ + 1]
    /\ vpc' = vpc /\ ballot' = ballot
    /\ AddsOne(ballot[r].optionId)

AwaitsCount(r) == vpc[r] \in {"incr", "uncounted"}

\* ... and what a step does that neither stores nor counts a vote.
KeepsTally ==
    /\ votes' = votes /\ ballot' = ballot /\ repeats' = repeats
    /\ results' = results /\ counters' = counters
    /\ \A r \in VoteRequests : AwaitsCount(r)' <=> AwaitsCount(r)

\* As long as Redis keeps its data, seeding never changes a counter: a seed is
\* written only when the hash is cold, and then both are zero.
LEMMA StepOnTally ==
    ASSUME TypeInv, ColdIsZero, WarmWhenUsed, [Next]_vars, losses' = losses
    PROVE  \/ \E r \in VoteRequests :
                  StoresVote(r) /\ results' = results /\ counters' = counters
           \/ \E r \in VoteRequests : CountsVote(r) \/ Repeats(r)
           \/ KeepsTally
<1>0. /\ vpc \in [VoteRequests -> VotePC]
      /\ losses \in Nat
  BY BackendAssumption DEF TypeInv, TypeOK, VoteTypeOK
<1>7. ASSUME EnsureResults(ZeroTally) PROVE results' = results /\ counters' = counters
  BY <1>7 DEF EnsureResults, ColdIsZero
<1>1. CASE VoteNext
  <2>1. PICK r \in VoteRequests : VoteStep(r) \/ FailVote(r)
    BY <1>1 DEF VoteNext
  <2>2. CASE CreateVote(r)
    <3>1. CASE HasVoted(ballot[r].voterKey) /\ GoVote(r, "create", "duplicate")
      BY <1>0, <2>2, <3>1 DEF CreateVote, GoVote, mongoVars, redisVars, KeepsTally,
                               AwaitsCount, InsertVote
    <3>2. CASE ~HasVoted(ballot[r].voterKey) /\ GoVote(r, "create", "incr")
      BY <2>2, <3>2 DEF CreateVote, InsertVote, redisVars, StoresVote, Doc
    <3> QED
      BY <2>2, <3>1, <3>2 DEF CreateVote
  <2>3. CASE CountVote(r)
    BY <2>3 DEF CountVote, IncrementVote, mongoVars, CountsVote, AddsOne
  <2>6. CASE RepeatIncrement(r)
    BY <2>6 DEF RepeatIncrement, IncrementVote, mongoVars, Repeats, AddsOne
  <2>4. CASE EnsureCounters(r)
    BY <1>0, <1>7, <2>4 DEF EnsureCounters, GoVote, mongoVars, KeepsTally, AwaitsCount
  <2>5. CASE FindPoll(r) \/ ReadResults(r) \/ PublishResults(r) \/ FailVote(r)
    BY <1>0, <2>5 DEF FindPoll, ReadResults, PublishResults, FailVote, GoVote, storeVars,
                      mongoVars, redisVars, KeepsTally, AwaitsCount, VotePending
  <2> QED
    BY <2>1, <2>2, <2>3, <2>4, <2>5, <2>6 DEF VoteStep
<1>2. CASE CreateNext
  BY <1>7, <1>2 DEF CreateNext, InsertPoll, SeedPoll, FailCreate, voteVars, storeVars,
                    mongoVars, redisVars, KeepsTally, AwaitsCount
<1>3. CASE OwnerNext
  BY <1>3 DEF OwnerNext, FindOwned, UpdateOwned, UpdateStatus, PublishClosed, FailOwner,
              voteVars, storeVars, mongoVars, redisVars, KeepsTally, AwaitsCount
<1>4. CASE ReadNext
  <2>1. PICK q \in Readers :
            ReadFind(q) \/ ReadCount(q) \/ ReadEnsure(q) \/ ReadGet(q) \/ FailRead(q)
    BY <1>4 DEF ReadNext
  <2>2. ASSUME ReadEnsure(q) PROVE results' = results /\ counters' = counters
    BY <2>2 DEF ReadEnsure, EnsureResults, ColdIsZero, WarmWhenUsed
  <2> QED
    BY <1>4, <2>1, <2>2 DEF ReadNext, ReadFind, ReadCount, ReadEnsure, ReadGet, FailRead,
              voteVars, storeVars, mongoVars, KeepsTally, AwaitsCount
<1>5. CASE LoseRedis
  BY <1>0, <1>5 DEF LoseRedis
<1>6. CASE UNCHANGED vars
  BY <1>6 DEF vars, voteVars, storeVars, KeepsTally, AwaitsCount
<1> QED
  BY <1>1, <1>2, <1>3, <1>4, <1>5, <1>6 DEF Next

\* Nothing is counted when nothing is stored.
LEMMA NoVotesNoCount == votes = {} => CountByOption = ZeroTally
BY FS_EmptySet DEF CountByOption, VotesFor, ZeroTally

LEMMA WarmStep ==
    ASSUME TypeInv, WarmWhenUsed, [Next]_vars, losses' = losses
    PROVE  WarmWhenUsed'
<1>0. /\ vpc \in [VoteRequests -> VotePC] /\ seed \in [Readers -> Tally]
      /\ losses \in Nat
  BY BackendAssumption DEF TypeInv, TypeOK, VoteTypeOK, PollTypeOK
<1> USE DEF WarmWhenUsed
<1>1. CASE VoteNext
  <2>1. PICK r \in VoteRequests : VoteStep(r) \/ FailVote(r)
    BY <1>1 DEF VoteNext
  <2>2. CASE EnsureCounters(r) \/ CountVote(r) \/ RepeatIncrement(r)
    BY <1>1, <2>2 DEF EnsureCounters, EnsureResults, CountVote, RepeatIncrement, IncrementVote
  <2>3. CASE CreateVote(r)
    BY <1>0, <2>3 DEF CreateVote, GoVote, redisVars
  <2>4. CASE FindPoll(r) \/ ReadResults(r) \/ PublishResults(r) \/ FailVote(r)
    BY <1>0, <1>1, <2>4 DEF FindPoll, ReadResults, PublishResults, FailVote, VoteNext, GoVote,
         storeVars, mongoVars, redisVars, pollVars
  <2> QED
    BY <2>1, <2>2, <2>3, <2>4 DEF VoteStep
<1>2. CASE CreateNext
  BY <1>2 DEF CreateNext, InsertPoll, SeedPoll, FailCreate, GoCreate, EnsureResults,
              voteVars, storeVars, mongoVars, redisVars
<1>3. CASE OwnerNext
  BY <1>3 DEF OwnerNext, FindOwned, UpdateOwned, UpdateStatus, PublishClosed, FailOwner,
              GoOwner, voteVars, storeVars, mongoVars, redisVars
<1>4. CASE ReadNext
  <2>1. PICK q \in Readers :
            ReadFind(q) \/ ReadCount(q) \/ ReadEnsure(q) \/ ReadGet(q) \/ FailRead(q)
    BY <1>4 DEF ReadNext
  <2>2. CASE ReadCount(q)
    BY <1>0, <1>4, <2>2, NoVotesNoCount DEF ReadNext, ReadCount, voteVars, storeVars
  <2>3. CASE ReadEnsure(q)
    BY <1>4, <2>3 DEF ReadEnsure, EnsureResults
  <2>4. CASE ReadFind(q) \/ ReadGet(q) \/ FailRead(q)
    BY <1>0, <1>4, <2>4 DEF ReadNext, ReadFind, ReadGet, FailRead, voteVars, storeVars
  <2> QED
    BY <2>1, <2>2, <2>3, <2>4
<1>5. CASE LoseRedis
  BY <1>0, <1>5 DEF LoseRedis
<1>6. CASE UNCHANGED vars
  BY <1>6 DEF vars, voteVars, pollVars, storeVars
<1> QED
  BY <1>1, <1>2, <1>3, <1>4, <1>5, <1>6 DEF Next

\* The sets that Accounted measures are finite.
LEMMA MeasuredSets ==
    ASSUME TypeInv, NEW o \in Options
    PROVE  /\ IsFiniteSet(Uncounted(o)) /\ Cardinality(Uncounted(o)) \in Nat
           /\ IsFiniteSet(VotesFor(o)) /\ Cardinality(VotesFor(o)) \in Nat
<1>1. Uncounted(o) \in SUBSET VoteRequests /\ VotesFor(o) \in SUBSET votes
  BY DEF Uncounted, VotesFor
<1>2. IsFiniteSet(Uncounted(o)) /\ IsFiniteSet(VotesFor(o))
  BY <1>1, FS_Subset, StoresAssumption DEF TypeInv
<1> QED
  BY <1>2, FS_CardinalityType

LEMMA RetriesFinite == IsFiniteSet(VoteRequests \X (1..MaxRetries))
<1>1. 1 \in Int /\ MaxRetries \in Int
  BY VoteAssumption
<1>2. IsFiniteSet(1..MaxRetries)
  BY ONLY <1>1, FS_Interval
<1>3. IsFiniteSet(VoteRequests)
  BY StoresAssumption
<1> QED
  BY ONLY <1>2, <1>3, FS_Product

\* The repeated increments of an option are a finite set, and one more of them
\* is one more element.
LEMMA RepeatedSets ==
    ASSUME NEW o
    PROVE  IsFiniteSet(Repeated(o)) /\ Cardinality(Repeated(o)) \in Nat
<1>1. IsFiniteSet(VoteRequests \X (1..MaxRetries))
  BY RetriesFinite
<1>2. Repeated(o) \in SUBSET (VoteRequests \X (1..MaxRetries))
  BY DEF Repeated
<1> QED
  BY <1>1, <1>2, FS_Subset, FS_CardinalityType

LEMMA RepeatedStep ==
    ASSUME TypeInv, NEW r \in VoteRequests, NEW o, Repeats(r)
    PROVE  Cardinality(Repeated(o)') =
               IF ballot[r].optionId = o THEN Cardinality(Repeated(o)) + 1
               ELSE Cardinality(Repeated(o))
<1> DEFINE p == <<r, repeats[r] + 1>>
<1>0. /\ repeats \in [VoteRequests -> 0..MaxRetries] /\ repeats[r] < MaxRetries
      /\ repeats' = [repeats EXCEPT ![r] = @ + 1] /\ ballot' = ballot
  BY DEF TypeInv, TypeOK, VoteTypeOK, Repeats
<1>1. p \in VoteRequests \X (1..MaxRetries) /\ p[1] = r /\ p[2] = repeats[r] + 1
  BY <1>0, VoteAssumption
<1>2. ASSUME NEW q \in VoteRequests \X (1..MaxRetries)
      PROVE  q[2] <= repeats'[q[1]] <=> q[2] <= repeats[q[1]] \/ q = p
  <2>1. PICK s \in VoteRequests, k \in 1..MaxRetries : q = <<s, k>>
    OBVIOUS
  <2>2. q[1] = s /\ q[2] = k /\ (q = p <=> s = r /\ k = repeats[r] + 1)
    BY <2>1
  <2>3. repeats[s] \in Nat /\ k \in Nat /\ repeats[r] \in Nat
    BY <1>0, VoteAssumption
  <2>4. repeats'[s] = IF s = r THEN repeats[r] + 1 ELSE repeats[s]
    BY <1>0
  <2> HIDE DEF p
  <2> QED
    BY <2>2, <2>3, <2>4
<1> HIDE DEF p
<1>3. CASE ballot[r].optionId = o
  <2>1. Repeated(o)' = Repeated(o) \union {p}
    BY <1>0, <1>1, <1>2, <1>3 DEF Repeated
  <2>2. p \notin Repeated(o)
    <3>1. ~(repeats[r] + 1 <= repeats[r])
      BY <1>0, VoteAssumption
    <3> QED
      BY <1>1, <3>1 DEF Repeated
  <2> QED
    BY <1>3, <2>1, <2>2, RepeatedSets, FS_AddElement
<1>4. CASE ballot[r].optionId # o
  <2>1. Repeated(o)' = Repeated(o)
    BY <1>0, <1>1, <1>2, <1>4 DEF Repeated
  <2> QED
    BY <1>4, <2>1
<1> QED
  BY <1>3, <1>4

LEMMA RepeatedKept ==
    ASSUME UNCHANGED <<repeats, ballot>>, NEW o
    PROVE  Repeated(o)' = Repeated(o)
BY DEF Repeated

LEMMA AccountedStep ==
    ASSUME TypeInv, VotesInv, ColdIsZero, WarmWhenUsed, Accounted,
           [Next]_vars, losses' = losses
    PROVE  Accounted'
<1> DEFINE AccountedFor(o) ==
        results[o] + Cardinality(Uncounted(o)) =
            Cardinality(VotesFor(o)) + Cardinality(Repeated(o))
<1>0. /\ vpc \in [VoteRequests -> VotePC] /\ results \in [Options -> Nat]
  BY DEF TypeInv, TypeOK, VoteTypeOK, StoresTypeOK, Tally
<1>1. ASSUME NEW r \in VoteRequests, StoresVote(r), results' = results PROVE Accounted'
  <2>1. /\ vpc[r] = "create" /\ vpc' = [vpc EXCEPT ![r] = "incr"]
        /\ ballot' = ballot /\ votes' = votes \union {Doc(r)} /\ repeats' = repeats
    BY <1>1 DEF StoresVote, GoVote
  <2>2. Doc(r) \notin votes /\ Doc(r).optionId = ballot[r].optionId
    BY <2>1 DEF VotesInv, VotesMatchRequests, Doc, MayHaveVoted
  <2>3. ASSUME NEW o \in Options
        PROVE  AccountedFor(o)'
    <3>0. Repeated(o)' = Repeated(o)
      BY <2>1, RepeatedKept
    <3>1. CASE ballot[r].optionId = o
      <4>1. Uncounted(o)' = Uncounted(o) \union {r} /\ r \notin Uncounted(o)
        BY <1>0, <2>1, <3>1 DEF Uncounted
      <4>2. VotesFor(o)' = VotesFor(o) \union {Doc(r)} /\ Doc(r) \notin VotesFor(o)
        BY <2>1, <2>2, <3>1 DEF VotesFor
      <4>3. /\ Cardinality(Uncounted(o)') = Cardinality(Uncounted(o)) + 1
            /\ Cardinality(VotesFor(o)') = Cardinality(VotesFor(o)) + 1
        BY <4>1, <4>2, MeasuredSets, FS_AddElement
      <4>4. /\ results[o] \in Nat /\ results'[o] = results[o] /\ AccountedFor(o)
            /\ Cardinality(Repeated(o)') = Cardinality(Repeated(o))
        BY <1>0, <1>1, <3>0 DEF Accounted
      <4>5. /\ Cardinality(Uncounted(o)) \in Nat /\ Cardinality(VotesFor(o)) \in Nat
            /\ Cardinality(Repeated(o)) \in Nat
        BY MeasuredSets, RepeatedSets
      <4> QED
        BY ONLY <4>3, <4>4, <4>5
    <3>2. CASE ballot[r].optionId # o
      <4>1. Uncounted(o)' = Uncounted(o) /\ VotesFor(o)' = VotesFor(o)
        BY <1>0, <2>1, <2>2, <3>2 DEF Uncounted, VotesFor
      <4> QED
        BY <1>1, <3>0, <4>1 DEF Accounted
    <3> QED
      BY <3>1, <3>2
  <2> QED
    BY <2>3 DEF Accounted
<1>2. ASSUME NEW r \in VoteRequests, CountsVote(r) PROVE Accounted'
  <2>1. /\ vpc[r] = "incr" /\ vpc' = [vpc EXCEPT ![r] = "read"]
        /\ ballot' = ballot /\ votes' = votes /\ repeats' = repeats
        /\ results' = [results EXCEPT ![ballot[r].optionId] = @ + 1]
    BY <1>2 DEF CountsVote, AddsOne, GoVote
  <2>2. ASSUME NEW o \in Options
        PROVE  AccountedFor(o)'
    <3>0. VotesFor(o)' = VotesFor(o) /\ Repeated(o)' = Repeated(o)
      BY <2>1, RepeatedKept DEF VotesFor
    <3>1. CASE ballot[r].optionId = o
      <4>1. Uncounted(o)' = Uncounted(o) \ {r} /\ r \in Uncounted(o)
        BY <1>0, <2>1, <3>1 DEF Uncounted
      <4>2. Cardinality(Uncounted(o)') = Cardinality(Uncounted(o)) - 1
        BY <4>1, MeasuredSets, FS_RemoveElement
      <4>3. results'[o] = results[o] + 1
        BY <1>0, <2>1, <3>1
      <4> QED
        BY <1>0, <3>0, <4>2, <4>3, MeasuredSets, RepeatedSets DEF Accounted
    <3>2. CASE ballot[r].optionId # o
      <4>1. Uncounted(o)' = Uncounted(o) /\ results'[o] = results[o]
        BY <1>0, <2>1, <3>2 DEF Uncounted
      <4> QED
        BY <3>0, <4>1 DEF Accounted
    <3> QED
      BY <3>1, <3>2
  <2> QED
    BY <2>2 DEF Accounted
<1>4. ASSUME NEW r \in VoteRequests, Repeats(r) PROVE Accounted'
  <2>1. ASSUME NEW o \in Options PROVE AccountedFor(o)'
    <3>1. Uncounted(o)' = Uncounted(o) /\ VotesFor(o)' = VotesFor(o)
      BY <1>4 DEF Repeats, AddsOne, Uncounted, VotesFor
    <3>2. results'[o] = IF ballot[r].optionId = o THEN results[o] + 1 ELSE results[o]
      BY <1>0, <1>4 DEF Repeats, AddsOne
    <3>3. results[o] \in Nat /\ AccountedFor(o)
      BY <1>0 DEF Accounted
    <3> QED
      BY <1>4, <3>1, <3>2, <3>3, RepeatedStep, MeasuredSets, RepeatedSets
  <2> QED
    BY <2>1 DEF Accounted
<1>3. CASE KeepsTally
  <2>1. \A o \in Options : /\ Uncounted(o)' = Uncounted(o) /\ VotesFor(o)' = VotesFor(o)
                           /\ Repeated(o)' = Repeated(o)
    BY <1>3 DEF KeepsTally, AwaitsCount, Uncounted, VotesFor, Repeated
  <2> QED
    BY <1>3, <2>1 DEF KeepsTally, Accounted
<1> QED
  BY <1>1, <1>2, <1>3, <1>4, StepOnTally

LEMMA KeptInit == Init => KeptInv
<1> SUFFICES ASSUME Init PROVE KeptInv
  OBVIOUS
<1>1. WarmWhenUsed /\ counters = results
  BY DEF Init, StoresInit, VoteInit, PollInit, WarmWhenUsed
<1>2. \A o \in Options : /\ Uncounted(o) = {} /\ VotesFor(o) = {} /\ results[o] = 0
                         /\ Repeated(o) = {}
  BY VoteAssumption DEF Init, StoresInit, VoteInit, Uncounted, VotesFor, Repeated, ZeroTally
<1>3. Accounted
  BY <1>2, FS_EmptySet DEF Accounted
<1> QED
  BY <1>1, <1>3 DEF KeptInv

LEMMA KeptStep ==
    TypeInv /\ VotesInv /\ ColdIsZero /\ KeptInv /\ [Next]_vars => KeptInv'
<1> SUFFICES ASSUME TypeInv, VotesInv, ColdIsZero, KeptInv, [Next]_vars, losses' = 0
             PROVE  (WarmWhenUsed /\ counters = results /\ Accounted)'
  BY DEF KeptInv
<1>1. losses = 0 /\ losses \in Nat
  BY BackendAssumption DEF TypeInv, TypeOK, Next, LoseRedis, VoteNext, CreateNext, OwnerNext,
     ReadNext, vars
<1>2. WarmWhenUsed /\ counters = results /\ Accounted
  BY <1>1 DEF KeptInv
<1>3. WarmWhenUsed' /\ Accounted'
  BY <1>1, <1>2, WarmStep, AccountedStep
<1>4. (counters = results)'
  BY <1>1, <1>2, StepOnTally DEF CountsVote, Repeats, AddsOne, KeepsTally
<1> QED
  BY <1>3, <1>4

LEMMA KeptInvariant == Spec => []KeptInv
BY TypeInvariant, VotesInvariant, ColdInvariant, KeptInit, KeptStep, PTL DEF Spec

\* While Redis keeps its data, the live tally is the stored votes minus those
\* whose increment is pending or was lost to a failure, plus the increments
\* that the client repeated.
THEOREM TallyAccounts == Spec => []TallyAccountsForVotes
<1>1. KeptInv => TallyAccountsForVotes
  BY DEF KeptInv, TallyAccountsForVotes
<1> QED
  BY <1>1, KeptInvariant, PTL

\* A step that loses nothing changes a counter only by adding: a seed lands on
\* a cold hash, where every counter is zero.
LEMMA TallyGrows ==
    ASSUME TypeInv, ColdIsZero, [Next]_vars, losses' = losses
    PROVE  \A o \in Options : results'[o] >= results[o]
<1>0. /\ results \in [Options -> Nat] /\ losses \in Nat
      /\ seed \in [Readers -> Tally]
  BY BackendAssumption DEF TypeInv, TypeOK, StoresTypeOK, PollTypeOK, Tally
<1>1. ASSUME NEW s \in Tally, EnsureResults(s) PROVE \A o \in Options : results'[o] >= results[o]
  BY <1>0, <1>1 DEF EnsureResults, ColdIsZero, ZeroTally, Tally
<1>2. CASE VoteNext
  <2>1. PICK r \in VoteRequests : VoteStep(r) \/ FailVote(r)
    BY <1>2 DEF VoteNext
  <2>2. CASE EnsureCounters(r)
    BY <1>1, <2>2, ZeroTallyType DEF EnsureCounters
  <2>3. CASE CountVote(r) \/ RepeatIncrement(r)
    BY <1>0, <2>3 DEF CountVote, RepeatIncrement, IncrementVote
  <2>4. CASE ~(EnsureCounters(r) \/ CountVote(r) \/ RepeatIncrement(r))
    BY <1>0, <2>1, <2>4 DEF VoteStep, FindPoll, CreateVote, ReadResults, PublishResults,
                      FailVote, storeVars, redisVars
  <2> QED
    BY <2>2, <2>3, <2>4
<1>3. CASE CreateNext
  <2>1. CASE SeedPoll
    BY <1>1, <2>1, ZeroTallyType DEF SeedPoll
  <2>2. CASE ~SeedPoll
    BY <1>0, <1>3, <2>2 DEF CreateNext, InsertPoll, FailCreate, storeVars, redisVars
  <2> QED
    BY <2>1, <2>2
<1>4. CASE OwnerNext
  BY <1>0, <1>4 DEF OwnerNext, FindOwned, UpdateOwned, PublishClosed, FailOwner,
              storeVars, redisVars
<1>5. CASE ReadNext
  <2>1. PICK q \in Readers :
            ReadFind(q) \/ ReadCount(q) \/ ReadEnsure(q) \/ ReadGet(q) \/ FailRead(q)
    BY <1>5 DEF ReadNext
  <2>2. CASE ReadEnsure(q)
    BY <1>0, <1>1, <2>2 DEF ReadEnsure
  <2>3. CASE ~ReadEnsure(q)
    BY <1>0, <2>1, <2>3 DEF ReadFind, ReadCount, ReadGet, FailRead, storeVars
  <2> QED
    BY <2>2, <2>3
<1>6. CASE LoseRedis
  BY <1>0, <1>6 DEF LoseRedis
<1>7. CASE UNCHANGED vars
  BY <1>0, <1>7 DEF vars, storeVars
<1> QED
  BY <1>2, <1>3, <1>4, <1>5, <1>6, <1>7 DEF Next

\* No step but a loss of Redis makes a live counter smaller: no seed, however
\* old, overwrites a count.
THEOREM NeverGoesBack == Spec => TallyNeverGoesBack
<1>1. TypeInv /\ ColdIsZero /\ [Next]_vars =>
          [losses' = losses => \A o \in Options : results'[o] >= results[o]]_vars
  BY TallyGrows
<1> QED
  BY <1>1, TypeInvariant, ColdInvariant, PTL DEF Spec, TallyNeverGoesBack

-----------------------------------------------------------------------------
(* Losses of Redis *)

\* A seed was counted from votes that are all still there.
SeedsAreVotes ==
    \A q \in Readers, o \in Options : seed[q][o] <= Cardinality(VotesFor(o))

TwiceInv == SeedsAreVotes /\ CountedAtMostTwice

LEMMA CountedSets ==
    ASSUME TypeInv, NEW o \in Options
    PROVE  IsFiniteSet(Counted(o)) /\ Cardinality(Counted(o)) \in Nat
<1>1. Counted(o) \in SUBSET VotesFor(o)
  BY DEF Counted
<1> QED
  BY <1>1, MeasuredSets, FS_Subset, FS_CardinalityType

LEMMA TwiceInit == Init => TwiceInv
<1> SUFFICES ASSUME Init PROVE TwiceInv
  OBVIOUS
<1>1. \A o \in Options : /\ VotesFor(o) = {} /\ Counted(o) = {} /\ results[o] = 0
                         /\ Repeated(o) = {}
  BY VoteAssumption DEF Init, StoresInit, VoteInit, VotesFor, Counted, Repeated, ZeroTally
<1>2. \A q \in Readers, o \in Options : seed[q][o] = 0
  BY DEF Init, PollInit, ZeroTally
<1> QED
  BY <1>1, <1>2, FS_EmptySet DEF TwiceInv, SeedsAreVotes, CountedAtMostTwice

\* What a step does to the repeated increments.
LEMMA StepOnRepeats ==
    ASSUME [Next]_vars
    PROVE  \/ UNCHANGED <<repeats, ballot>>
           \/ \E r \in VoteRequests : Repeats(r)
BY DEF Next, VoteNext, VoteStep, FindPoll, EnsureCounters, CreateVote, CountVote,
       RepeatIncrement, IncrementVote, Repeats, AddsOne, mongoVars, ReadResults,
       PublishResults, FailVote, GoVote, CreateNext, OwnerNext, ReadNext, LoseRedis,
       voteVars, vars

\* Votes are never withdrawn, and a counted vote stays counted, as a repeated
\* increment does.
LEMMA VotesOnlyGrow ==
    ASSUME TypeInv, VotesInv, [Next]_vars, NEW o \in Options
    PROVE  /\ Cardinality(VotesFor(o)) <= Cardinality(VotesFor(o)')
           /\ Cardinality(Counted(o)) <= Cardinality(Counted(o)')
           /\ Cardinality(Repeated(o)) <= Cardinality(Repeated(o)')
<1>0. vpc \in [VoteRequests -> VotePC]
  BY DEF TypeInv, TypeOK, VoteTypeOK
<1>1. votes \subseteq votes'
  BY StepOnVotes DEF StoresVote, Moves
<1>2. \A d \in votes : vpc[d._id] \notin {"incr", "uncounted"}
                            => vpc'[d._id] \notin {"incr", "uncounted"}
  <2> TAKE d \in votes
  <2> HAVE vpc[d._id] \notin {"incr", "uncounted"}
  <2>1. d._id \in VoteRequests /\ vpc[d._id] \in MayHaveVoted
    BY DEF VotesInv, VotesMatchRequests
  <2>2. CASE vpc' = vpc
    BY <2>2
  <2>3. CASE VoteNext
    <3>1. PICK r \in VoteRequests : VoteStep(r) \/ FailVote(r)
      BY <2>3 DEF VoteNext
    <3> QED
      BY <1>0, <2>1, <3>1
         DEF VoteStep, FindPoll, EnsureCounters, CreateVote, CountVote, RepeatIncrement,
             ReadResults, PublishResults, FailVote, GoVote, MayHaveVoted
  <2> QED
    BY <2>2, <2>3 DEF Next, CreateNext, OwnerNext, ReadNext, LoseRedis, voteVars, vars
<1>3. VotesFor(o) \in SUBSET (VotesFor(o)') /\ Counted(o) \in SUBSET (Counted(o)')
  BY <1>1, <1>2 DEF VotesFor, Counted
<1>4. TypeInv'
  BY TypeStep
<1>5. IsFiniteSet(VotesFor(o)') /\ IsFiniteSet(Counted(o)')
  <2>1. VotesFor(o)' \in SUBSET (votes') /\ Counted(o)' \in SUBSET (votes')
    BY DEF VotesFor, Counted
  <2> QED
    BY <1>4, <2>1, FS_Subset DEF TypeInv
<1>6. Cardinality(Repeated(o)) <= Cardinality(Repeated(o)')
  <2>1. Cardinality(Repeated(o)) \in Nat
    BY RepeatedSets
  <2>2. CASE UNCHANGED <<repeats, ballot>>
    BY <2>1, <2>2, RepeatedKept
  <2>3. ASSUME NEW r \in VoteRequests, Repeats(r)
        PROVE  Cardinality(Repeated(o)) <= Cardinality(Repeated(o)')
    BY <2>1, <2>3, RepeatedStep
  <2> QED
    BY <2>2, <2>3, StepOnRepeats
<1> QED
  BY <1>3, <1>5, <1>6, FS_Subset

LEMMA SeedsStep ==
    ASSUME TypeInv, VotesInv, SeedsAreVotes, [Next]_vars
    PROVE  SeedsAreVotes'
<1>0. /\ seed \in [Readers -> [Options -> Nat]] /\ TypeInv'
      /\ \A q \in Readers, o \in Options : seed[q][o] \in Nat
  BY TypeStep DEF TypeInv, TypeOK, PollTypeOK, Tally
<1>1. ASSUME NEW q \in Readers, NEW o \in Options
      PROVE  seed'[q][o] = seed[q][o] \/ seed'[q][o] = 0
             \/ seed'[q][o] = Cardinality(VotesFor(o))
  <2>1. CASE ReadNext
    BY <1>0, <2>1 DEF ReadNext, ReadFind, ReadCount, ReadEnsure, ReadGet, FailRead,
                      ZeroTally, CountByOption
  <2>2. CASE ~ReadNext
    BY <2>2 DEF Next, VoteNext, pollVars, CreateNext, InsertPoll, SeedPoll, FailCreate,
                GoCreate, OwnerNext, FindOwned, UpdateOwned, PublishClosed, FailOwner,
                GoOwner, LoseRedis, vars
  <2> QED
    BY <2>1, <2>2
<1>2. ASSUME NEW q \in Readers, NEW o \in Options
      PROVE  seed'[q][o] <= Cardinality(VotesFor(o)')
  <2>1. Cardinality(VotesFor(o)) \in Nat /\ Cardinality(VotesFor(o)') \in Nat
    BY <1>0, MeasuredSets, FS_CardinalityType, FS_Subset DEF TypeInv, VotesFor
  <2>2. seed[q][o] <= Cardinality(VotesFor(o))
    BY DEF SeedsAreVotes
  <2>3. Cardinality(VotesFor(o)) <= Cardinality(VotesFor(o)')
    BY VotesOnlyGrow
  <2> QED
    BY <1>0, <1>1, <2>1, <2>2, <2>3
<1> QED
  BY <1>2 DEF SeedsAreVotes

LEMMA TwiceStep ==
    ASSUME TypeInv, VotesInv, TwiceInv, [Next]_vars
    PROVE  CountedAtMostTwice'
<1>0. /\ vpc \in [VoteRequests -> VotePC] /\ results \in [Options -> Nat]
      /\ \A q \in Readers, o \in Options : seed[q][o] \in Nat
      /\ TypeInv'
  BY TypeStep DEF TypeInv, TypeOK, VoteTypeOK, StoresTypeOK, PollTypeOK, Tally
<1> DEFINE Bounded(o) ==
        results[o] <= Cardinality(VotesFor(o)) + Cardinality(Counted(o))
                      + Cardinality(Repeated(o))
<1> SUFFICES ASSUME NEW o \in Options PROVE Bounded(o)'
  BY DEF CountedAtMostTwice
<1>1. /\ Cardinality(VotesFor(o)) \in Nat /\ Cardinality(Counted(o)) \in Nat
      /\ IsFiniteSet(Counted(o))
      /\ Cardinality(Repeated(o)) \in Nat
      /\ Bounded(o)
      /\ \A q \in Readers : seed[q][o] <= Cardinality(VotesFor(o))
  BY MeasuredSets, CountedSets, RepeatedSets DEF TwiceInv, CountedAtMostTwice, SeedsAreVotes
<1>2. /\ Cardinality(VotesFor(o)') \in Nat /\ Cardinality(Counted(o)') \in Nat
      /\ Cardinality(VotesFor(o)) <= Cardinality(VotesFor(o)')
      /\ Cardinality(Counted(o)) <= Cardinality(Counted(o)')
      /\ Cardinality(Repeated(o)') \in Nat
      /\ Cardinality(Repeated(o)) <= Cardinality(Repeated(o)')
  <2>1. VotesFor(o)' \in SUBSET (votes') /\ Counted(o)' \in SUBSET (votes')
    BY DEF VotesFor, Counted
  <2>2. IsFiniteSet(VotesFor(o)') /\ IsFiniteSet(Counted(o)')
    BY <1>0, <2>1, FS_Subset DEF TypeInv
  <2>3. IsFiniteSet(Repeated(o)')
    <3>1. Repeated(o)' \in SUBSET (VoteRequests \X (1..MaxRetries))
      BY DEF Repeated
    <3> QED
      BY ONLY <3>1, RetriesFinite, FS_Subset
  <2> QED
    BY <2>2, <2>3, VotesOnlyGrow, FS_CardinalityType
<1>3. ASSUME results'[o] = results[o] \/ results'[o] = 0
             \/ \E q \in Readers : results'[o] = seed[q][o]
      PROVE  Bounded(o)'
  BY <1>0, <1>1, <1>2, <1>3
<1>4. ASSUME NEW r \in VoteRequests, CountVote(r)
      PROVE  Bounded(o)'
  <2>1. /\ vpc[r] = "incr" /\ vpc' = [vpc EXCEPT ![r] = "read"]
        /\ ballot' = ballot /\ votes' = votes
        /\ results' = [results EXCEPT ![ballot[r].optionId] = @ + 1]
    BY <1>4 DEF CountVote, GoVote, mongoVars, IncrementVote
  <2>2. CASE ballot[r].optionId = o
    <3>1. Doc(r) \in votes /\ Doc(r)._id = r /\ Doc(r).optionId = o
      BY <2>1, <2>2 DEF VotesInv, VotesMatchRequests, MayHaveVoted, MustHaveVoted, Doc
    <3>2. \A d \in votes : d._id = r <=> d = Doc(r)
      BY <3>1 DEF VotesInv, VotesMatchRequests
    <3>3. /\ Counted(o)' = Counted(o) \union {Doc(r)}
          /\ Doc(r) \notin Counted(o)
      BY <1>0, <2>1, <3>1, <3>2 DEF Counted, VotesFor, VotesInv, VotesMatchRequests
    <3>4. Cardinality(Counted(o)') = Cardinality(Counted(o)) + 1
      BY <1>1, <3>3, FS_AddElement
    <3> QED
      BY <1>0, <1>1, <1>2, <2>1, <2>2, <3>4
  <2>3. CASE ballot[r].optionId # o
    BY <1>0, <1>3, <2>1, <2>3
  <2> QED
    BY <2>2, <2>3
<1>8. ASSUME NEW r \in VoteRequests, RepeatIncrement(r) PROVE Bounded(o)'
  <2>1. /\ Repeats(r)
        /\ results' = [results EXCEPT ![ballot[r].optionId] = @ + 1]
    BY <1>8 DEF RepeatIncrement, IncrementVote, mongoVars, Repeats, AddsOne
  <2>2. CASE ballot[r].optionId = o
    BY <1>0, <1>1, <1>2, <2>1, <2>2, RepeatedStep
  <2>3. CASE ballot[r].optionId # o
    BY <1>0, <1>3, <2>1, <2>3
  <2> QED
    BY <2>2, <2>3
<1>5. CASE VoteNext
  <2>1. PICK r \in VoteRequests : VoteStep(r) \/ FailVote(r)
    BY <1>5 DEF VoteNext
  <2>2. CASE CountVote(r) \/ RepeatIncrement(r)
    BY <1>4, <1>8, <2>2
  <2>3. CASE ~(CountVote(r) \/ RepeatIncrement(r))
    BY <1>3, <2>1, <2>3
       DEF VoteStep, FindPoll, EnsureCounters, EnsureResults, CreateVote, ReadResults,
           PublishResults, FailVote, storeVars, redisVars, ZeroTally
  <2> QED
    BY <2>2, <2>3
<1>6. CASE CreateNext \/ OwnerNext \/ LoseRedis \/ UNCHANGED vars
  BY <1>3, <1>6
     DEF CreateNext, InsertPoll, SeedPoll, FailCreate, OwnerNext, FindOwned, UpdateOwned,
         PublishClosed, FailOwner, LoseRedis, EnsureResults, vars, storeVars, redisVars,
         ZeroTally
<1>7. CASE ReadNext
  BY <1>3, <1>7
     DEF ReadNext, ReadFind, ReadCount, ReadEnsure, ReadGet, FailRead, EnsureResults,
         storeVars
<1> QED
  BY <1>5, <1>6, <1>7 DEF Next

LEMMA TwiceInvariant == Spec => []TwiceInv
<1>1. TypeInv /\ VotesInv /\ TwiceInv /\ [Next]_vars => TwiceInv'
  BY SeedsStep, TwiceStep DEF TwiceInv
<1> QED
  BY <1>1, TypeInvariant, VotesInvariant, TwiceInit, PTL DEF Spec

\* However often Redis loses its data, a vote counts at most twice.
THEOREM AtMostTwice == Spec => []CountedAtMostTwice
<1>1. TwiceInv => CountedAtMostTwice
  BY DEF TwiceInv
<1> QED
  BY <1>1, TwiceInvariant, PTL

-----------------------------------------------------------------------------
(* Refinement *)

\* While Redis keeps its data, every step of the backend is a step of the
\* contract or leaves its variables alone.
LEMMA StepImplements ==
    ASSUME TypeInv, VotesInv, ColdIsZero, KeptInv, losses = 0, losses' = losses,
           [Next]_vars
    PROVE  [Contract!Next]_<<votes, TrueTally>>
<1>0. /\ ballot \in [VoteRequests -> Ballot] /\ results \in [Options -> Nat]
      /\ WarmWhenUsed /\ Accounted
      /\ \A o \in Options : results[o] \in Nat
  BY DEF TypeInv, TypeOK, VoteTypeOK, StoresTypeOK, Tally, KeptInv
<1>1. ASSUME NEW r \in VoteRequests, StoresVote(r), results' = results
      PROVE  Contract!Next
  <2>1. ballot[r].voterKey \in Voters /\ ballot[r].optionId \in Options
    BY <1>0, <1>1 DEF StoresVote, GoVote, TypeInv, OptionChecked, Unchecked, Ballot
  <2>2. Doc(r) \in Contract!Ballots
    BY <2>1 DEF Doc, Contract!Ballots
  <2>3. TrueTally' = TrueTally
    BY <1>1, RepeatedKept DEF StoresVote, GoVote, TrueTally
  <2>4. Contract!Cast(Doc(r))
    BY <1>1, <2>3 DEF StoresVote, HasVoted, Doc, Contract!Cast
  <2> QED
    BY <2>2, <2>4 DEF Contract!Next
<1>2. ASSUME NEW r \in VoteRequests, CountsVote(r) PROVE Contract!Next
  <2> DEFINE o == ballot[r].optionId
  <2>1. vpc[r] = "incr" /\ o \in Options
    BY <1>2 DEF CountsVote, GoVote, TypeInv, OptionChecked, Unchecked
  <2>2. Uncounted(o) # {}
    BY <2>1 DEF Uncounted
  <2>3. Cardinality(Uncounted(o)) # 0
    BY <2>1, <2>2, MeasuredSets, FS_EmptySet
  <2>4. TrueTally[o] < Cardinality(VotesFor(o))
    <3>1. /\ results[o] \in Nat /\ Cardinality(Uncounted(o)) \in Nat
          /\ Cardinality(VotesFor(o)) \in Nat /\ Cardinality(Repeated(o)) \in Nat
      BY <1>0, <2>1, MeasuredSets, RepeatedSets
    <3>2. results[o] + Cardinality(Uncounted(o)) =
              Cardinality(VotesFor(o)) + Cardinality(Repeated(o))
      BY <1>0, <2>1 DEF Accounted
    <3>3. TrueTally[o] = results[o] - Cardinality(Repeated(o))
      BY <2>1 DEF TrueTally
    <3> QED
      BY ONLY <2>3, <3>1, <3>2, <3>3
  <2>5. votes' = votes /\ TrueTally' = [TrueTally EXCEPT ![o] = @ + 1]
    <3>1. \A p \in Options : Repeated(p)' = Repeated(p)
      BY <1>2, RepeatedKept DEF CountsVote, GoVote
    <3>2. ASSUME NEW p \in Options
          PROVE  TrueTally'[p] = IF p = o THEN TrueTally[o] + 1 ELSE TrueTally[p]
      <4>1. results'[p] = IF p = o THEN results[o] + 1 ELSE results[p]
        BY <1>0, <1>2 DEF CountsVote, AddsOne
      <4> QED
        BY <1>0, <2>1, <3>1, <4>1, RepeatedSets DEF TrueTally
    <3> QED
      BY <1>2, <3>2 DEF CountsVote, AddsOne, TrueTally
  <2>6. Contract!Count(o)
    <3>1. TrueTally[o] < Cardinality({b \in votes : b.optionId = o})
      BY <2>4 DEF VotesFor
    <3>2. \A S : Contract!Cardinality(S) = Cardinality(S)
      BY DEF Cardinality, Contract!Cardinality
    <3> QED
      BY <2>5, <3>1, <3>2 DEF Contract!Count
  <2> QED
    BY <2>1, <2>6 DEF Contract!Next
<1>4. ASSUME NEW r \in VoteRequests, Repeats(r) PROVE votes' = votes /\ TrueTally' = TrueTally
  <2>1. ASSUME NEW o \in Options PROVE TrueTally'[o] = TrueTally[o]
    <3>1. results'[o] = IF ballot[r].optionId = o THEN results[o] + 1 ELSE results[o]
      BY <1>0, <1>4 DEF Repeats, AddsOne
    <3> QED
      BY <1>0, <1>4, <3>1, RepeatedStep, RepeatedSets DEF TrueTally
  <2> QED
    BY <1>4, <2>1 DEF Repeats, AddsOne, TrueTally
<1>3. CASE KeepsTally
  BY <1>3, RepeatedKept DEF KeepsTally, TrueTally
<1> QED
  BY <1>0, <1>1, <1>2, <1>3, <1>4, StepOnTally

LEMMA InitImplements == Init => Contract!Init
<1> SUFFICES ASSUME Init PROVE Contract!Init
  OBVIOUS
<1>1. votes = {} /\ \A o \in Options : results[o] = 0 /\ Repeated(o) = {}
  BY VoteAssumption DEF Init, StoresInit, VoteInit, ZeroTally, Repeated
<1>2. Cardinality({}) = 0
  BY FS_EmptySet
<1> QED
  BY <1>1, <1>2 DEF TrueTally, Contract!Init

\* The backend starts as the contract does, and until Redis first loses its
\* data it keeps it: the votes collection is what was cast, and the results
\* hash without the increments that the client repeated is the tally.
THEOREM ImplementsUntilLoss ==
    Spec => /\ Contract!Init
            /\ [][losses' = 0 => [Contract!Next]_<<votes, TrueTally>>]_vars
<1>1. TypeInv /\ [Next]_vars /\ losses' = 0 => losses = 0
  BY BackendAssumption DEF TypeInv, TypeOK, Next, LoseRedis, VoteNext, CreateNext, OwnerNext,
     ReadNext, vars
<1>2. /\ TypeInv /\ VotesInv /\ ColdIsZero /\ KeptInv /\ [Next]_vars
      => [losses' = 0 => [Contract!Next]_<<votes, TrueTally>>]_vars
  BY <1>1, StepImplements
<1> QED
  BY <1>2, InitImplements, TypeInvariant, VotesInvariant, ColdInvariant, KeptInvariant, PTL
     DEF Spec

\* A backend whose Redis never loses its data implements the contract.
THEOREM Refinement ==
    ASSUME MaxLosses = 0
    PROVE  Spec => ImplementsContract
<1>1. TypeInv => losses = 0
  BY DEF TypeInv, TypeOK
<1>2. /\ TypeInv /\ TypeInv' /\ VotesInv /\ ColdIsZero /\ KeptInv /\ [Next]_vars
      => [Contract!Next]_<<votes, TrueTally>>
  BY <1>1, StepImplements, BackendAssumption DEF TypeInv, TypeOK
<1> QED
  BY <1>2, InitImplements, TypeInvariant, VotesInvariant, ColdInvariant, KeptInvariant, PTL
     DEF Spec, Contract!Spec, ImplementsContract

-----------------------------------------------------------------------------
(* What is published *)

\* The tallies that requests hold or have published.
Shown == {snapshot[r] : r \in VoteRequests} \union
         {channel[i].results : i \in DOMAIN channel}

Comparable(f, g) == Below(f, g) \/ Below(g, f)

\* They form a chain that ends below the live counters.
ChainInv ==
    losses = 0 =>
        /\ \A f \in Shown : Below(f, results)
        /\ \A f, g \in Shown : Comparable(f, g)

\* A step that loses nothing shows at most the live counters, or zeros, anew.
LEMMA ShownStep ==
    ASSUME TypeInv, [Next]_vars
    PROVE  Shown' \subseteq Shown \union {results, ZeroTally}
<1>0. /\ snapshot \in [VoteRequests -> Tally] /\ channel \in Seq(Event)
  BY DEF TypeInv, TypeOK, VoteTypeOK, StoresTypeOK
<1>1. ASSUME UNCHANGED <<snapshot, channel>> PROVE Shown' \subseteq Shown
  BY <1>1 DEF Shown
<1>2. ASSUME NEW t, NEW f \in Shown \union {results, ZeroTally}, Publish(t, f)
      PROVE  {channel'[i].results : i \in DOMAIN channel'}
                 \subseteq Shown \union {results, ZeroTally}
  <2>1. channel' = Append(channel, [type |-> t, results |-> f])
    BY <1>2 DEF Publish
  <2>2. ASSUME NEW i \in DOMAIN channel'
        PROVE  channel'[i].results = f \/ (i \in DOMAIN channel /\ channel'[i] = channel[i])
    <3>1. /\ DOMAIN channel = 1..Len(channel) /\ Len(channel) \in Nat
          /\ i \in 1..(Len(channel) + 1)
      BY <1>0, <2>1
    <3>2. CASE i = Len(channel) + 1
      BY <1>0, <2>1, <3>2
    <3>3. CASE i # Len(channel) + 1
      BY <1>0, <2>1, <3>1, <3>3
    <3> QED
      BY <3>2, <3>3
  <2> QED
    BY <2>2 DEF Shown
<1>3. CASE VoteNext
  <2>1. PICK r \in VoteRequests : VoteStep(r) \/ FailVote(r)
    BY <1>3 DEF VoteNext
  <2>2. CASE PublishResults(r)
    <3>1. /\ Publish("poll_update", snapshot[r]) /\ snapshot[r] \in Shown
          /\ snapshot' = [snapshot EXCEPT ![r] = ZeroTally]
      BY <2>2 DEF PublishResults, Shown
    <3>2. {snapshot'[s] : s \in VoteRequests} \subseteq Shown \union {ZeroTally}
      BY <1>0, <3>1 DEF Shown
    <3> QED
      BY <1>2, <3>1, <3>2 DEF Shown
  <2>3. CASE ReadResults(r) \/ FailVote(r)
    <3>1. channel' = channel
      BY <2>3 DEF ReadResults, FailVote, storeVars
    <3>2. \A s \in VoteRequests : snapshot'[s] \in {snapshot[s], results, ZeroTally}
      BY <1>0, <2>3 DEF ReadResults, FailVote
    <3> QED
      BY <3>1, <3>2 DEF Shown
  <2>4. CASE \/ FindPoll(r) \/ EnsureCounters(r) \/ CreateVote(r)
              \/ CountVote(r) \/ RepeatIncrement(r)
    BY <1>1, <2>4 DEF FindPoll, EnsureCounters, CreateVote, CountVote, RepeatIncrement, storeVars
  <2> QED
    BY <2>1, <2>2, <2>3, <2>4 DEF VoteStep
<1>4. CASE OwnerNext
  <2>1. PICK a \in OwnerRequests :
            FindOwned(a) \/ UpdateOwned(a) \/ PublishClosed(a) \/ FailOwner(a)
    BY <1>4 DEF OwnerNext
  <2>2. CASE PublishClosed(a)
    <3>1. Publish("poll_closed", ZeroTally) /\ snapshot' = snapshot
      BY <1>4, <2>2 DEF OwnerNext, PublishClosed, voteVars
    <3> QED
      BY <1>2, <3>1 DEF Shown
  <2>3. CASE ~PublishClosed(a)
    BY <1>1, <1>4, <2>1, <2>3 DEF OwnerNext, FindOwned, UpdateOwned, FailOwner, voteVars, storeVars
  <2> QED
    BY <2>2, <2>3
<1>5. CASE CreateNext \/ ReadNext \/ LoseRedis \/ UNCHANGED vars
  BY <1>1, <1>5
     DEF CreateNext, InsertPoll, SeedPoll, FailCreate, ReadNext, ReadFind, ReadCount,
         ReadEnsure, ReadGet, FailRead, LoseRedis, vars, voteVars, storeVars
<1> QED
  BY <1>3, <1>4, <1>5 DEF Next

LEMMA ShownType ==
    ASSUME TypeInv
    PROVE  Shown \subseteq [Options -> Nat]
<1>1. \A r \in VoteRequests : snapshot[r] \in Tally
  BY DEF TypeInv, TypeOK, VoteTypeOK
<1>2. \A i \in DOMAIN channel : channel[i] \in Event
  BY DEF TypeInv, TypeOK, StoresTypeOK
<1>3. \A e \in Event : e.results \in Tally
  BY DEF Event
<1> QED
  BY <1>1, <1>2, <1>3 DEF Shown, Tally

LEMMA ChainInit == Init => ChainInv
<1> SUFFICES ASSUME Init PROVE ChainInv
  OBVIOUS
<1>1. \A f \in Shown : f = ZeroTally
  BY DEF Init, StoresInit, VoteInit, Shown
<1>2. results = ZeroTally /\ Below(ZeroTally, ZeroTally)
  BY DEF Init, StoresInit, Below, ZeroTally
<1> QED
  BY <1>1, <1>2 DEF ChainInv, Comparable

LEMMA ChainStep == TypeInv /\ ColdIsZero /\ ChainInv /\ [Next]_vars => ChainInv'
<1> SUFFICES ASSUME TypeInv, ColdIsZero, ChainInv, [Next]_vars, losses' = 0 PROVE ChainInv'
  BY DEF ChainInv
<1>1. losses = 0
  BY BackendAssumption DEF TypeInv, TypeOK, Next, LoseRedis, VoteNext, CreateNext, OwnerNext,
     ReadNext, vars
<1>2. /\ \A f \in Shown : Below(f, results)
      /\ \A f, g \in Shown : Comparable(f, g)
  BY <1>1 DEF ChainInv
<1>3. Shown' \subseteq Shown \union {results, ZeroTally}
  BY ShownStep
<1>4. /\ Shown \subseteq [Options -> Nat]
      /\ results \in [Options -> Nat] /\ results' \in [Options -> Nat]
  BY TypeStep, ShownType DEF TypeInv, TypeOK, StoresTypeOK, Tally
<1>5. Below(results, results')
  BY <1>1, <1>4, TallyGrows DEF Below
<1>6. \A f \in [Options -> Nat] : Below(ZeroTally, f)
  BY DEF Below, ZeroTally
<1>7. \A f \in Shown \union {results, ZeroTally} : Below(f, results) /\ f \in [Options -> Nat]
  BY <1>2, <1>4, <1>6 DEF Below, ZeroTally
<1>8. \A f, g \in Shown \union {results, ZeroTally} : Comparable(f, g)
  BY <1>2, <1>4, <1>6, <1>7 DEF Comparable
<1>9. \A f \in Shown' : Below(f, results')
  BY <1>3, <1>4, <1>5, <1>7 DEF Below
<1> QED
  BY <1>3, <1>8, <1>9 DEF ChainInv, Comparable, Below

LEMMA ChainInvariant == Spec => []ChainInv
BY TypeInvariant, ColdInvariant, ChainInit, ChainStep, PTL DEF Spec

\* While Redis keeps its data, the published tallies are moments of one
\* history, none ahead of the live counters, in whatever order they appear.
THEOREM ConsistentTallies == Spec => []PublishedTalliesAreConsistent
<1>1. ASSUME ChainInv PROVE PublishedTalliesAreConsistent
  <2>1. \A i \in Updates : channel[i].results \in Shown
    BY DEF Updates, Shown
  <2> QED
    BY <1>1, <2>1 DEF ChainInv, PublishedTalliesAreConsistent, Comparable
<1> QED
  BY <1>1, ChainInvariant, PTL

\* Until the current tally is shown, a request of a stored vote has still to
\* read it or has failed, or one has read it and is about to publish it.
Unsettled == \E d \in votes : vpc[d._id] \notin {"publish", "ok"}
AboutToShow == \E d \in votes : vpc[d._id] = "publish" /\ snapshot[d._id] = results
CurrentShown == \E i \in Updates : channel[i].results = results

SettledInv ==
    losses = 0 /\ votes # {} => Unsettled \/ AboutToShow \/ CurrentShown

\* What has been published stays on the channel.
LEMMA PublishAppends ==
    ASSUME TypeInv, NEW t, NEW f, Publish(t, f)
    PROVE  /\ \A i \in DOMAIN channel : i \in DOMAIN channel' /\ channel'[i] = channel[i]
           /\ \E i \in DOMAIN channel' : channel'[i] = [type |-> t, results |-> f]
<1>1. channel \in Seq(Event) /\ channel' = Append(channel, [type |-> t, results |-> f])
  BY DEF TypeInv, TypeOK, StoresTypeOK, Publish
<1>2. /\ Len(channel) \in Nat /\ DOMAIN channel = 1..Len(channel)
      /\ DOMAIN channel' = 1..(Len(channel) + 1)
  BY <1>1
<1>3. \A i \in 1..Len(channel) : channel'[i] = channel[i]
  BY <1>1
<1>4. channel'[Len(channel) + 1] = [type |-> t, results |-> f]
  BY <1>1, <1>2
<1> QED
  BY <1>2, <1>3, <1>4

\* A step that leaves the votes and the live counters alone.
LEMMA SettledKept ==
    ASSUME TypeInv, VotesInv, [Next]_vars, votes' = votes, results' = results,
           Unsettled \/ AboutToShow \/ CurrentShown
    PROVE  (Unsettled \/ AboutToShow \/ CurrentShown)'
<1>0. /\ vpc \in [VoteRequests -> VotePC] /\ snapshot \in [VoteRequests -> Tally]
      /\ \A d \in votes : d._id \in VoteRequests
  BY DEF TypeInv, TypeOK, VoteTypeOK, VotesInv, VotesMatchRequests
<1>1. ASSUME \A i \in DOMAIN channel : i \in DOMAIN channel' /\ channel'[i] = channel[i],
             CurrentShown
      PROVE  CurrentShown'
  BY <1>1 DEF CurrentShown, Updates
<1>2. ASSUME UNCHANGED <<vpc, snapshot>>,
             \A i \in DOMAIN channel : i \in DOMAIN channel' /\ channel'[i] = channel[i]
      PROVE  (Unsettled \/ AboutToShow \/ CurrentShown)'
  BY <1>1, <1>2 DEF Unsettled, AboutToShow
<1>3. CASE VoteNext
  <2>1. PICK r \in VoteRequests : VoteStep(r) \/ FailVote(r)
    BY <1>3 DEF VoteNext
  <2>2. CASE ReadResults(r)
    <3>1. /\ vpc[r] = "read" /\ vpc' = [vpc EXCEPT ![r] = "publish"]
          /\ snapshot' = [snapshot EXCEPT ![r] = results]
      BY <2>2 DEF ReadResults, GoVote
    <3>2. Doc(r) \in votes /\ Doc(r)._id = r
      BY <3>1 DEF VotesInv, VotesMatchRequests, MustHaveVoted, MayHaveVoted, Doc
    <3> QED
      BY <1>0, <3>1, <3>2 DEF AboutToShow
  <2>3. CASE PublishResults(r)
    <3>1. /\ vpc[r] = "publish" /\ vpc' = [vpc EXCEPT ![r] = "ok"]
          /\ snapshot' = [snapshot EXCEPT ![r] = ZeroTally]
          /\ Publish("poll_update", snapshot[r])
      BY <2>3 DEF PublishResults, GoVote
    <3>2. CASE snapshot[r] = results
      BY <3>1, <3>2, PublishAppends DEF CurrentShown, Updates
    <3>3. CASE snapshot[r] # results
      BY <1>0, <1>1, <3>1, <3>3, PublishAppends DEF Unsettled, AboutToShow
    <3> QED
      BY <3>2, <3>3
  <2>4. CASE ~(ReadResults(r) \/ PublishResults(r))
    <3>1. /\ channel' = channel
          /\ \E to \in VotePC \ {"publish", "ok"} : vpc' = [vpc EXCEPT ![r] = to]
          /\ \A s \in VoteRequests : s # r => snapshot'[s] = snapshot[s]
      <4>1. CASE FindPoll(r)
        BY <4>1 DEF FindPoll, GoVote, storeVars, VotePC, VoteAnswer, VotePending
      <4>2. CASE EnsureCounters(r) \/ CreateVote(r) \/ CountVote(r)
        BY <4>2 DEF EnsureCounters, CreateVote, CountVote, GoVote, VotePC, VoteAnswer,
                    VotePending
      <4>3. CASE FailVote(r)
        BY <1>0, <4>3 DEF FailVote, GoVote, storeVars, VotePC, VoteAnswer
      <4>4. CASE RepeatIncrement(r)
        <5>1. vpc[r] = "incr" /\ vpc' = [vpc EXCEPT ![r] = "incr"]
          BY <1>0, <4>4 DEF RepeatIncrement
        <5> QED
          BY <4>4, <5>1 DEF RepeatIncrement, VotePC, VotePending
      <4> QED
        BY <2>1, <2>4, <4>1, <4>2, <4>3, <4>4 DEF VoteStep
    <3> QED
      BY <1>0, <1>1, <3>1 DEF Unsettled, AboutToShow
  <2> QED
    BY <2>2, <2>3, <2>4
<1>4. CASE OwnerNext
  <2>1. PICK a \in OwnerRequests :
            FindOwned(a) \/ UpdateOwned(a) \/ PublishClosed(a) \/ FailOwner(a)
    BY <1>4 DEF OwnerNext
  <2>2. CASE PublishClosed(a)
    BY <1>2, <1>4, <2>2, PublishAppends DEF OwnerNext, PublishClosed, voteVars
  <2>3. CASE ~PublishClosed(a)
    BY <1>2, <1>4, <2>1, <2>3 DEF OwnerNext, FindOwned, UpdateOwned, FailOwner, voteVars, storeVars
  <2> QED
    BY <2>2, <2>3
<1>5. CASE CreateNext \/ ReadNext \/ LoseRedis \/ UNCHANGED vars
  BY <1>2, <1>5
     DEF CreateNext, InsertPoll, SeedPoll, FailCreate, ReadNext, ReadFind, ReadCount,
         ReadEnsure, ReadGet, FailRead, LoseRedis, vars, voteVars, storeVars
<1> QED
  BY <1>3, <1>4, <1>5 DEF Next

LEMMA SettledInit == Init => SettledInv
BY DEF Init, StoresInit, SettledInv

LEMMA SettledStep ==
    TypeInv /\ VotesInv /\ ColdIsZero /\ KeptInv /\ SettledInv /\ [Next]_vars => SettledInv'
<1> SUFFICES ASSUME TypeInv, VotesInv, ColdIsZero, KeptInv, SettledInv, [Next]_vars,
                    losses' = 0, votes' # {}
             PROVE  (Unsettled \/ AboutToShow \/ CurrentShown)'
  BY DEF SettledInv
<1>0. vpc \in [VoteRequests -> VotePC]
  BY DEF TypeInv, TypeOK, VoteTypeOK
<1>1. losses = 0
  BY BackendAssumption DEF TypeInv, TypeOK, Next, LoseRedis, VoteNext, CreateNext, OwnerNext,
     ReadNext, vars
<1>2. ASSUME NEW r \in VoteRequests, StoresVote(r) PROVE Unsettled'
  <2>1. /\ vpc' = [vpc EXCEPT ![r] = "incr"] /\ votes' = votes \union {Doc(r)}
        /\ Doc(r)._id = r
    BY <1>2 DEF StoresVote, GoVote, Doc
  <2> QED
    BY <1>0, <2>1 DEF Unsettled
<1>3. ASSUME NEW r \in VoteRequests, CountsVote(r) PROVE Unsettled'
  <2>1. /\ vpc[r] = "incr" /\ vpc' = [vpc EXCEPT ![r] = "read"] /\ votes' = votes
    BY <1>3 DEF CountsVote, AddsOne, GoVote
  <2>2. Doc(r) \in votes /\ Doc(r)._id = r
    BY <2>1 DEF VotesInv, VotesMatchRequests, MustHaveVoted, MayHaveVoted, Doc
  <2> QED
    BY <1>0, <2>1, <2>2 DEF Unsettled
<1>5. ASSUME NEW r \in VoteRequests, Repeats(r) PROVE Unsettled'
  <2>1. vpc[r] = "incr" /\ vpc' = vpc /\ votes' = votes
    BY <1>5 DEF Repeats, AddsOne
  <2>2. Doc(r) \in votes /\ Doc(r)._id = r
    BY <2>1 DEF VotesInv, VotesMatchRequests, MustHaveVoted, MayHaveVoted, Doc
  <2> QED
    BY <2>1, <2>2 DEF Unsettled
<1>4. CASE KeepsTally
  <2>1. votes' = votes /\ results' = results
    BY <1>4 DEF KeepsTally
  <2> QED
    BY <1>1, <2>1, SettledKept DEF SettledInv
<1> QED
  BY <1>1, <1>2, <1>3, <1>4, <1>5, StepOnTally DEF KeptInv

LEMMA SettledInvariant == Spec => []SettledInv
BY TypeInvariant, VotesInvariant, ColdInvariant, KeptInvariant, SettledInit, SettledStep,
   PTL DEF Spec

\* While Redis keeps its data and once every stored vote has been answered
\* 200, the current tally has been published, whoever read its counts last.
THEOREM SettledIsPublished == Spec => []SettledTallyIsPublished
<1>1. SettledInv => SettledTallyIsPublished
  BY DEF SettledInv, SettledTallyIsPublished, Unsettled, AboutToShow, CurrentShown
<1> QED
  BY <1>1, SettledInvariant, PTL

-----------------------------------------------------------------------------
(* The life of the poll *)

\* A request past FindOwned is the creator's; a close that is about to be
\* published, or has been, is in the document, and the other way round.
LifeInv ==
    /\ cpc = "insert" => status = "absent"
    /\ \A a \in OwnerRequests :
           /\ opc[a] \in {"update", "publish"} => demand[a].user = Creator
           /\ opc[a] = "publish" => status \in {"closed", "deleted"}
    /\ ClosedEventFollowsClose

LEMMA LifeInit == Init => LifeInv
BY DEF Init, StoresInit, PollInit, LifeInv, ClosedEventFollowsClose, ClosedPublished

\* What the steps do to the status: InsertPoll makes it active, and only from
\* absent; a request of the creator makes it closed or deleted.
Creates == cpc = "insert" /\ cpc' = "seed" /\ status' = "active" /\ opc' = opc

Modifies(a) ==
    /\ status # "absent" /\ cpc' = cpc
    /\ status' = IF demand[a].op = "close" THEN "closed" ELSE "deleted"
    /\ opc[a] = "update"
    /\ opc' = [opc EXCEPT ![a] = IF demand[a].op = "close" THEN "publish" ELSE "ok"]

\* The steps that leave the status alone.
KeepsStatus ==
    /\ status' = status
    /\ cpc' = "insert" => cpc = "insert"
    /\ \A a \in OwnerRequests :
           /\ opc'[a] = "publish" => opc[a] = "publish"
           /\ opc'[a] = "update" /\ opc[a] # "update" => demand[a].user = Creator

LEMMA StepOnStatus ==
    ASSUME TypeInv, [Next]_vars
    PROVE  /\ demand' = demand
           /\ Creates \/ (\E a \in OwnerRequests : Modifies(a)) \/ KeepsStatus
<1>0. opc \in [OwnerRequests -> OwnerPC]
  BY DEF TypeInv, TypeOK, PollTypeOK
<1>1. CASE VoteNext
  BY <1>1 DEF VoteNext, VoteStep, FindPoll, EnsureCounters, CreateVote, CountVote, RepeatIncrement,
              ReadResults, PublishResults, FailVote, InsertVote, storeVars, mongoVars, pollVars, KeepsStatus
<1>2. CASE CreateNext
  BY <1>2 DEF CreateNext, InsertPoll, SeedPoll, FailCreate, GoCreate,
              storeVars, mongoVars, Creates, KeepsStatus
<1>3. CASE OwnerNext
  <2>1. PICK a \in OwnerRequests :
            FindOwned(a) \/ UpdateOwned(a) \/ PublishClosed(a) \/ FailOwner(a)
    BY <1>3 DEF OwnerNext
  <2>2. CASE UpdateOwned(a)
    BY <2>2 DEF UpdateOwned, UpdateStatus, GoOwner, Modifies
  <2>3. CASE FindOwned(a) \/ PublishClosed(a) \/ FailOwner(a)
    BY <1>0, <2>3 DEF FindOwned, PublishClosed, FailOwner, GoOwner, storeVars, mongoVars,
                      KeepsStatus
  <2> QED
    BY <2>1, <2>2, <2>3
<1>4. CASE ReadNext
  BY <1>4 DEF ReadNext, ReadFind, ReadCount, ReadEnsure, ReadGet, FailRead, GoRead,
              storeVars, mongoVars, KeepsStatus
<1>5. CASE LoseRedis \/ UNCHANGED vars
  BY <1>5 DEF LoseRedis, vars, pollVars, storeVars, mongoVars, KeepsStatus
<1> QED
  BY <1>1, <1>2, <1>3, <1>4, <1>5 DEF Next

\* Only PublishClosed puts a "poll_closed" event on the channel.
LEMMA StepOnClosedEvents ==
    ASSUME TypeInv, [Next]_vars, ClosedPublished'
    PROVE  ClosedPublished \/ \E a \in OwnerRequests : opc[a] = "publish" /\ status' = status
<1>0. channel \in Seq(Event)
  BY DEF TypeInv, TypeOK, StoresTypeOK
<1>1. CASE channel' = channel
  BY <1>1 DEF ClosedPublished
<1>2. ASSUME NEW r \in VoteRequests, PublishResults(r) PROVE ClosedPublished
  <2>1. channel' = Append(channel, [type |-> "poll_update", results |-> snapshot[r]])
    BY <1>2 DEF PublishResults, Publish
  <2>2. PICK i \in DOMAIN channel' : channel'[i].type = "poll_closed"
    BY DEF ClosedPublished
  <2>3. i \in 1..(Len(channel) + 1) /\ Len(channel) \in Nat
    BY <1>0, <2>1
  <2>4. i # Len(channel) + 1
    BY <1>0, <2>1, <2>2
  <2>5. i \in DOMAIN channel /\ channel'[i] = channel[i]
    BY <1>0, <2>1, <2>3, <2>4
  <2> QED
    BY <2>2, <2>5 DEF ClosedPublished
<1>3. ASSUME NEW a \in OwnerRequests, PublishClosed(a)
      PROVE  opc[a] = "publish" /\ status' = status
  BY <1>3 DEF PublishClosed, GoOwner, mongoVars
<1> QED
  BY <1>1, <1>2, <1>3
     DEF Next, VoteNext, VoteStep, FindPoll, EnsureCounters, CreateVote, CountVote,
         RepeatIncrement, ReadResults, FailVote, CreateNext, InsertPoll, SeedPoll, FailCreate, OwnerNext,
         FindOwned, UpdateOwned, FailOwner, ReadNext, ReadFind, ReadCount, ReadEnsure,
         ReadGet, FailRead, LoseRedis, vars, storeVars

\* The event stays on the channel, and a close that is about to publish it does
\* so or fails.
ClosersKept ==
    /\ ClosedPublished => ClosedPublished'
    /\ \A a \in OwnerRequests :
           opc[a] \in {"publish", "failed"} =>
               opc'[a] \in {"publish", "failed"} \/ ClosedPublished'

LEMMA ClosersStep ==
    ASSUME TypeInv, [Next]_vars
    PROVE  ClosersKept
<1>0. channel \in Seq(Event) /\ opc \in [OwnerRequests -> OwnerPC]
  BY DEF TypeInv, TypeOK, StoresTypeOK, PollTypeOK
<1>1. ASSUME channel' = channel, opc' = opc PROVE ClosersKept
  BY <1>1 DEF ClosersKept, ClosedPublished
<1>2. ASSUME NEW t, NEW f, Publish(t, f), ClosedPublished PROVE ClosedPublished'
  BY <1>2, PublishAppends DEF ClosedPublished
<1>3. CASE OwnerNext
  <2>1. PICK a \in OwnerRequests :
            FindOwned(a) \/ UpdateOwned(a) \/ PublishClosed(a) \/ FailOwner(a)
    BY <1>3 DEF OwnerNext
  <2>2. CASE PublishClosed(a)
    <3>1. Publish("poll_closed", ZeroTally)
      BY <2>2 DEF PublishClosed
    <3>2. ClosedPublished'
      BY <3>1, PublishAppends DEF ClosedPublished
    <3> QED
      BY <3>2 DEF ClosersKept
  <2>3. CASE FindOwned(a) \/ UpdateOwned(a) \/ FailOwner(a)
    <3>1. channel' = channel
      BY <2>3 DEF FindOwned, UpdateOwned, FailOwner, storeVars
    <3>2. ASSUME NEW b \in OwnerRequests, opc[b] \in {"publish", "failed"}
          PROVE  opc'[b] \in {"publish", "failed"}
      BY <1>0, <2>3, <3>2 DEF FindOwned, UpdateOwned, FailOwner, GoOwner
    <3> QED
      BY <3>1, <3>2 DEF ClosersKept, ClosedPublished
  <2> QED
    BY <2>1, <2>2, <2>3
<1>4. CASE VoteNext
  <2>1. PICK r \in VoteRequests : VoteStep(r) \/ FailVote(r)
    BY <1>4 DEF VoteNext
  <2>2. opc' = opc
    BY <1>4 DEF VoteNext, pollVars
  <2>3. CASE PublishResults(r)
    BY <1>2, <2>2, <2>3 DEF PublishResults, ClosersKept
  <2>4. CASE ~PublishResults(r)
    BY <1>1, <2>1, <2>2, <2>4
       DEF VoteStep, FindPoll, EnsureCounters, CreateVote, CountVote, RepeatIncrement,
           ReadResults, FailVote, storeVars
  <2> QED
    BY <2>3, <2>4
<1> QED
  BY <1>1, <1>3, <1>4
     DEF Next, CreateNext, InsertPoll, SeedPoll, FailCreate, GoCreate, ReadNext, ReadFind,
         ReadCount, ReadEnsure, ReadGet, FailRead, GoRead, LoseRedis, pollVars, vars,
         storeVars, ClosersKept

LEMMA LifeStep == TypeInv /\ LifeInv /\ [Next]_vars => LifeInv'
<1> SUFFICES ASSUME TypeInv, LifeInv, [Next]_vars PROVE LifeInv'
  OBVIOUS
<1>0. opc \in [OwnerRequests -> OwnerPC] /\ demand' = demand
  BY StepOnStatus DEF TypeInv, TypeOK, PollTypeOK
<1>1. status \in {"closed", "deleted"} => status' \in {"closed", "deleted"}
  BY StepOnStatus DEF LifeInv, Creates, Modifies, KeepsStatus
<1>2. cpc' = "insert" => status' = "absent"
  BY StepOnStatus DEF LifeInv, Creates, Modifies, KeepsStatus
<1>3. ASSUME NEW a \in OwnerRequests
      PROVE  /\ opc'[a] \in {"update", "publish"} => demand'[a].user = Creator
             /\ opc'[a] = "publish" => status' \in {"closed", "deleted"}
  BY <1>0, <1>1, StepOnStatus DEF LifeInv, Creates, Modifies, KeepsStatus
<1>4. ClosedPublished' => status' \in {"closed", "deleted"}
  BY <1>1, StepOnClosedEvents DEF LifeInv, ClosedEventFollowsClose
<1>5. ASSUME status' = "closed", ~ClosedPublished'
      PROVE  \E a \in OwnerRequests :
                 /\ demand'[a] = [user |-> Creator, op |-> "close"]
                 /\ opc'[a] \in {"publish", "failed"}
  <2>1. ASSUME NEW a \in OwnerRequests, Modifies(a)
        PROVE  demand[a] = [user |-> Creator, op |-> "close"] /\ opc'[a] = "publish"
    <3>1. demand[a].op = "close" /\ demand[a].user = Creator /\ opc'[a] = "publish"
      BY <1>0, <1>5, <2>1 DEF Modifies, LifeInv
    <3>2. demand[a] \in Demand
      BY DEF TypeInv, TypeOK, PollTypeOK
    <3> QED
      BY <3>1, <3>2 DEF Demand
  <2>2. CASE KeepsStatus
    <3>1. PICK a \in OwnerRequests : /\ demand[a] = [user |-> Creator, op |-> "close"]
                                      /\ opc[a] \in {"publish", "failed"}
      BY <1>5, <2>2, ClosersStep DEF KeepsStatus, LifeInv, ClosedEventFollowsClose, ClosersKept
    <3>2. opc'[a] \in {"publish", "failed"}
      BY <1>5, <3>1, ClosersStep DEF ClosersKept
    <3> QED
      BY <1>0, <3>1, <3>2
  <2>3. ~Creates
    BY <1>5 DEF Creates
  <2> QED
    BY <1>0, <2>1, <2>2, <2>3, StepOnStatus
<1>6. ClosedEventFollowsClose'
  BY <1>4, <1>5 DEF ClosedEventFollowsClose
<1> QED
  BY <1>2, <1>3, <1>6 DEF LifeInv

LEMMA LifeInvariant == Spec => []LifeInv
BY TypeInvariant, LifeInit, LifeStep, PTL DEF Spec

\* No viewer is told that a poll is closed while it takes votes, even when
\* closes and deletes race, and only a close that fails leaves them untold.
THEOREM EventFollowsClose == Spec => []ClosedEventFollowsClose
<1>1. LifeInv => ClosedEventFollowsClose
  BY DEF LifeInv
<1> QED
  BY <1>1, LifeInvariant, PTL

\* An existing poll changes status only by a request of its creator.
THEOREM CreatorModifies == Spec => OnlyCreatorModifies
<1>1. ASSUME TypeInv, LifeInv, [Next]_vars, status' # status, status # "absent"
      PROVE  \E a \in OwnerRequests :
                 opc[a] = "update" /\ opc'[a] # "update" /\ demand[a].user = Creator
  <2>1. PICK a \in OwnerRequests : Modifies(a)
    BY <1>1, StepOnStatus DEF LifeInv, Creates, KeepsStatus
  <2>2. opc'[a] \in {"publish", "ok"}
    BY <1>1, <2>1 DEF Modifies, TypeInv, TypeOK, PollTypeOK
  <2> QED
    BY <1>1, <2>1, <2>2 DEF Modifies, LifeInv
<1> QED
  BY <1>1, TypeInvariant, LifeInvariant, PTL DEF Spec, OnlyCreatorModifies

\* Once the requests that were under way at the close are through, the votes
\* of a closed or deleted poll never change again.
THEOREM DrainedIsFrozen == Spec => DrainedPollIsFrozen
<1>1. ASSUME TypeInv, LifeInv, [Next]_vars, Drained
      PROVE  Drained' /\ votes' = votes
  <2>0. vpc \in [VoteRequests -> VotePC]
    BY <1>1 DEF TypeInv, TypeOK, VoteTypeOK
  <2>1. votes' = votes
    BY <1>1, StepOnVotes DEF Drained, StoresVote, GoVote, Moves
  <2>2. status' \in {"closed", "deleted"}
    BY <1>1, StepOnStatus DEF Drained, LifeInv, Creates, Modifies, KeepsStatus
  <2>3. ASSUME NEW r \in VoteRequests PROVE vpc'[r] \notin {"ensure", "create"}
    <3>1. CASE vpc' = vpc
      BY <1>1, <3>1 DEF Drained
    <3>2. CASE VoteNext
      BY <1>1, <2>0, <3>2
         DEF Drained, VoteNext, VoteStep, FindPoll, EnsureCounters, CreateVote, CountVote,
             RepeatIncrement, ReadResults, PublishResults, FailVote, GoVote
    <3> QED
      BY <1>1, <3>1, <3>2 DEF Next, CreateNext, OwnerNext, ReadNext, LoseRedis, voteVars, vars
  <2> QED
    BY <2>1, <2>2, <2>3 DEF Drained
<1> QED
  BY <1>1, TypeInvariant, LifeInvariant, PTL DEF Spec, DrainedPollIsFrozen

\* With no close under way that found it earlier, a deleted poll is deleted
\* for good.
THEOREM DeletedForGood == Spec => DeletedStaysDeleted
<1>1. ASSUME TypeInv, LifeInv, [Next]_vars, Gone
      PROVE  Gone'
  <2>1. ASSUME NEW a \in OwnerRequests, opc'[a] = "update", demand'[a].op = "close"
        PROVE  FALSE
    <3>1. opc \in [OwnerRequests -> OwnerPC] /\ demand' = demand
      BY <1>1 DEF TypeInv, TypeOK, PollTypeOK, Next, VoteNext, CreateNext, OwnerNext,
                  ReadNext, LoseRedis, pollVars, vars, InsertPoll, SeedPoll, FailCreate,
                  GoCreate, FindOwned, UpdateOwned, PublishClosed, FailOwner, GoOwner,
                  ReadFind, ReadCount, ReadEnsure, ReadGet, FailRead, GoRead
    <3>2. CASE opc' = opc
      BY <1>1, <2>1, <3>1, <3>2 DEF Gone
    <3>3. CASE OwnerNext
      BY <1>1, <2>1, <3>1, <3>3
         DEF Gone, OwnerNext, FindOwned, UpdateOwned, PublishClosed, FailOwner, GoOwner,
             Findable
    <3> QED
      BY <1>1, <3>2, <3>3
         DEF Next, VoteNext, CreateNext, ReadNext, LoseRedis, pollVars, vars, InsertPoll,
             SeedPoll, FailCreate, GoCreate, ReadFind, ReadCount, ReadEnsure, ReadGet,
             FailRead, GoRead
  <2>2. status' = "deleted"
    BY <1>1, StepOnStatus DEF Gone, LifeInv, Creates, Modifies, KeepsStatus
  <2> QED
    BY <2>1, <2>2 DEF Gone
<1> QED
  BY <1>1, TypeInvariant, LifeInvariant, PTL DEF Spec, DeletedStaysDeleted

=============================================================================
