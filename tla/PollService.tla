----------------------------- MODULE PollService -----------------------------
(***************************************************************************)
(* PollService and the poll handlers: the one CreatePoll request that makes *)
(* this poll, the ClosePoll and DeletePoll requests on it, and the reads    *)
(* (GetPoll, GetResults, GetMyPolls), which rebuild the live counters from  *)
(* MongoDB when Redis has none.  As in VoteService each request is a        *)
(* goroutine and each remote call one step of it.                           *)
(***************************************************************************)
EXTENDS Stores

CONSTANTS
    OwnerRequests,  \* PATCH .../status and DELETE requests
    Readers,        \* clients that read the poll, one request after another
    Users,          \* authenticated users
    Creator         \* the user of the CreatePoll request: poll.CreatedBy

ASSUME PollAssumption == Creator \in Users

VARIABLES
    cpc,     \* the CreatePoll request
    opc,     \* [OwnerRequests -> OwnerPC]
    demand,  \* the user and the operation of each owner request
    rpc,     \* [Readers -> ReadPC]
    seed     \* the counts a reader took from MongoDB, zero once used

pollVars == <<cpc, opc, demand, rpc, seed>>

CreatePC == {"insert", "seed", "ok", "failed"}
OwnerPC  == {"find", "update", "publish", "ok", "notFound", "forbidden", "failed"}
ReadPC   == {"idle", "count", "ensure", "get"}
Demand   == [user : Users, op : {"close", "delete"}]

PollTypeOK ==
    /\ cpc \in CreatePC
    /\ opc \in [OwnerRequests -> OwnerPC]
    /\ demand \in [OwnerRequests -> Demand]
    /\ rpc \in [Readers -> ReadPC]
    /\ seed \in [Readers -> Tally]

PollInit ==
    /\ cpc = "insert"
    /\ opc = [a \in OwnerRequests |-> "find"]
    /\ demand \in [OwnerRequests -> Demand]
    /\ rpc = [q \in Readers |-> "idle"]
    /\ seed = [q \in Readers |-> ZeroTally]

-----------------------------------------------------------------------------
(* CreatePoll: the document first, then the live counters *)

GoCreate(from, to) ==
    /\ cpc = from
    /\ cpc' = to
    /\ UNCHANGED <<opc, demand, rpc, seed>>

InsertPoll ==
    /\ GoCreate("insert", "seed")
    /\ status' = "active"
    /\ UNCHANGED <<votes, redisVars, channel>>

SeedPoll ==
    /\ GoCreate("seed", "ok")
    /\ EnsureResults(ZeroTally)
    /\ UNCHANGED <<mongoVars, channel>>

\* The creator is answered 500; a document already inserted stays.
FailCreate ==
    /\ \E pc \in {"insert", "seed"} : GoCreate(pc, "failed")
    /\ UNCHANGED storeVars

-----------------------------------------------------------------------------
(* ClosePoll and DeletePoll: check the document, then update it *)

GoOwner(a, from, to) ==
    /\ opc[a] = from
    /\ opc' = [opc EXCEPT ![a] = to]
    /\ UNCHANGED <<cpc, demand, rpc, seed>>

\* Variant: FindByID without its "deletedAt does not exist".
FindOwnedDeleted(a) ==
    /\ \/ status = "absent" /\ GoOwner(a, "find", "notFound")
       \/ /\ status # "absent"
          /\ demand[a].user # Creator
          /\ GoOwner(a, "find", "forbidden")
       \/ /\ status # "absent"
          /\ demand[a].user = Creator
          /\ GoOwner(a, "find", "update")
    /\ UNCHANGED storeVars

\* Variant: without the comparison of CreatedBy and the user.
FindOwnedByAnyone(a) ==
    /\ \/ ~Findable /\ GoOwner(a, "find", "notFound")
       \/ Findable /\ GoOwner(a, "find", "update")
    /\ UNCHANGED storeVars

FindOwned(a) ==
    /\ \/ ~Findable /\ GoOwner(a, "find", "notFound")
       \/ Findable /\ demand[a].user # Creator /\ GoOwner(a, "find", "forbidden")
       \/ Findable /\ demand[a].user = Creator /\ GoOwner(a, "find", "update")
    /\ UNCHANGED storeVars

\* Variant: a close whose update matches no document, which UpdateOne does
\* not report as an error.
UpdateOwnedNoMatch(a) ==
    /\ \/ /\ demand[a].op = "close"
          /\ GoOwner(a, "update", "publish")
          /\ UNCHANGED mongoVars
       \/ /\ demand[a].op = "delete"
          /\ GoOwner(a, "update", "ok")
          /\ UpdateStatus("deleted")
    /\ UNCHANGED <<redisVars, channel>>

UpdateOwned(a) ==
    /\ \/ /\ demand[a].op = "close"
          /\ GoOwner(a, "update", "publish")
          /\ UpdateStatus("closed")
       \/ /\ demand[a].op = "delete"
          /\ GoOwner(a, "update", "ok")
          /\ UpdateStatus("deleted")
    /\ UNCHANGED <<redisVars, channel>>

\* The event of a close has no Results (and TotalVotes 0).
PublishClosed(a) ==
    /\ GoOwner(a, "publish", "ok")
    /\ Publish("poll_closed", ZeroTally)
    /\ UNCHANGED <<mongoVars, redisVars>>

FailOwner(a) ==
    /\ \E pc \in {"find", "update", "publish"} : GoOwner(a, pc, "failed")
    /\ UNCHANGED storeVars

-----------------------------------------------------------------------------
(* GetPoll and GetMyPolls: find the document, then liveResults *)

GoRead(q, from, to) ==
    /\ rpc[q] = from
    /\ rpc' = [rpc EXCEPT ![q] = to]
    /\ UNCHANGED <<cpc, opc, demand>>

\* A poll that is not found is answered 404: the reader may ask again.
ReadFind(q) ==
    /\ Findable
    /\ GoRead(q, "idle", "count")
    /\ UNCHANGED <<storeVars, seed>>

ReadCount(q) ==
    /\ GoRead(q, "count", "ensure")
    /\ seed' = [seed EXCEPT ![q] = CountByOption]
    /\ UNCHANGED storeVars

ReadEnsure(q) ==
    /\ GoRead(q, "ensure", "get")
    /\ EnsureResults(seed[q])
    /\ seed' = [seed EXCEPT ![q] = ZeroTally]
    /\ UNCHANGED <<mongoVars, channel>>

\* HGETALL: what the answer shows is not kept by the backend.
ReadGet(q) ==
    /\ GoRead(q, "get", "idle")
    /\ UNCHANGED <<storeVars, seed>>

FailRead(q) ==
    /\ \E pc \in ReadPC \ {"idle"} : GoRead(q, pc, "idle")
    /\ seed' = [seed EXCEPT ![q] = ZeroTally]
    /\ UNCHANGED storeVars

=============================================================================
