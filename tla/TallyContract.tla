---------------------------- MODULE TallyContract ----------------------------
(***************************************************************************)
(* What the backend promises of one poll's votes, without requests, stores *)
(* or faults: a voter casts at most one ballot, a cast ballot is never     *)
(* changed or withdrawn, and the live tally counts ballots one at a time,  *)
(* never more of them than were cast and never backwards.                  *)
(***************************************************************************)
EXTENDS Naturals, FiniteSets

CONSTANTS BallotIds, Voters, Options

VARIABLES cast, tally

Ballots == [_id : BallotIds, voterKey : Voters, optionId : Options]

Init ==
    /\ cast = {}
    /\ tally = [o \in Options |-> 0]

Cast(b) ==
    /\ \A c \in cast : c.voterKey # b.voterKey
    /\ cast' = cast \union {b}
    /\ UNCHANGED tally

Count(o) ==
    /\ tally[o] < Cardinality({b \in cast : b.optionId = o})
    /\ tally' = [tally EXCEPT ![o] = @ + 1]
    /\ UNCHANGED cast

Next ==
    \/ \E b \in Ballots : Cast(b)
    \/ \E o \in Options : Count(o)

Spec == Init /\ [][Next]_<<cast, tally>>

=============================================================================
