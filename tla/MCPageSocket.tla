---------------------------- MODULE MCPageSocket ----------------------------
(***************************************************************************)
(* The hook when two bridges broadcast the events of the same poll: two     *)
(* instances, or a bridge and its cancelled predecessor on one instance.    *)
(***************************************************************************)
EXTENDS PageSocket, TLC

CONSTANTS p1, p2, b1, b2

TwoBridges == b1 :> p1 @@ b2 :> p1

=============================================================================
