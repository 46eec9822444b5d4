------------------------------ MODULE MCBackend ------------------------------
(* Model checking of Backend on small sets of requests, voters and options. *)
EXTENDS Backend, TLC

\* Vote requests, voters, and requests of users are interchangeable.
RequestSymmetry == Permutations(VoteRequests) \union Permutations(Voters)
                   \union Permutations(OwnerRequests)

=============================================================================
