---------------------------- MODULE MCNeighbors -----------------------------
(* An instance of Neighbors for TLC: one value of comm has neighbors of its *)
(* own, another has the primary ones, and the empty value names none.       *)
EXTENDS Neighbors, TLC

CONSTANTS n1, n2, ca, cb

OwnNeighbors == ca :> {n1}

SomeRows == {[comm |-> NoComm, as_path |-> FALSE], [comm |-> ca, as_path |-> FALSE],
             [comm |-> cb, as_path |-> TRUE]}

\* Ids and addresses are only compared with each other.
Symmetry == Permutations(Ids) \cup Permutations(CommunityIds) \cup Permutations(Net)

\* The routes of loose nets show nothing; with one firm net left, restarts that
\* make the other firm again are reached all the same.
SomeFirm == loose # Net

=============================================================================
