-------------------------- MODULE MCRtbhWhitelist --------------------------
(* Instances of RtbhWhitelist for TLC: small address spaces and id symmetry. *)
EXTENDS RtbhWhitelist, TLC

\* A block and its two halves.
Left == {1}
Right == {2}
Whole == Left \cup Right
Halves == {Whole, Left, Right}

\* A block, its halves and its quarters.
Quarters == {{1, 2, 3, 4}, {1, 2}, {3, 4}, {1}, {2}, {3}, {4}}

OnlyWhole == {Whole}
OnlyLeft == {Left}
WholeAndLeft == {Whole, Left}
BlockAndHalf == {{1, 2, 3, 4}, {1, 2}}
QuarterAndHalf == {{1}, {1, 2}}

\* Rules and whitelists made and unmade, nothing else; whitelists are not stored with
\* a time that has passed.
SplitStep ==
  \/ \E n \in RuleNets, c \in Community, e \in Times : CreateOrUpdateRtbh(n, c, e)
  \/ \E i \in Ids : DeleteRule(i)
  \/ \E w \in WhitelistNets : CreateOrUpdateWhitelist(w, MaxTime)
  \/ \E w \in Net : DeleteWhitelist(w)

SplitSpec == Init /\ [][SplitStep]_vars

\* Bound: one whitelist and one exception of the invariants at a time.
FewAtOnce ==
  /\ Cardinality({w \in Net : whitelist[w] # NoWhitelist}) <= 1
  /\ Cardinality(disturbed) + Cardinality(strayed) <= 1

IdSymmetry == Permutations(Ids)
=============================================================================
