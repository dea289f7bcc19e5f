---------------------------- MODULE MCRuleLimits ----------------------------
(* Instances of RuleLimits for TLC. *)
EXTENDS RuleLimits, TLC

\* Ids, workers, organizations and keys are only compared with each other.
Symmetry ==
  Permutations(Ids) \cup Permutations(Worker) \cup Permutations(Org) \cup Permutations(Key)

=============================================================================
