-------------------------- MODULE MCFlowspecRoutes --------------------------
(* Instances of FlowspecRoutes for TLC. *)
EXTENDS FlowspecRoutes, TLC

\* Ids, workers and keys are alike.
RouteSymmetry == Permutations(Ids) \cup Permutations(Worker) \cup Permutations(Key)

\* The route invariants say nothing of disturbed routes, and what is disturbed
\* stays so: from a state where all routes are, they cannot fail any more.
SomeUndisturbed == disturbed # Route
=============================================================================
