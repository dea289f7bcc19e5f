------------------------------ MODULE MCAccess ------------------------------
(* An instance of Access for TLC.                                           *)
EXTENDS Access, TLC

\* A network of the ranges, one that begins with it, and what is left of this
\* without that.
Narrow == {0}
Wide == {0, 1}
Rest == {1}
Networks == {Narrow, Wide, Rest}
OnlyNarrow == {Narrow}

\* Bound: a rule and a key are not kept at once; a token outlives its key.
RulesOrKeys == Used = {} \/ Keys = {}

\* Bound: the browser and the API client take turns, but a session may go on beside a
\* token until there is a rule or a change by the administrators.
OneClient ==
  session = NoSession \/ token = NoToken \/ (Used = {} /\ edits = 0)

\* Bound: several rules are kept only if they are a rule, a whitelist and parts of a
\* rule, and the administrators made no change yet.
Parts == {p[2] : p \in made}
Kept(table) == {i \in Used \ Parts : rules[i].table = table}
FewRules ==
  \/ Cardinality(Used) <= 1
  \/ /\ edits = 0 /\ Kept("flowspec") = {}
     /\ Cardinality(Kept("RTBH")) <= 1 /\ Cardinality(Kept("whitelist")) <= 1

\* Bound: only RTBH rules, the parts among them, have the network that is left.
RestIsPart ==
  \A i \in Used : Rest \in rules[i].nets => rules[i].table = "RTBH"

\* Ids are only compared with each other.
Symmetry == Permutations(UserIds) \cup Permutations(OrgIds) \cup Permutations(Ids)

=============================================================================
