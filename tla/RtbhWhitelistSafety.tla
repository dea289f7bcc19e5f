------------------------ MODULE RtbhWhitelistSafety ------------------------
(***************************************************************************)
(* Safety of RtbhWhitelist, for every value of its constants.              *)
(*                                                                         *)
(* Three requests evaluate matches between rules and whitelists.  They are *)
(* first brought to one form, Evaluates, on tables the request may have    *)
(* changed before; what an evaluation preserves is then proved once.       *)
(***************************************************************************)
EXTENDS RtbhWhitelistProofs

\* The matches E are between rules and whitelists that overlap, and of rules
\* in the communities whitelists apply to.
Matches(rules, E) ==
  /\ E \in SUBSET (Used(rules) \X Net)
  /\ \A m \in E : /\ Relation(rules[m[1]].net, m[2]) # "DIFFERENT"
                  /\ rules[m[1]].community \in AllowedCommunities

\* The ids given to parts are free in the tables that are evaluated.
Unused(rules, rows, fresh) ==
  \A p \in DOMAIN fresh :
    /\ fresh[p] \in FreeIds /\ rules[fresh[p]] = NoRule
    /\ \A row \in Rows : row[1] = fresh[p] => rows[row] = 0

\* The matches E are evaluated on the tables rules and rows.
Evaluates(rules, rows, E, fresh) ==
  /\ rules \in Rules /\ rows \in [Rows -> Nat]
  /\ Matches(rules, E)
  /\ fresh \in NewIds(rules, E, Ids) /\ Unused(rules, rows, fresh)
  /\ rtbh' = EvaluatedRules(rules, E, fresh)
  /\ cache' = EvaluatedCache(rows, E, fresh)
  /\ NoteHistory

LEMMA MatchingMatches ==
  ASSUME NEW rules \in Rules, NEW i \in Used(rules)
  PROVE  Matches(rules, MatchingWhitelists(rules, i))
<1>1. ASSUME NEW m \in MatchingWhitelists(rules, i)
      PROVE  /\ m[1] = i /\ m \in Used(rules) \X Net
             /\ rules[i].community \in AllowedCommunities
             /\ Relation(rules[i].net, m[2]) # "DIFFERENT"
  <2>1. PICK w \in LiveWhitelists : /\ m = <<i, w>>
                                    /\ rules[i].community \in AllowedCommunities
                                    /\ Relation(rules[i].net, w) # "DIFFERENT"
    BY <1>1 DEF MatchingWhitelists
  <2> QED BY <2>1 DEF LiveWhitelists
<1> QED BY <1>1 DEF Matches

\* New ids come from the free ones, so no table uses them.
LEMMA FreshIsUnused ==
  ASSUME TypeOK, NEW rules \in Rules, NEW E, NEW free \in SUBSET FreeIds,
         NEW fresh \in NewIds(rules, E, free)
  PROVE  /\ fresh \in NewIds(rules, E, Ids)
         /\ \A p \in DOMAIN fresh : fresh[p] \in free
         /\ Unused(rtbh, cache, fresh)
BY DEF NewIds, FreeIds, Unused

\* What creating or updating rule i as rule does.
Created(i, rule, E, fresh) ==
  /\ i \in Ids /\ rule \in Rule
  /\ rtbh[i] = NoRule => rule.origin = USER /\ i \in FreeIds
  /\ rtbh[i] # NoRule => /\ rule.net = rtbh[i].net
                         /\ rule.community = rtbh[i].community
                         /\ rule.origin = rtbh[i].origin
  /\ rule.rstate = StateByTime(rule.expires) /\ rule.rstate # Whitelisted
  /\ E \in SUBSET ({i} \X LiveWhitelists)
  /\ i \notin {fresh[p] : p \in DOMAIN fresh}
  /\ Evaluates([rtbh EXCEPT ![i] = rule], cache, E, fresh)
  /\ bgp' = bgp \cup PartNets([rtbh EXCEPT ![i] = rule], E)
              \cup {n \in {rule.net} : rtbh'[i].rstate = Active}
  /\ UNCHANGED <<whitelist, now, call>>

LEMMA CreateEvaluates ==
  ASSUME TypeOK, NEW net \in RuleNets, NEW community \in Community,
         NEW expires \in Times, CreateOrUpdateRtbh(net, community, expires)
  PROVE  \E i, rule, E, fresh : Created(i, rule, E, fresh)
<1> DEFINE same == {i \in Used(rtbh) :
                      rtbh[i].net = net /\ rtbh[i].community = community}
           rule(i) == [net |-> net, community |-> community,
                       rstate |-> StateByTime(expires), expires |-> expires,
                       origin |-> IF same # {} THEN rtbh[i].origin ELSE USER]
           saved(i) == [rtbh EXCEPT ![i] = rule(i)]
           E(i) == MatchingWhitelists(saved(i), i)
<1>1. PICK i \in IF same # {} THEN same ELSE FreeIds :
        \E fresh \in NewIds(saved(i), E(i), FreeIds \ {i}) :
          /\ rtbh' = EvaluatedRules(saved(i), E(i), fresh)
          /\ cache' = EvaluatedCache(cache, E(i), fresh)
          /\ RowsBounded
          /\ bgp' = bgp \cup PartNets(saved(i), E(i))
                      \cup {n \in {net} : rtbh'[i].rstate = Active}
          /\ NoteHistory
          /\ UNCHANGED <<whitelist, now, call>>
  BY DEF CreateOrUpdateRtbh
<1>2. PICK fresh \in NewIds(saved(i), E(i), FreeIds \ {i}) :
          /\ rtbh' = EvaluatedRules(saved(i), E(i), fresh)
          /\ cache' = EvaluatedCache(cache, E(i), fresh)
          /\ bgp' = bgp \cup PartNets(saved(i), E(i))
                      \cup {n \in {net} : rtbh'[i].rstate = Active}
          /\ NoteHistory
          /\ UNCHANGED <<whitelist, now, call>>
  BY <1>1
<1>3. i \in Ids /\ net \in Net
  BY NetAssumption DEF FreeIds, Used
<1>5. /\ rtbh[i] = NoRule => rule(i).origin = USER /\ i \in FreeIds
      /\ rtbh[i] # NoRule => /\ i \in same /\ same # {}
  <2>1. CASE same # {}
    BY <1>1, <2>1 DEF Used
  <2>2. CASE same = {}
    BY <1>1, <2>2 DEF FreeIds
  <2> QED BY <2>1, <2>2
<1>6. rtbh[i] # NoRule => /\ rule(i).net = rtbh[i].net
                          /\ rule(i).community = rtbh[i].community
                          /\ rule(i).origin = rtbh[i].origin
  BY <1>5
<1>7. rule(i) \in Rule /\ rule(i).rstate # Whitelisted
  <2>1. rule(i).origin \in {USER, WHITELIST}
    BY <1>3, <1>5, <1>6 DEF TypeOK, Rule
  <2>2. rule(i).origin = IF same # {} THEN rtbh[i].origin ELSE USER
    OBVIOUS
  <2>3. StateByTime(expires) \in {Active, Withdrawn} /\ Whitelisted \notin {Active, Withdrawn}
    BY DEF StateByTime, Active, Withdrawn, Whitelisted
  <2> QED BY <1>3, <2>1, <2>2, <2>3 DEF Rule
<1>8. saved(i) \in Rules /\ i \in Used(saved(i))
  <2> HIDE DEF rule
  <2> QED BY <1>3, <1>7, NoValueAssumption DEF TypeOK, Rules, Used
<1>9. Matches(saved(i), E(i)) /\ E(i) \in SUBSET ({i} \X LiveWhitelists)
  <2> HIDE DEF saved
  <2>1. E(i) \in SUBSET ({i} \X LiveWhitelists)
    BY DEF MatchingWhitelists
  <2> QED BY <1>8, <2>1, MatchingMatches
<1>10. /\ fresh \in NewIds(saved(i), E(i), Ids)
       /\ i \notin {fresh[p] : p \in DOMAIN fresh}
       /\ Unused(saved(i), cache, fresh)
  <2> HIDE DEF E, rule
  <2>1. /\ fresh \in NewIds(saved(i), E(i), Ids)
        /\ \A p \in DOMAIN fresh : fresh[p] \in FreeIds \ {i}
        /\ Unused(rtbh, cache, fresh)
    <3> HIDE DEF saved
    <3> QED BY <1>2, <1>8, FreshIsUnused
  <2>2. \A p \in DOMAIN fresh : saved(i)[fresh[p]] = rtbh[fresh[p]]
    BY <2>1 DEF FreeIds, TypeOK
  <2> QED BY <2>1, <2>2 DEF Unused
<1>11. Evaluates(saved(i), cache, E(i), fresh)
  <2> HIDE DEF saved, E
  <2> QED BY <1>2, <1>8, <1>9, <1>10 DEF Evaluates, TypeOK
<1>12. rule(i).net = net /\ rule(i).rstate = StateByTime(rule(i).expires)
  OBVIOUS
<1>13. Created(i, rule(i), E(i), fresh)
  <2> HIDE DEF E, rule
  <2> QED BY <1>2, <1>3, <1>5, <1>6, <1>7, <1>9, <1>10, <1>11, <1>12 DEF Created
<1> QED BY <1>13

\* What giving rule i a new expiration time does.
Reactivated(i, rule, E, fresh) ==
  /\ i \in Ids /\ rtbh[i] # NoRule /\ rule \in Rule
  /\ rule.net = rtbh[i].net /\ rule.community = rtbh[i].community
  /\ rule.origin = rtbh[i].origin /\ rule.rstate = rtbh[i].rstate
  /\ E \in SUBSET ({i} \X LiveWhitelists)
  /\ i \notin {fresh[p] : p \in DOMAIN fresh}
  /\ Evaluates([rtbh EXCEPT ![i] = rule], cache, E, fresh)
  /\ bgp' = IF rtbh'[i].rstate = Active
            THEN bgp \cup PartNets([rtbh EXCEPT ![i] = rule], E) \cup {rule.net}
            ELSE (bgp \cup PartNets([rtbh EXCEPT ![i] = rule], E)) \ {rule.net}
  /\ UNCHANGED <<whitelist, now, call>>

LEMMA ReactivateEvaluates ==
  ASSUME TypeOK, NEW i \in Ids, NEW expires \in Times, ReactivateRtbh(i, expires)
  PROVE  \E rule, E, fresh : Reactivated(i, rule, E, fresh)
<1> DEFINE rule == [rtbh[i] EXCEPT !.expires = expires]
           saved == [rtbh EXCEPT ![i] = rule]
           E == MatchingWhitelists(saved, i)
<1>1. PICK fresh \in NewIds(saved, E, FreeIds) :
        /\ rtbh' = EvaluatedRules(saved, E, fresh)
        /\ cache' = EvaluatedCache(cache, E, fresh)
        /\ bgp' = IF rtbh'[i].rstate = Active
                  THEN bgp \cup PartNets(saved, E) \cup {rtbh[i].net}
                  ELSE (bgp \cup PartNets(saved, E)) \ {rtbh[i].net}
        /\ NoteHistory
        /\ UNCHANGED <<whitelist, now, call>>
  BY DEF ReactivateRtbh
<1>2. rtbh[i] \in Rule /\ rtbh[i] # NoRule
  BY DEF ReactivateRtbh, TypeOK
<1>3. /\ rule \in Rule
      /\ rule.net = rtbh[i].net /\ rule.community = rtbh[i].community
      /\ rule.origin = rtbh[i].origin /\ rule.rstate = rtbh[i].rstate
  BY <1>2 DEF Rule
<1>4. saved \in Rules /\ i \in Used(saved)
  <2> HIDE DEF rule
  <2> QED BY <1>3, NoValueAssumption DEF TypeOK, Rules, Used
<1>5. Matches(saved, E) /\ E \in SUBSET ({i} \X LiveWhitelists)
  <2> HIDE DEF saved
  <2>1. E \in SUBSET ({i} \X LiveWhitelists)
    BY DEF MatchingWhitelists
  <2> QED BY <1>4, <2>1, MatchingMatches
<1>6. /\ fresh \in NewIds(saved, E, Ids)
      /\ i \notin {fresh[p] : p \in DOMAIN fresh}
      /\ Unused(saved, cache, fresh)
  <2> HIDE DEF E, rule
  <2>1. /\ fresh \in NewIds(saved, E, Ids)
        /\ \A p \in DOMAIN fresh : fresh[p] \in FreeIds
        /\ Unused(rtbh, cache, fresh)
    <3> HIDE DEF saved
    <3> QED BY <1>1, <1>4, FreshIsUnused
  <2>2. i \notin FreeIds
    BY <1>2 DEF FreeIds
  <2>3. \A p \in DOMAIN fresh : saved[fresh[p]] = rtbh[fresh[p]]
    BY <2>1, <2>2 DEF FreeIds, TypeOK
  <2> QED BY <2>1, <2>2, <2>3 DEF Unused
<1>7. Evaluates(saved, cache, E, fresh)
  <2> HIDE DEF saved, E
  <2> QED BY <1>1, <1>4, <1>5, <1>6 DEF Evaluates, TypeOK
<1>8. Reactivated(i, rule, E, fresh)
  <2> HIDE DEF E, rule
  <2> QED BY <1>1, <1>2, <1>3, <1>5, <1>6, <1>7 DEF Reactivated
<1> QED BY <1>8

\* What storing a whitelist for wl does, on the tables rules and rows and the
\* routes of which the request may have removed something.
Listed(rules, rows, routes, wl, S, fresh) ==
  /\ S \in OnePerNet(rules, Candidates(rules, wl))
  /\ wl \in Net /\ whitelist' \in [Net -> Times \cup {NoWhitelist}]
  /\ \A w \in Net : whitelist'[w] = NoWhitelist <=> whitelist[w] = NoWhitelist /\ w # wl
  /\ Evaluates(rules, rows, S \X {wl}, fresh)
  /\ bgp' = (routes \ NetsOf(rules, Covered(rules, S, wl)))
              \cup PartNets(rules, S \X {wl})
  /\ UNCHANGED <<now, call>>

\* The tables rules and rows are those of the state, some rules removed.
Reduced(rules, rows) ==
  /\ rules \in Rules /\ rows \in [Rows -> Nat]
  /\ \A i \in Ids : rules[i] \in {rtbh[i], NoRule}
  /\ \A row \in Rows : rows[row] \in {cache[row], 0}

LEMMA SaveWhitelistEvaluates ==
  ASSUME TypeOK, NEW rules, NEW rows, Reduced(rules, rows),
         NEW routes, NEW wl \in Net, NEW expires \in Times,
         SaveWhitelist(rules, rows, routes, wl, expires)
  PROVE  \E S, fresh : Listed(rules, rows, routes, wl, S, fresh)
<1>0. PICK S \in OnePerNet(rules, Candidates(rules, wl)) :
        \E fresh \in NewIds(rules, S \X {wl}, FreeIds) :
          SavedFor(rules, rows, routes, wl, expires, S, fresh)
  BY DEF SaveWhitelist, SavedFor
<1>1. PICK fresh \in NewIds(rules, S \X {wl}, FreeIds) :
        SavedFor(rules, rows, routes, wl, expires, S, fresh)
  BY <1>0
<1>2. S \subseteq Candidates(rules, wl)
  BY DEF OnePerNet
<1>3. Matches(rules, S \X {wl})
  BY <1>2 DEF Matches, Candidates
<1>4. fresh \in NewIds(rules, S \X {wl}, Ids) /\ Unused(rules, rows, fresh)
  <2>1. /\ fresh \in NewIds(rules, S \X {wl}, Ids)
        /\ \A p \in DOMAIN fresh : fresh[p] \in FreeIds
        /\ Unused(rtbh, cache, fresh)
    BY FreshIsUnused DEF Reduced
  <2>2. \A p \in DOMAIN fresh : fresh[p] \in Ids
    BY <2>1 DEF FreeIds
  <2> QED BY <2>1, <2>2 DEF Unused, Reduced
<1>5. Evaluates(rules, rows, S \X {wl}, fresh)
  BY <1>1, <1>3, <1>4 DEF Evaluates, SavedFor, Reduced
<1>6. /\ whitelist' \in [Net -> Times \cup {NoWhitelist}]
      /\ \A w \in Net : whitelist'[w] = NoWhitelist <=> whitelist[w] = NoWhitelist /\ w # wl
  BY <1>1, NoValueAssumption DEF SavedFor, TypeOK
<1>7. Listed(rules, rows, routes, wl, S, fresh)
  BY <1>1, <1>5, <1>6 DEF Listed, SavedFor
<1> QED BY <1>7

(***************************************************************************)
(* What an evaluation does to one rule: it is a new part, or it is         *)
(* whitelisted, or it is left alone.                                       *)
(***************************************************************************)

IsPart(rules, E, fresh, i, p) ==
  /\ p \in PartsOf(rules, E) /\ fresh[p] = i
  /\ rtbh'[i] = [net |-> p[3], community |-> rules[p[1]].community,
                 rstate |-> Active, expires |-> rules[p[1]].expires,
                 origin |-> WHITELIST]

IsWhitelisted(rules, E, i) ==
  /\ i \in Used(rules) /\ \E w \in Net : <<i, w>> \in E
  /\ rtbh'[i] = [rules[i] EXCEPT !.rstate = Whitelisted]

IsKept(rules, E, i) ==
  (\A w \in Net : <<i, w>> \notin E) /\ rtbh'[i] = rules[i]

LEMMA EvaluatedShape ==
  ASSUME NEW rules, NEW rows, NEW E, NEW fresh, Evaluates(rules, rows, E, fresh),
         NEW i \in Ids
  PROVE  \/ rules[i] = NoRule /\ \E p \in PartsOf(rules, E) : IsPart(rules, E, fresh, i, p)
         \/ IsWhitelisted(rules, E, i)
         \/ IsKept(rules, E, i)
<1>0. DOMAIN fresh = PartsOf(rules, E)
  BY DEF Evaluates, NewIds
<1>1. CASE \E p \in PartsOf(rules, E) : fresh[p] = i
  <2> DEFINE p == CHOOSE q \in PartsOf(rules, E) : fresh[q] = i
  <2>1. p \in PartsOf(rules, E) /\ fresh[p] = i
    BY <1>1
  <2>2. rtbh'[i] =
          [net |-> p[3], community |-> rules[p[1]].community, rstate |-> Active,
           expires |-> rules[p[1]].expires, origin |-> WHITELIST]
    BY <1>0, <1>1 DEF Evaluates, EvaluatedRules
  <2>3. rules[i] = NoRule
    BY <1>0, <1>1 DEF Evaluates, Unused
  <2> HIDE DEF p
  <2> QED BY <2>1, <2>2, <2>3 DEF IsPart
<1>2. CASE ~ (\E p \in PartsOf(rules, E) : fresh[p] = i) /\ \E w \in Net : <<i, w>> \in E
  BY <1>0, <1>2 DEF Evaluates, EvaluatedRules, Matches, IsWhitelisted
<1>3. CASE ~ (\E p \in PartsOf(rules, E) : fresh[p] = i) /\ ~ \E w \in Net : <<i, w>> \in E
  BY <1>0, <1>3 DEF Evaluates, EvaluatedRules, IsKept
<1> QED BY <1>1, <1>2, <1>3

\* A part has one id.
LEMMA OnePart ==
  ASSUME NEW rules, NEW rows, NEW E, NEW fresh, Evaluates(rules, rows, E, fresh),
         NEW p \in PartsOf(rules, E), NEW q \in PartsOf(rules, E), fresh[p] = fresh[q]
  PROVE  p = q
BY DEF Evaluates, NewIds

\* Every part is a rule, under the id it was given.
LEMMA PartsAreRules ==
  ASSUME NEW rules, NEW rows, NEW E, NEW fresh, Evaluates(rules, rows, E, fresh),
         NEW p \in PartsOf(rules, E)
  PROVE  fresh[p] \in Ids /\ IsPart(rules, E, fresh, fresh[p], p)
<1> DEFINE q == CHOOSE r \in PartsOf(rules, E) : fresh[r] = fresh[p]
<1>1. DOMAIN fresh = PartsOf(rules, E) /\ fresh[p] \in Ids
  BY DEF Evaluates, NewIds
<1>2. q \in PartsOf(rules, E) /\ fresh[q] = fresh[p]
  OBVIOUS
<1>3. q = p
  <2> HIDE DEF q
  <2> QED BY <1>2, OnePart
<1>4. rtbh'[fresh[p]] =
        [net |-> q[3], community |-> rules[q[1]].community, rstate |-> Active,
         expires |-> rules[q[1]].expires, origin |-> WHITELIST]
  BY <1>1 DEF Evaluates, EvaluatedRules
<1> HIDE DEF q
<1> QED BY <1>1, <1>3, <1>4 DEF IsPart

\* Every other rule was there before.
LEMMA OthersWereRules ==
  ASSUME NEW rules, NEW rows, NEW E, NEW fresh, Evaluates(rules, rows, E, fresh),
         NEW i \in Used(rtbh'), \A p \in PartsOf(rules, E) : fresh[p] # i
  PROVE  i \in Used(rules)
<1>1. i \in Ids /\ rtbh'[i] # NoRule
  BY DEF Used
<1>2. ~ \E p \in PartsOf(rules, E) : IsPart(rules, E, fresh, i, p)
  BY DEF IsPart
<1>3. IsWhitelisted(rules, E, i) \/ IsKept(rules, E, i)
  BY <1>1, <1>2, EvaluatedShape
<1> QED BY <1>1, <1>3 DEF Used, IsWhitelisted, IsKept

\* The rules that exist after an evaluation: the parts and those before.
LEMMA UsedAfter ==
  ASSUME NEW rules, NEW rows, NEW E, NEW fresh, Evaluates(rules, rows, E, fresh),
         NEW i \in Used(rules)
  PROVE  /\ i \in Used(rtbh') /\ rtbh'[i].net = rules[i].net
         /\ rtbh'[i].community = rules[i].community
         /\ rtbh'[i].origin = rules[i].origin
         /\ rtbh'[i].rstate \in {rules[i].rstate, Whitelisted}
         /\ (\E w \in Net : <<i, w>> \in E) => rtbh'[i].rstate = Whitelisted
<1>1. i \in Ids /\ rules[i] # NoRule /\ rules[i] \in Rule
  BY DEF Used, Evaluates, Rules
<1>2. [rules[i] EXCEPT !.rstate = Whitelisted] \in Rule
  BY <1>1 DEF Rule
<1>3. CASE IsKept(rules, E, i)
  BY <1>1, <1>3 DEF Used, IsKept
<1>4. CASE IsWhitelisted(rules, E, i)
  BY <1>1, <1>2, <1>4, NoValueAssumption DEF Used, Rule, IsWhitelisted
<1> QED BY <1>1, <1>3, <1>4, EvaluatedShape

(***************************************************************************)
(* The cache: rows fit their rules, name the rules' origin, and refer to   *)
(* whitelists that exist.                                                  *)
(***************************************************************************)

\* A row of a rule that exists joins it to a whitelist it overlaps, or is
\* the row of a part and joins it to the whitelist it avoids.
Fit(rules, rows) ==
  \A row \in Rows : rows[row] > 0 /\ rules[row[1]] # NoRule /\ row[2] # NoWhitelist =>
    \/ /\ row[3] = USER
       /\ Relation(rules[row[1]].net, row[2]) # "DIFFERENT"
    \/ /\ row[3] = WHITELIST
       /\ rules[row[1]].origin = WHITELIST
       /\ rules[row[1]].net \cap row[2] = {}

LEMMA EvaluationFits ==
  ASSUME NEW rules, NEW rows, NEW E, NEW fresh, Evaluates(rules, rows, E, fresh),
         Fit(rules, rows)
  PROVE  Fit(rtbh', cache')
<1> SUFFICES ASSUME NEW row \in Rows, cache'[row] > 0, rtbh'[row[1]] # NoRule,
                    row[2] # NoWhitelist
             PROVE  \/ /\ row[3] = USER
                       /\ Relation(rtbh'[row[1]].net, row[2]) # "DIFFERENT"
                    \/ /\ row[3] = WHITELIST
                       /\ rtbh'[row[1]].origin = WHITELIST
                       /\ rtbh'[row[1]].net \cap row[2] = {}
  BY DEF Fit
<1>0. PICK i \in Ids : i = row[1]
  BY DEF Rows
<1>1. rows[row] \in Nat
  BY DEF Evaluates
<1>2. CASE rows[row] > 0
  <2>1. DOMAIN fresh = PartsOf(rules, E)
    BY DEF Evaluates, NewIds
  <2>2. i \in Used(rules)
    <3>1. \A p \in PartsOf(rules, E) : fresh[p] # i
      BY <1>2, <1>0, <1>1, <2>1 DEF Evaluates, Unused
    <3>2. i \in Used(rtbh')
      BY <1>0 DEF Used
    <3> QED BY <3>1, <3>2, OthersWereRules
  <2>3. rtbh'[i].net = rules[i].net /\ rtbh'[i].origin = rules[i].origin
    BY <2>2, UsedAfter
  <2> QED BY <1>0, <1>2, <2>2, <2>3 DEF Fit, Used
<1>3. CASE row[3] = USER /\ <<i, row[2]>> \in E
  <2> DEFINE m == <<i, row[2]>>
  <2>1. m \in E /\ m[1] = i /\ m[2] = row[2]
    BY <1>3
  <2>2. Relation(rules[i].net, row[2]) # "DIFFERENT" /\ i \in Used(rules)
    <3> HIDE DEF m
    <3> QED BY <2>1 DEF Evaluates, Matches
  <2>3. rtbh'[i].net = rules[i].net
    BY <2>2, UsedAfter
  <2> QED BY <1>0, <1>3, <2>2, <2>3
<1>4. CASE row[3] = WHITELIST /\ \E p \in DOMAIN fresh : p[2] = row[2] /\ fresh[p] = i
  <2>1. DOMAIN fresh = PartsOf(rules, E)
    BY DEF Evaluates, NewIds
  <2>2. PICK p \in PartsOf(rules, E) : p[2] = row[2] /\ fresh[p] = i
    BY <1>4, <2>1
  <2>4. IsPart(rules, E, fresh, fresh[p], p)
    BY PartsAreRules
  <2>6. p[3] \cap p[2] = {}
    BY PartShape DEF Evaluates, Matches
  <2> QED BY <1>0, <1>4, <2>2, <2>4, <2>6 DEF IsPart
<1> QED
  <2>1. cache'[row] = IF \/ row[3] = USER /\ <<row[1], row[2]>> \in E
                         \/ /\ row[3] = WHITELIST
                            /\ \E p \in DOMAIN fresh : p[2] = row[2] /\ fresh[p] = row[1]
                      THEN rows[row] + 1 ELSE rows[row]
    BY DEF Evaluates, EvaluatedCache
  <2> QED BY <1>0, <1>2, <1>3, <1>4, <2>1

\* An evaluation adds rows of its whitelists only.
LEMMA EvaluationRows ==
  ASSUME NEW rules, NEW rows, NEW E, NEW fresh, Evaluates(rules, rows, E, fresh),
         NEW row \in Rows, cache'[row] > 0
  PROVE  rows[row] > 0 \/ \E m \in E : m[2] = row[2]
<1>1. CASE row[3] = USER /\ <<row[1], row[2]>> \in E
  BY <1>1
<1>2. CASE row[3] = WHITELIST /\ \E p \in DOMAIN fresh : p[2] = row[2] /\ fresh[p] = row[1]
  <2>1. PICK p \in PartsOf(rules, E) : p[2] = row[2]
    BY <1>2 DEF Evaluates, NewIds
  <2>2. PICK m \in E : p \in {<<m[1], m[2], n>> : n \in SubtractNetwork(rules[m[1]].net, m[2])}
    BY DEF PartsOf
  <2>3. p[2] = m[2]
    BY <2>2
  <2> QED BY <2>1, <2>3
<1>3. CASE ~ (\/ row[3] = USER /\ <<row[1], row[2]>> \in E
              \/ /\ row[3] = WHITELIST
                 /\ \E p \in DOMAIN fresh : p[2] = row[2] /\ fresh[p] = row[1])
  BY <1>3 DEF Evaluates, EvaluatedCache
<1> QED BY <1>1, <1>2, <1>3

(***************************************************************************)
(* The tables rules and rows come from those of the state: rules were      *)
(* removed or given another time and state, rows were removed, and the one *)
(* rule that is new is a user's, on an id no row carries.                  *)
(***************************************************************************)

SameRule(rule, i) ==
  /\ rtbh[i] # NoRule
  /\ rule.net = rtbh[i].net /\ rule.community = rtbh[i].community
  /\ rule.origin = rtbh[i].origin
  /\ rule.rstate = Whitelisted => rtbh[i].rstate = Whitelisted

NewRule(rule, rows, i) ==
  /\ i \in FreeIds
  /\ rule.origin = USER /\ rule.rstate # Whitelisted
  /\ \A row \in Rows : row[1] = i => rows[row] = 0

HasPartRow(rows, i) == \E w \in Net : rows[<<i, w, WHITELIST>>] > 0

From(rules, rows) ==
  /\ \A i \in Used(rules) : SameRule(rules[i], i) \/ NewRule(rules[i], rows, i)
  /\ \A row \in Rows : row[2] # NoWhitelist => rows[row] \in {cache[row], 0}

\* Rules that stay keep their rows.
KeepsRows(rules, rows) ==
  \A row \in Rows : row[1] \in Used(rules) => rows[row] = cache[row]

\* What excuses a part from having a row.
Excused(i) == i \in strayed \/ (call.pc = "rows" /\ i \in call.drop)

\* A step evaluates matches on such tables, or leaves such tables.
EvaluationStep ==
  /\ \E rules, rows, E, fresh :
       /\ From(rules, rows) /\ KeepsRows(rules, rows) /\ Evaluates(rules, rows, E, fresh)
       /\ \A row \in Rows : rows[row] > 0 => cache[row] > 0
       /\ \A m \in E : whitelist'[m[2]] # NoWhitelist
  /\ \A w \in Net : whitelist[w] # NoWhitelist => whitelist'[w] # NoWhitelist
  /\ UNCHANGED call

OtherStep ==
  /\ From(rtbh', cache')
  /\ strayed \subseteq strayed'
  /\ \A row \in Rows : cache'[row] > 0 /\ row[2] = NoWhitelist
                         => cache[row] > 0 \/ row[1] \in strayed'
  /\ \A row \in Rows :
       cache'[row] > 0 /\ row[2] # NoWhitelist /\ whitelist[row[2]] # NoWhitelist
         => whitelist'[row[2]] # NoWhitelist
  /\ \A w \in Net : whitelist[w] = NoWhitelist => whitelist'[w] = NoWhitelist
  /\ \A i \in Used(rtbh') : rtbh'[i].origin = WHITELIST /\ (HasPartRow(cache, i) \/ Excused(i))
                               => HasPartRow(cache', i) \/ Excused(i)'

\* What a request does to the running call, and notes of what it does.
CallKept ==
  /\ call'.pc = call.pc /\ call'.wl = call.wl /\ call'.wls \subseteq call.wls
  /\ call'.ids = call.ids /\ call'.drop = call.drop /\ call'.routes = call.routes

Noted ==
  \/ NoteHistory
  \/ /\ UNCHANGED <<rtbh, cache, strayed>>
     /\ disturbed \subseteq disturbed' /\ bgp \ bgp' \subseteq disturbed'

\* Only the deletion of a whitelist takes rows of rules that stay.
RowsKept == KeepsRows(rtbh', cache') \/ \E w \in Net : DeleteWhitelist(w)

PlainStep == OtherStep /\ CallKept /\ Noted /\ RowsKept

LEMMA CreatedTables ==
  ASSUME TypeOK, NEW i, NEW rule, NEW E, NEW fresh, Created(i, rule, E, fresh)
  PROVE  /\ From([rtbh EXCEPT ![i] = rule], cache)
         /\ KeepsRows([rtbh EXCEPT ![i] = rule], cache)
<1> DEFINE rules == [rtbh EXCEPT ![i] = rule]
<1>1. ASSUME NEW j \in Used(rules)
      PROVE  SameRule(rules[j], j) \/ NewRule(rules[j], cache, j)
  <2>1. CASE j = i
    BY <2>1 DEF Created, SameRule, NewRule, FreeIds, TypeOK
  <2>2. CASE j # i
    <3>1. rules[j] = rtbh[j] /\ rtbh[j] # NoRule
      BY <2>2, <1>1 DEF Used, TypeOK
    <3> QED BY <3>1 DEF SameRule
  <2> QED BY <2>1, <2>2
<1>2. From(rules, cache)
  <2> HIDE DEF rules
  <2> QED BY <1>1 DEF From
<1>3. KeepsRows(rules, cache)
  BY DEF KeepsRows
<1> QED BY <1>2, <1>3

LEMMA CreatedFrom ==
  ASSUME TypeOK, NEW i, NEW rule, NEW E, NEW fresh, Created(i, rule, E, fresh)
  PROVE  EvaluationStep
<1> DEFINE rules == [rtbh EXCEPT ![i] = rule]
<1>1. From(rules, cache) /\ KeepsRows(rules, cache)
  BY CreatedTables
<1>2. Evaluates(rules, cache, E, fresh)
  BY DEF Created
<1>3. \A m \in E : whitelist'[m[2]] # NoWhitelist
  BY DEF Created, LiveWhitelists
<1>4. /\ \A w \in Net : whitelist[w] # NoWhitelist => whitelist'[w] # NoWhitelist
      /\ UNCHANGED call
  BY DEF Created
<1> HIDE DEF rules
<1> QED BY <1>1, <1>2, <1>3, <1>4 DEF EvaluationStep

LEMMA ReactivatedTables ==
  ASSUME TypeOK, NEW i, NEW rule, NEW E, NEW fresh, Reactivated(i, rule, E, fresh)
  PROVE  /\ From([rtbh EXCEPT ![i] = rule], cache)
         /\ KeepsRows([rtbh EXCEPT ![i] = rule], cache)
<1> DEFINE rules == [rtbh EXCEPT ![i] = rule]
<1>1. ASSUME NEW j \in Used(rules)
      PROVE  SameRule(rules[j], j)
  <2>1. CASE j = i
    BY <2>1 DEF Reactivated, SameRule, TypeOK
  <2>2. CASE j # i
    <3>1. rules[j] = rtbh[j] /\ rtbh[j] # NoRule
      BY <2>2, <1>1 DEF Used, TypeOK
    <3> QED BY <3>1 DEF SameRule
  <2> QED BY <2>1, <2>2
<1>2. From(rules, cache)
  <2> HIDE DEF rules
  <2> QED BY <1>1 DEF From
<1>3. KeepsRows(rules, cache)
  BY DEF KeepsRows
<1> QED BY <1>2, <1>3

LEMMA ReactivatedFrom ==
  ASSUME TypeOK, NEW i, NEW rule, NEW E, NEW fresh, Reactivated(i, rule, E, fresh)
  PROVE  EvaluationStep
<1> DEFINE rules == [rtbh EXCEPT ![i] = rule]
<1>1. From(rules, cache) /\ KeepsRows(rules, cache)
  BY ReactivatedTables
<1>2. Evaluates(rules, cache, E, fresh)
  BY DEF Reactivated
<1>3. \A m \in E : whitelist'[m[2]] # NoWhitelist
  BY DEF Reactivated, LiveWhitelists
<1>4. /\ \A w \in Net : whitelist[w] # NoWhitelist => whitelist'[w] # NoWhitelist
      /\ UNCHANGED call
  BY DEF Reactivated
<1> HIDE DEF rules
<1> QED BY <1>1, <1>2, <1>3, <1>4 DEF EvaluationStep

LEMMA ListedFrom ==
  ASSUME TypeOK, NEW rules, NEW rows, NEW routes, NEW wl, NEW S, NEW fresh,
         From(rules, rows), KeepsRows(rules, rows), Reduced(rules, rows),
         Listed(rules, rows, routes, wl, S, fresh)
  PROVE  EvaluationStep
<1>1. \A m \in S \X {wl} : whitelist'[m[2]] # NoWhitelist
  BY DEF Listed
<1>2. /\ \A w \in Net : whitelist[w] # NoWhitelist => whitelist'[w] # NoWhitelist
      /\ UNCHANGED call
  BY DEF Listed
<1>3. Evaluates(rules, rows, S \X {wl}, fresh)
  BY DEF Listed
<1>4. \A row \in Rows : rows[row] > 0 => cache[row] > 0
  BY DEF Reduced
<1> QED BY <1>1, <1>2, <1>3, <1>4 DEF EvaluationStep

\* Deleting the rules ids, with the rows of ids or with none.
LEMMA RemovedFrom ==
  ASSUME TypeOK, NEW ids
  PROVE  /\ From(RulesWithout(rtbh, ids), cache)
         /\ KeepsRows(RulesWithout(rtbh, ids), cache)
         /\ From(RulesWithout(rtbh, ids), CacheWithoutRules(cache, ids))
         /\ KeepsRows(RulesWithout(rtbh, ids), CacheWithoutRules(cache, ids))
<1> DEFINE rules == RulesWithout(rtbh, ids)
           rows == CacheWithoutRules(cache, ids)
<1>1. \A i \in Used(rules) : i \in Ids /\ i \notin ids /\ SameRule(rules[i], i)
  BY DEF RulesWithout, Used, SameRule
<1>2. From(rules, cache) /\ KeepsRows(rules, cache)
  <2> HIDE DEF rules
  <2> QED BY <1>1 DEF From, KeepsRows
<1>3. \A row \in Rows : rows[row] = IF row[1] \in ids THEN 0 ELSE cache[row]
  BY DEF CacheWithoutRules
<1>4. From(rules, rows) /\ KeepsRows(rules, rows)
  <2> HIDE DEF rules, rows
  <2> QED BY <1>1, <1>3 DEF From, KeepsRows
<1> QED BY <1>2, <1>4

\* Rules get another time, or a state that is not "whitelisted".
LEMMA UpdatedFrom ==
  ASSUME cache' = cache, Used(rtbh') = Used(rtbh),
         \A i \in Used(rtbh) : SameRule(rtbh'[i], i)
  PROVE  From(rtbh', cache') /\ KeepsRows(rtbh', cache')
BY DEF From, KeepsRows

\* A step that keeps the rows of the rules that stay, and the call.
LEMMA KeptIsOther ==
  ASSUME From(rtbh', cache'), KeepsRows(rtbh', cache'),
         \A row \in Rows : cache'[row] > 0 => cache[row] > 0,
         strayed \subseteq strayed', UNCHANGED whitelist,
         call'.pc = call.pc, call'.drop = call.drop
  PROVE  OtherStep
<1>1. ASSUME NEW i \in Used(rtbh'), HasPartRow(cache, i)
      PROVE  HasPartRow(cache', i)
  <2>1. PICK w \in Net : cache[<<i, w, WHITELIST>>] > 0
    BY <1>1 DEF HasPartRow
  <2> DEFINE row == <<i, w, WHITELIST>>
  <2>2. row \in Rows /\ row[1] = i
    BY DEF Used, Rows
  <2>3. cache'[row] = cache[row]
    <3> HIDE DEF row
    <3> QED BY <2>2 DEF KeepsRows
  <2> QED BY <2>1, <2>3 DEF HasPartRow
<1> QED BY <1>1 DEF OtherStep, Excused

\* Deleting a whitelist.
LEMMA DeleteWhitelistFrom ==
  ASSUME TypeOK, NEW wl \in Net, DeleteWhitelist(wl)
  PROVE  OtherStep
<1>0. /\ DeleteWhitelistEffect(wl) /\ call'.pc = call.pc /\ call'.drop = call.drop
      /\ strayed \subseteq strayed'
  BY DEF DeleteWhitelist, DeleteWhitelistEffect, NoteHistory, TypeOK
<1>1. ASSUME NEW i \in Used(rtbh')
      PROVE  i \in Used(rtbh) /\ i \notin CreatedBy(wl) /\ SameRule(rtbh'[i], i)
  <2>1. i \in Ids /\ rtbh'[i] # NoRule
    BY DEF Used
  <2>2. rtbh'[i] = IF i \in CreatedBy(wl) THEN NoRule
                   ELSE IF i \in RestoredBy(wl)
                   THEN [rtbh[i] EXCEPT !.rstate = Active] ELSE rtbh[i]
    BY <1>0, <2>1 DEF DeleteWhitelistEffect
  <2>3. CASE i \in RestoredBy(wl)
    <3>1. i \in Used(rtbh) /\ rtbh[i] # NoRule /\ rtbh[i] \in Rule
      BY <2>3 DEF RestoredBy, Used, TypeOK
    <3>2. rtbh'[i] = [rtbh[i] EXCEPT !.rstate = Active]
      BY <2>1, <2>2, <2>3
    <3> QED BY <2>1, <2>2, <3>1, <3>2 DEF SameRule, Rule, Active, Whitelisted
  <2>4. CASE i \notin RestoredBy(wl)
    BY <2>1, <2>2, <2>4 DEF SameRule, Used
  <2> QED BY <2>3, <2>4
<1>2. \A row \in Rows : cache'[row] = IF row[2] = wl THEN 0 ELSE cache[row]
  BY <1>0 DEF DeleteWhitelistEffect
<1>3. ASSUME NEW i \in Used(rtbh'), HasPartRow(cache, i)
      PROVE  HasPartRow(cache', i)
  <2>1. PICK w \in Net : cache[<<i, w, WHITELIST>>] > 0
    BY <1>3 DEF HasPartRow
  <2>2. w # wl
    BY <1>1, <1>3, <2>1 DEF CreatedBy
  <2>3. <<i, w, WHITELIST>> \in Rows
    BY <1>3 DEF Used, Rows
  <2>4. cache'[<<i, w, WHITELIST>>] = cache[<<i, w, WHITELIST>>]
    BY <1>2, <2>2, <2>3
  <2> QED BY <2>1, <2>4 DEF HasPartRow
<1>4. \A row \in Rows : cache'[row] \in {cache[row], 0}
  BY <1>2
<1>5. From(rtbh', cache')
  BY <1>1, <1>4 DEF From
<1>6. ASSUME NEW row \in Rows, cache'[row] > 0, row[2] # NoWhitelist,
             whitelist[row[2]] # NoWhitelist
      PROVE  whitelist'[row[2]] # NoWhitelist
  <2>1. row[2] # wl /\ row[2] \in Net
    BY <1>2, <1>6 DEF Rows
  <2> QED BY <1>0, <1>6, <2>1 DEF DeleteWhitelistEffect, TypeOK
<1>7. ASSUME NEW w \in Net, whitelist[w] = NoWhitelist
      PROVE  whitelist'[w] = NoWhitelist
  BY <1>0, <1>7 DEF DeleteWhitelistEffect, TypeOK
<1>8. \A row \in Rows : cache'[row] > 0 => cache[row] > 0
  BY <1>4
<1> QED BY <1>0, <1>3, <1>5, <1>6, <1>7, <1>8 DEF OtherStep, Excused

\* The evaluations, with what each does to the routes.
CreatedStep == \E i, rule, E, fresh : Created(i, rule, E, fresh)

ReactivatedStep == \E i, rule, E, fresh : Reactivated(i, rule, E, fresh)

ListedStep ==
  \E rules, rows, routes, wl, S, fresh :
    /\ From(rules, rows) /\ KeepsRows(rules, rows) /\ Reduced(rules, rows)
    /\ Listed(rules, rows, routes, wl, S, fresh)

\* A request, or the clock, is one of these or evaluates nothing.
LEMMA RequestForms ==
  ASSUME TypeOK, RuleRequest \/ WhitelistRequest \/ Tick \/ UNCHANGED vars
  PROVE  CreatedStep \/ ReactivatedStep \/ ListedStep \/ PlainStep
<1>t. rtbh \in Rules /\ cache \in [Rows -> Nat]
  BY DEF TypeOK, Rules
<1>p. ASSUME From(rtbh', cache'), KeepsRows(rtbh', cache'),
             \A row \in Rows : cache'[row] > 0 => cache[row] > 0,
             UNCHANGED <<whitelist, call>>, Noted
      PROVE  PlainStep
  <2>1. strayed \subseteq strayed'
    BY <1>p DEF Noted, NoteHistory
  <2>2. CallKept
    BY <1>p DEF CallKept
  <2>3. OtherStep
    BY <1>p, <2>1, <2>2, KeptIsOther DEF CallKept
  <2> QED BY <1>p, <2>2, <2>3 DEF PlainStep, RowsKept
<1>u. ASSUME UNCHANGED <<rtbh, whitelist, cache, call, strayed>>,
             disturbed \subseteq disturbed', bgp \ bgp' \subseteq disturbed'
      PROVE  PlainStep
  <2>1. Used(rtbh') = Used(rtbh) /\ Noted
    BY <1>u DEF Noted
  <2>2. From(rtbh', cache') /\ KeepsRows(rtbh', cache')
    BY <1>u, <2>1, UpdatedFrom DEF SameRule, Used
  <2> QED BY <1>u, <1>p, <2>1, <2>2
<1>d. ASSUME NEW ids, rtbh' = RulesWithout(rtbh, ids),
             cache' = cache \/ cache' = CacheWithoutRules(cache, ids),
             UNCHANGED <<whitelist, call>>, NoteHistory
      PROVE  PlainStep
  <2>1. From(rtbh', cache') /\ KeepsRows(rtbh', cache')
    BY <1>d, RemovedFrom
  <2>2. \A row \in Rows : cache'[row] > 0 => cache[row] > 0
    BY <1>d DEF CacheWithoutRules
  <2> QED BY <1>d, <1>p, <2>1, <2>2 DEF Noted
<1>1. ASSUME NEW n \in RuleNets, NEW c \in Community, NEW e \in Times,
             CreateOrUpdateRtbh(n, c, e)
      PROVE  CreatedStep
  BY <1>1, CreateEvaluates DEF CreatedStep
<1>2. ASSUME NEW i \in Ids, NEW e \in Times, ReactivateRtbh(i, e)
      PROVE  ReactivatedStep
  BY <1>2, ReactivateEvaluates DEF ReactivatedStep
<1>3. ASSUME NEW i \in Ids, DeleteRule(i)
      PROVE  PlainStep
  BY <1>3, <1>d DEF DeleteRule
<1>4. ASSUME NEW i \in Ids, ApiDeleteRule(i)
      PROVE  PlainStep
  BY <1>4, <1>d DEF ApiDeleteRule
<1>5. ASSUME NEW ids \in SUBSET Ids, GroupDelete(ids)
      PROVE  PlainStep
  BY <1>5, <1>d DEF GroupDelete
<1>6. ASSUME NEW ids \in SUBSET Ids, GroupDeleteAborted(ids)
      PROVE  PlainStep
  BY <1>6, <1>u DEF GroupDeleteAborted
<1>7. ASSUME NEW ids \in SUBSET Ids, NEW e \in Times, GroupUpdateSave(ids, e)
      PROVE  PlainStep
  <2>1. StateByTime(e) # Whitelisted
    BY DEF StateByTime, Active, Withdrawn, Whitelisted
  <2>2. \A i \in Ids : rtbh'[i] = IF i \in ids
                                  THEN [rtbh[i] EXCEPT !.expires = e, !.rstate = StateByTime(e)]
                                  ELSE rtbh[i]
    BY <1>7 DEF GroupUpdateSave
  <2>3. Used(rtbh') = Used(rtbh)
    <3>1. ASSUME NEW i \in ids PROVE rtbh'[i] # NoRule /\ rtbh[i] # NoRule
      <4>1. i \in Ids /\ rtbh[i] # NoRule /\ rtbh[i] \in Rule
        BY <1>7, <3>1 DEF GroupUpdateSave, Used, TypeOK
      <4>2. [rtbh[i] EXCEPT !.expires = e, !.rstate = StateByTime(e)] \in Rule
        BY <4>1, StateByTimeType DEF Rule
      <4> QED BY <2>2, <4>1, <4>2, NoValueAssumption
    <3> QED BY <2>2, <3>1 DEF Used
  <2>4. \A i \in Used(rtbh) : SameRule(rtbh'[i], i)
    BY <2>1, <2>2 DEF Used, TypeOK, Rule, SameRule
  <2>5. From(rtbh', cache') /\ KeepsRows(rtbh', cache')
    BY <1>7, <2>3, <2>4, UpdatedFrom DEF GroupUpdateSave
  <2> QED BY <1>7, <1>p, <2>5 DEF GroupUpdateSave, Noted
<1>8. CASE AnnounceAll
  BY <1>8, <1>u DEF AnnounceAll
<1>9. ASSUME NEW w \in WhitelistNets, NEW e \in Times, CreateOrUpdateWhitelist(w, e)
      PROVE  ListedStep
  <2>1. w \in Net
    BY NetAssumption
  <2>2. Reduced(rtbh, cache)
    BY <1>t DEF Reduced
  <2>3. From(rtbh, cache) /\ KeepsRows(rtbh, cache)
    BY DEF From, KeepsRows, SameRule, Used
  <2> QED
    BY <1>9, <2>1, <2>2, <2>3, SaveWhitelistEvaluates DEF CreateOrUpdateWhitelist, ListedStep
<1>10. ASSUME NEW i \in Ids, NEW e \in Times, DeleteRtbhAndCreateWhitelist(i, e)
       PROVE  ListedStep
  <2> DEFINE rules == RulesWithout(rtbh, {i})
             rows == CacheWithoutRules(cache, {i})
             routes == bgp \ {rtbh[i].net}
             wl == rtbh[i].net
  <2>1. wl \in Net
    BY <1>10 DEF DeleteRtbhAndCreateWhitelist, TypeOK, Rule
  <2>2. Reduced(rules, rows)
    BY <1>t, RulesWithoutType, CacheType DEF Reduced, RulesWithout, CacheWithoutRules
  <2>3. From(rules, rows) /\ KeepsRows(rules, rows)
    BY RemovedFrom
  <2>4. SaveWhitelist(rules, rows, routes, wl, e)
    BY <1>10 DEF DeleteRtbhAndCreateWhitelist
  <2> HIDE DEF rules, rows, routes, wl
  <2> QED BY <2>1, <2>2, <2>3, <2>4, SaveWhitelistEvaluates DEF ListedStep
<1>11. ASSUME NEW w \in Net, DeleteWhitelist(w)
       PROVE  PlainStep
  <2>1. CallKept
    BY <1>11 DEF DeleteWhitelist, CallKept, TypeOK
  <2>2. Noted
    BY <1>11 DEF DeleteWhitelist, DeleteWhitelistEffect, Noted
  <2> QED BY <1>11, <2>1, <2>2, DeleteWhitelistFrom DEF PlainStep, RowsKept
<1>12. CASE Tick
  BY <1>12, <1>u DEF Tick
<1>13. CASE UNCHANGED vars
  BY <1>13, <1>u DEF vars
<1> QED
  BY <1>1, <1>2, <1>3, <1>4, <1>5, <1>6, <1>7, <1>8, <1>9, <1>10, <1>11, <1>12,
     <1>13 DEF RuleRequest, WhitelistRequest

\* Every request is one of the two.
LEMMA RequestFrom ==
  ASSUME TypeOK, RuleRequest \/ WhitelistRequest \/ Tick \/ UNCHANGED vars
  PROVE  EvaluationStep \/ PlainStep
BY RequestForms, CreatedFrom, ReactivatedFrom, ListedFrom
   DEF CreatedStep, ReactivatedStep, ListedStep

(***************************************************************************)
(* The tables of every reachable state, and what the running call may rely *)
(* on although requests write between its steps.                           *)
(***************************************************************************)

AllowedOnly(rules) ==
  \A i \in Used(rules) :
    rules[i].rstate = Whitelisted \/ rules[i].origin = WHITELIST =>
      rules[i].community \in AllowedCommunities

Tracked(rules, rows) ==
  \A i \in Used(rules) : rules[i].origin = WHITELIST => HasPartRow(rows, i) \/ Excused(i)

\* The ids left to clear are to be purged; what is to be purged was withdrawn
\* when it was read and is so still, unless a request wrote it since.
RowsCall ==
  call.pc = "rows" =>
    /\ call.ids \subseteq call.drop
    /\ \A i \in call.drop \cap Used(rtbh) : rtbh[i].rstate = Withdrawn \/ i \in strayed

\* What is to be deleted are parts, what is to be restored has no other row,
\* and no part of the whitelist was missed, unless a request added the row.
RestoreCall ==
  call.pc = "restore" =>
    /\ \A i \in call.drop \cap Used(rtbh) : rtbh[i].origin = WHITELIST
    /\ \A i \in call.ids \cap Used(rtbh), v \in Net :
         v # call.wl /\ cache[<<i, v, USER>>] > 0 => i \in strayed
    /\ call.wl \in call.wls =>
         \A i \in Used(rtbh) : cache[<<i, call.wl, WHITELIST>>] > 0
                                 => i \in call.drop \cup strayed

\* The rows of the whitelist were cleared, those it has were added since.
DropCall ==
  call.pc = "drop" /\ call.wl \in call.wls =>
    \A row \in Rows : row[2] = call.wl /\ cache[row] > 0 => row[1] \in strayed

CallTables ==
  /\ RowsCall /\ RestoreCall /\ DropCall
  /\ call.pc \in {"restore", "drop"} => call.wl \in Net

\* The inductive invariant of the tables.
TablesInv ==
  /\ TypeOK
  /\ Fit(rtbh, cache) /\ RowsHaveWhitelist
  /\ AllowedOnly(rtbh)
  /\ Tracked(rtbh, cache)
  /\ CallTables

\* Rules keep their network and origin, new ones have ids nobody refers to.
KeepsRules ==
  \A i \in Used(rtbh') :
    \/ i \in FreeIds
    \/ /\ i \in Used(rtbh)
       /\ rtbh'[i].net = rtbh[i].net /\ rtbh'[i].origin = rtbh[i].origin

LEMMA FromKeepsRules ==
  ASSUME From(rtbh', cache')
  PROVE  KeepsRules
BY DEF From, SameRule, NewRule, KeepsRules, Used

LEMMA EvaluationKeepsRules ==
  ASSUME NEW rules, NEW rows, NEW E, NEW fresh, From(rules, rows),
         Evaluates(rules, rows, E, fresh)
  PROVE  KeepsRules
<1> SUFFICES ASSUME NEW i \in Used(rtbh')
             PROVE  \/ i \in FreeIds
                    \/ /\ i \in Used(rtbh)
                       /\ rtbh'[i].net = rtbh[i].net /\ rtbh'[i].origin = rtbh[i].origin
  BY DEF KeepsRules
<1>1. CASE \E p \in PartsOf(rules, E) : fresh[p] = i
  <2>1. DOMAIN fresh = PartsOf(rules, E)
    BY DEF Evaluates, NewIds
  <2> QED BY <1>1, <2>1 DEF Evaluates, Unused
<1>2. CASE \A p \in PartsOf(rules, E) : fresh[p] # i
  <2>1. i \in Used(rules)
    BY <1>2, OthersWereRules
  <2>2. rtbh'[i].net = rules[i].net /\ rtbh'[i].origin = rules[i].origin
    BY <2>1, UsedAfter
  <2> QED BY <2>1, <2>2 DEF From, SameRule, NewRule, Used
<1> QED BY <1>1, <1>2

\* A request notes the rows it adds and the rules it writes behind the call.
LEMMA NotedRows ==
  ASSUME TypeOK, TypeOK', Noted, NEW row \in Rows, cache'[row] > 0
  PROVE  \/ cache[row] > 0
         \/ /\ call.pc \in {"restore", "drop"} /\ row[2] = call.wl /\ call.wl \in call.wls
                => row[1] \in strayed'
            /\ call.pc = "restore" /\ row[1] \in call.ids => row[1] \in strayed'
<1>1. cache[row] \in Nat /\ cache'[row] \in Nat /\ row[1] \in Ids
  BY DEF TypeOK, Rows
<1>2. cache[row] > 0 \/ cache'[row] > cache[row]
  BY <1>1
<1>3. CASE NoteHistory
  BY <1>1, <1>2, <1>3 DEF NoteHistory, AddedMeanwhile
<1>4. CASE UNCHANGED cache
  BY <1>4
<1> QED BY <1>3, <1>4 DEF Noted

LEMMA NotedRules ==
  ASSUME Noted, NEW i \in Ids, call.pc = "rows", i \in call.drop
  PROVE  rtbh'[i] \in {rtbh[i], NoRule} \/ i \in strayed'
BY DEF Noted, NoteHistory, RenewedMeanwhile

LEMMA RequestKeepsCall ==
  ASSUME TypeOK, TypeOK', CallTables, CallKept, Noted, KeepsRules, strayed \subseteq strayed'
  PROVE  CallTables'
<1>1. RowsCall'
  <2> SUFFICES ASSUME call.pc = "rows"
               PROVE  /\ call'.ids \subseteq call'.drop
                      /\ \A i \in call'.drop \cap Used(rtbh') :
                           rtbh'[i].rstate = Withdrawn \/ i \in strayed'
    BY DEF RowsCall, CallKept
  <2>1. call'.ids \subseteq call'.drop
    BY DEF CallTables, RowsCall, CallKept
  <2>2. ASSUME NEW i \in call.drop, i \in Used(rtbh')
        PROVE  rtbh'[i].rstate = Withdrawn \/ i \in strayed'
    <3>1. i \in Ids /\ rtbh'[i] # NoRule
      BY <2>2 DEF Used
    <3>2. CASE rtbh'[i] = rtbh[i]
      <4>1. i \in Used(rtbh)
        BY <3>1, <3>2 DEF Used
      <4> QED BY <2>2, <3>2, <4>1 DEF CallTables, RowsCall
    <3> QED BY <2>2, <3>1, <3>2, NotedRules
  <2> QED BY <2>1, <2>2 DEF CallKept
<1>2. ASSUME call.pc = "restore"
      PROVE  call.ids \cap FreeIds = {} /\ call.drop \cap FreeIds = {}
  BY <1>2 DEF FreeIds, Claimed
<1>3. RestoreCall'
  <2> SUFFICES ASSUME call.pc = "restore"
               PROVE  RestoreCall'
    BY DEF RestoreCall, CallKept
  <2>1. ASSUME NEW i \in call.drop \cap Used(rtbh')
        PROVE  rtbh'[i].origin = WHITELIST
    <3>1. i \in Used(rtbh) /\ rtbh'[i].origin = rtbh[i].origin
      BY <1>2, <2>1 DEF KeepsRules
    <3> QED BY <2>1, <3>1 DEF CallTables, RestoreCall
  <2>2. ASSUME NEW i \in call.ids \cap Used(rtbh'), NEW v \in Net, v # call.wl,
               cache'[<<i, v, USER>>] > 0
        PROVE  i \in strayed'
    <3> DEFINE row == <<i, v, USER>>
    <3>1. i \in Used(rtbh)
      BY <1>2, <2>2 DEF KeepsRules
    <3>2. row \in Rows /\ row[1] = i
      BY <3>1 DEF Rows, Used
    <3>3. CASE cache[row] > 0
      BY <2>2, <3>1, <3>3 DEF CallTables, RestoreCall
    <3>4. CASE ~ (cache[row] > 0)
      <4>1. cache'[row] > 0
        BY <2>2
      <4> HIDE DEF row
      <4> QED BY <2>2, <3>2, <3>4, <4>1, NotedRows
    <3> QED BY <3>3, <3>4
  <2>3. ASSUME call.wl \in call.wls, NEW i \in Used(rtbh'),
               cache'[<<i, call.wl, WHITELIST>>] > 0
        PROVE  i \in call.drop \cup strayed'
    <3> DEFINE row == <<i, call.wl, WHITELIST>>
    <3>1. row \in Rows /\ row[1] = i /\ row[2] = call.wl
      BY DEF Rows, Used, CallTables
    <3>2. CASE cache[row] > 0
      <4>1. i \notin FreeIds
        <5>1. \A r \in Rows : i \in FreeIds /\ r[1] = i => cache[r] = 0
          BY DEF FreeIds
        <5>2. cache[row] # 0
          BY <3>2
        <5> HIDE DEF row
        <5> QED BY <3>1, <5>1, <5>2
      <4>2. i \in Used(rtbh)
        BY <4>1 DEF KeepsRules
      <4> QED BY <2>3, <3>2, <4>2 DEF CallTables, RestoreCall
    <3>3. CASE ~ (cache[row] > 0)
      <4>1. cache'[row] > 0
        BY <2>3
      <4> HIDE DEF row
      <4> QED BY <2>3, <3>1, <3>3, <4>1, NotedRows
    <3> QED BY <3>2, <3>3
  <2>4. /\ call'.pc = "restore" /\ call'.wl = call.wl /\ call'.wls \subseteq call.wls
        /\ call'.ids = call.ids /\ call'.drop = call.drop
    BY DEF CallKept
  <2> QED BY <2>1, <2>2, <2>3, <2>4 DEF RestoreCall
<1>4. DropCall'
  <2> SUFFICES ASSUME call.pc = "drop", call.wl \in call.wls,
                      NEW row \in Rows, row[2] = call.wl, cache'[row] > 0
               PROVE  row[1] \in strayed'
    BY DEF DropCall, CallKept
  <2>1. CASE cache[row] > 0
    BY <2>1 DEF CallTables, DropCall
  <2>2. CASE ~ (cache[row] > 0)
    BY <2>2, NotedRows
  <2> QED BY <2>1, <2>2
<1> QED BY <1>1, <1>3, <1>4 DEF CallTables, CallKept

(***************************************************************************)
(* The steps of the call.                                                  *)
(***************************************************************************)

\* A step that writes no table.
LEMMA UntouchedIsOther ==
  ASSUME UNCHANGED <<rtbh, whitelist, cache, strayed>>, call.pc # "rows"
  PROVE  OtherStep
<1>1. From(rtbh', cache')
  BY UpdatedFrom DEF SameRule, Used
<1> QED BY <1>1 DEF OtherStep, Excused

\* The rows that are read show what to delete and what to restore.
LEMMA ReadKeepsCall ==
  ASSUME TablesInv, NEW listing \in CallType, NEW wl \in Net, ReadRows(listing, wl),
         UNCHANGED <<rtbh, cache, strayed>>
  PROVE  CallTables'
<1>1. /\ call'.pc = "restore" /\ call'.wl = wl
      /\ call'.ids \subseteq RestoredBy(wl) /\ call'.drop = CreatedBy(wl)
  BY DEF ReadRows, CallType
<1>2. ASSUME NEW i \in CreatedBy(wl)
      PROVE  rtbh[i].origin = WHITELIST
  <2> DEFINE row == <<i, wl, WHITELIST>>
  <2>1. row \in Rows /\ row[1] = i /\ row[2] = wl /\ row[3] = WHITELIST
    BY DEF Rows, CreatedBy, Used
  <2>2. cache[row] > 0 /\ rtbh[i] # NoRule
    BY DEF CreatedBy, Used
  <2>3. wl # NoWhitelist
    BY NoValueAssumption
  <2> HIDE DEF row
  <2> QED BY <2>1, <2>2, <2>3 DEF TablesInv, Fit, USER, WHITELIST
<1>3. ASSUME NEW i \in RestoredBy(wl), NEW v \in Net, v # wl
      PROVE  ~ (cache[<<i, v, USER>>] > 0)
  <2> SUFFICES ASSUME cache[<<i, v, USER>>] > 0 PROVE FALSE
    OBVIOUS
  <2>1. <<i, v, USER>> \in RowCount(i) /\ <<i, wl, USER>> \in RowCount(i)
    BY DEF RowCount, Rows, RestoredBy, Used
  <2>2. <<i, v, USER>> # <<i, wl, USER>>
    BY <1>3
  <2> QED BY <2>1, <2>2 DEF RestoredBy, SingleRow
<1>4. \A i \in Used(rtbh) : cache[<<i, wl, WHITELIST>>] > 0 => i \in CreatedBy(wl)
  BY DEF CreatedBy
<1>5. RestoreCall'
  BY <1>1, <1>2, <1>3, <1>4 DEF RestoreCall
<1> QED BY <1>1, <1>5 DEF CallTables, RowsCall, DropCall

\* The first commit takes all rows of the whitelist: the parts that lose
\* theirs are deleted with them.
LEMMA ClearFrom ==
  ASSUME TablesInv, ClearRows
  PROVE  OtherStep
<1>t. TypeOK /\ call \in CallType
  BY DEF TablesInv, TypeOK, CallType
<1>0. /\ call.pc = "restore" /\ call.ids \subseteq Used(rtbh)
      /\ strayed \subseteq strayed' /\ UNCHANGED whitelist
  BY DEF ClearRows, NoteHistory
<1>1. ASSUME NEW i \in Used(rtbh')
      PROVE  i \in Used(rtbh) /\ i \notin call.drop /\ SameRule(rtbh'[i], i)
  <2>1. i \in Ids /\ rtbh'[i] # NoRule
    BY DEF Used
  <2>2. rtbh'[i] = IF i \in call.drop THEN NoRule
                   ELSE IF i \in call.ids
                   THEN [rtbh[i] EXCEPT !.rstate = Active] ELSE rtbh[i]
    BY <2>1 DEF ClearRows
  <2>3. CASE i \in call.ids
    <3>1. i \in Used(rtbh) /\ rtbh[i] # NoRule /\ rtbh[i] \in Rule
      BY <1>0, <1>t, <2>3 DEF Used, TypeOK
    <3>2. rtbh'[i] = [rtbh[i] EXCEPT !.rstate = Active]
      BY <2>1, <2>2, <2>3
    <3> QED BY <2>1, <2>2, <3>1, <3>2 DEF SameRule, Rule, Active, Whitelisted
  <2>4. CASE i \notin call.ids
    BY <2>1, <2>2, <2>4 DEF SameRule, Used
  <2> QED BY <2>3, <2>4
<1>2. \A row \in Rows : cache'[row] = IF row[2] = call.wl /\ call.wl \in call.wls
                                      THEN 0 ELSE cache[row]
  BY DEF ClearRows
<1>3. \A row \in Rows : cache'[row] \in {cache[row], 0}
  BY <1>2
<1>4. From(rtbh', cache')
  BY <1>1, <1>3 DEF From
<1>5. ASSUME NEW i \in Used(rtbh'), HasPartRow(cache, i)
      PROVE  HasPartRow(cache', i) \/ i \in strayed'
  <2>1. PICK w \in Net : cache[<<i, w, WHITELIST>>] > 0
    BY <1>5 DEF HasPartRow
  <2>2. CASE w = call.wl /\ call.wl \in call.wls
    BY <1>0, <1>1, <2>1, <2>2 DEF TablesInv, CallTables, RestoreCall
  <2>3. CASE ~ (w = call.wl /\ call.wl \in call.wls)
    <3>1. <<i, w, WHITELIST>> \in Rows
      BY DEF Used, Rows
    <3>2. cache'[<<i, w, WHITELIST>>] = cache[<<i, w, WHITELIST>>]
      BY <1>2, <2>3, <3>1
    <3> QED BY <2>1, <3>2 DEF HasPartRow
  <2> QED BY <2>2, <2>3
<1>6. \A row \in Rows : cache'[row] > 0 => cache[row] > 0
  BY <1>3
<1> QED BY <1>0, <1>4, <1>5, <1>6 DEF OtherStep, Excused

\* The second commit: rows the whitelist has by then were added meanwhile.
LEMMA DropFrom ==
  ASSUME TablesInv, DropWhitelist
  PROVE  OtherStep
<1>t. TypeOK /\ call.wl \in Net
  BY DEF TablesInv, CallTables, DropWhitelist
<1>0. /\ call.pc = "drop" /\ call.wl \in call.wls
      /\ whitelist' = [whitelist EXCEPT ![call.wl] = NoWhitelist]
      /\ UNCHANGED <<rtbh, strayed>>
  BY DEF DropWhitelist
<1>1. \A row \in Rows : cache'[row] =
        IF row[2] = call.wl THEN 0
        ELSE IF row[2] = NoWhitelist THEN cache[row] + cache[<<row[1], call.wl, row[3]>>]
        ELSE cache[row]
  BY DEF DropWhitelist
<1>2. From(rtbh', cache')
  <2>1. \A row \in Rows : row[2] # NoWhitelist => cache'[row] \in {cache[row], 0}
    BY <1>1
  <2>2. \A i \in Used(rtbh') : SameRule(rtbh'[i], i)
    BY <1>0 DEF SameRule, Used
  <2> QED BY <2>1, <2>2 DEF From
<1>3. ASSUME NEW row \in Rows, row[2] = NoWhitelist, cache'[row] > 0
      PROVE  cache[row] > 0 \/ row[1] \in strayed'
  <2> DEFINE lost == <<row[1], call.wl, row[3]>>
  <2>1. lost \in Rows /\ lost[1] = row[1] /\ lost[2] = call.wl
    BY <1>t DEF Rows
  <2>2. row[2] # call.wl
    BY <1>t, <1>3, NoValueAssumption
  <2>3. cache'[row] = cache[row] + cache[lost]
    BY <1>1, <1>3, <2>2
  <2> HIDE DEF lost
  <2>4. cache[row] \in Nat /\ cache[lost] \in Nat
    BY <1>t, <2>1 DEF TypeOK
  <2>5. cache[lost] > 0 => row[1] \in strayed
    BY <1>0, <2>1 DEF TablesInv, CallTables, DropCall
  <2> QED BY <1>0, <1>3, <2>3, <2>4, <2>5
<1>4. ASSUME NEW row \in Rows, cache'[row] > 0, row[2] # NoWhitelist,
             whitelist[row[2]] # NoWhitelist
      PROVE  whitelist'[row[2]] # NoWhitelist
  <2>1. row[2] # call.wl /\ row[2] \in Net
    BY <1>1, <1>4 DEF Rows
  <2> QED BY <1>0, <1>4, <1>t, <2>1 DEF TypeOK
<1>5. \A w \in Net : whitelist[w] = NoWhitelist => whitelist'[w] = NoWhitelist
  BY <1>0, <1>t DEF TypeOK
<1>6. ASSUME NEW i \in Used(rtbh'), HasPartRow(cache, i)
      PROVE  HasPartRow(cache', i) \/ i \in strayed'
  <2>1. PICK w \in Net : cache[<<i, w, WHITELIST>>] > 0
    BY <1>6 DEF HasPartRow
  <2> DEFINE row == <<i, w, WHITELIST>>
  <2>2. row \in Rows /\ row[1] = i /\ row[2] = w
    BY DEF Used, Rows
  <2>3. CASE w = call.wl
    <3>1. cache[row] > 0
      BY <2>1
    <3> HIDE DEF row
    <3> QED BY <1>0, <2>2, <2>3, <3>1 DEF TablesInv, CallTables, DropCall
  <2>4. CASE w # call.wl
    <3>1. w # NoWhitelist
      BY NoValueAssumption
    <3>2. cache'[row] = cache[row]
      <4> HIDE DEF row
      <4> QED BY <1>1, <2>2, <2>4, <3>1
    <3> QED BY <2>1, <3>2 DEF HasPartRow
  <2> QED BY <2>3, <2>4
<1> QED BY <1>0, <1>2, <1>3, <1>4, <1>5, <1>6 DEF OtherStep, Excused

LEMMA MarkFrom ==
  ASSUME TypeOK, CronMark
  PROVE  OtherStep
<1>1. \A i \in Ids : rtbh'[i] = IF i \in call.ids
                                THEN [rtbh[i] EXCEPT !.rstate = Withdrawn] ELSE rtbh[i]
  BY DEF CronMark
<1>2. \A i \in call.ids : i \in Ids /\ rtbh[i] # NoRule /\ rtbh[i] \in Rule
  BY DEF CronMark, Used, TypeOK
<1>3. Used(rtbh') = Used(rtbh)
  <2>1. ASSUME NEW i \in call.ids PROVE rtbh'[i] # NoRule /\ rtbh[i] # NoRule
    <3>1. [rtbh[i] EXCEPT !.rstate = Withdrawn] \in Rule
      BY <1>2 DEF Rule
    <3> QED BY <1>1, <1>2, <3>1, NoValueAssumption
  <2> QED BY <1>1, <2>1 DEF Used
<1>4. ASSUME NEW i \in Used(rtbh) PROVE SameRule(rtbh'[i], i)
  <2>1. CASE i \in call.ids
    <3>1. i \in Ids /\ rtbh[i] # NoRule /\ rtbh[i] \in Rule
      BY <1>2, <2>1
    <3>2. rtbh'[i] = [rtbh[i] EXCEPT !.rstate = Withdrawn]
      BY <1>1, <2>1, <3>1
    <3> QED BY <3>1, <3>2 DEF Rule, SameRule, Withdrawn, Whitelisted
  <2>2. CASE i \notin call.ids
    BY <1>1, <2>2 DEF Used, SameRule
  <2> QED BY <2>1, <2>2
<1>5. From(rtbh', cache')
  BY <1>3, <1>4, UpdatedFrom DEF CronMark
<1>6. UNCHANGED <<whitelist, cache, strayed>> /\ call.pc # "rows"
  BY DEF CronMark
<1> QED BY <1>5, <1>6 DEF OtherStep, Excused

\* Rows go before their rules; those of an id found in a flowspec table stray.
LEMMA PurgeRowsFrom ==
  ASSUME TablesInv, NEW i \in Ids, CronPurgeRows(i)
  PROVE  OtherStep
<1>t. TypeOK /\ cache \in [Rows -> Nat]
  BY DEF TablesInv, TypeOK
<1>0. /\ cache' = CacheWithoutRules(cache, {i}) /\ UNCHANGED <<rtbh, whitelist>>
      /\ strayed' = strayed \cup {j \in {i} : call.pc = "flow" /\ cache' # cache}
      /\ call'.pc = call.pc /\ call'.drop = call.drop
      /\ (call.pc = "rows" /\ i \in call.drop) \/ call.pc = "flow"
  BY DEF CronPurgeRows, TypeOK, TablesInv, CallTables, RowsCall
<1>1. \A row \in Rows : cache'[row] = IF row[1] = i THEN 0 ELSE cache[row]
  BY <1>0 DEF CacheWithoutRules
<1>2. From(rtbh', cache')
  BY <1>0, <1>1 DEF From, SameRule, Used
<1>3. ASSUME NEW j \in Used(rtbh'), HasPartRow(cache, j)
      PROVE  HasPartRow(cache', j) \/ Excused(j)'
  <2>1. PICK w \in Net : cache[<<j, w, WHITELIST>>] > 0
    BY <1>3 DEF HasPartRow
  <2> DEFINE row == <<j, w, WHITELIST>>
  <2>2. row \in Rows /\ row[1] = j
    BY DEF Used, Rows
  <2>3. CASE j = i
    <3>1. cache'[row] # cache[row]
      <4>1. cache[row] > 0
        BY <2>1
      <4> HIDE DEF row
      <4> QED BY <1>1, <2>2, <2>3, <4>1
    <3>2. cache' # cache
      BY <3>1
    <3> QED BY <1>0, <2>3, <3>2 DEF Excused
  <2>4. CASE j # i
    <3>1. cache'[row] = cache[row]
      <4> HIDE DEF row
      <4> QED BY <1>1, <2>2, <2>4
    <3> QED BY <2>1, <3>1 DEF HasPartRow
  <2> QED BY <2>3, <2>4
<1>4. \A row \in Rows : cache'[row] > 0 => cache[row] > 0
  BY <1>1
<1>5. \A j \in Ids : Excused(j) => Excused(j)'
  BY <1>0 DEF Excused
<1> QED BY <1>0, <1>2, <1>3, <1>4, <1>5 DEF OtherStep, Used

LEMMA PurgeRulesFrom ==
  ASSUME TypeOK, NEW flow, CronPurgeRules(flow)
  PROVE  OtherStep
<1>0. /\ rtbh' = RulesWithout(rtbh, call.drop) /\ UNCHANGED <<whitelist, cache>>
      /\ strayed \subseteq strayed'
  BY DEF CronPurgeRules, NoteHistory
<1>1. From(rtbh', cache')
  BY <1>0, RemovedFrom
<1>2. \A i \in Used(rtbh') : i \notin call.drop
  BY <1>0 DEF RulesWithout, Used
<1> QED BY <1>0, <1>1, <1>2 DEF OtherStep, Excused

LEMMA CallFrom ==
  ASSUME TablesInv, CallStart \/ CallStep
  PROVE  OtherStep
<1>t. TypeOK
  BY DEF TablesInv
<1>1. ASSUME NEW w \in Net, RequestReadWhitelist(w) \/ CronReadWhitelist(w)
      PROVE  OtherStep
  BY <1>1, UntouchedIsOther DEF RequestReadWhitelist, CronReadWhitelist
<1>2. ASSUME NEW n \in Net, RestoreRoute(n) \/ CronWithdraw(n)
      PROVE  OtherStep
  BY <1>2, UntouchedIsOther DEF RestoreRoute, CronWithdraw
<1>3. CASE RestoredRuleGone \/ WhitelistGone \/ CronStart \/ CronReadExpired
  BY <1>3, UntouchedIsOther DEF RestoredRuleGone, WhitelistGone, CronStart, CronReadExpired
<1>4. CASE CronMarkGone \/ CronReadOld \/ CronEnd
  BY <1>4, UntouchedIsOther DEF CronMarkGone, CronReadOld, CronEnd
<1> QED
  BY <1>t, <1>1, <1>2, <1>3, <1>4, ClearFrom, DropFrom, MarkFrom, PurgeRowsFrom, PurgeRulesFrom
     DEF CallStart, CallStep

LEMMA CallKeepsCall ==
  ASSUME TablesInv, CallStart \/ CallStep
  PROVE  CallTables'
<1>t. TypeOK /\ call \in CallType /\ Idle \in CallType
  BY DEF TablesInv, TypeOK, CallType, Idle
<1>i. ASSUME call'.pc \notin {"rows", "restore", "drop"}
      PROVE  CallTables'
  BY <1>i DEF CallTables, RowsCall, RestoreCall, DropCall
<1>1. ASSUME NEW w \in Net, RequestReadWhitelist(w)
      PROVE  CallTables'
  <2> DEFINE listing == [Idle EXCEPT !.user = TRUE, !.wls = {w}]
  <2>1. listing \in CallType
    BY <1>t DEF CallType
  <2>2. ReadRows(listing, w) /\ UNCHANGED <<rtbh, cache, strayed>>
    BY <1>1 DEF RequestReadWhitelist
  <2> HIDE DEF listing
  <2> QED BY <2>1, <2>2, ReadKeepsCall
<1>2. ASSUME NEW w \in Net, CronReadWhitelist(w)
      PROVE  CallTables'
  BY <1>2, <1>t, ReadKeepsCall DEF CronReadWhitelist
<1>3. ASSUME NEW n \in Net, RestoreRoute(n)
      PROVE  CallTables'
  <2>1. /\ call'.pc = call.pc /\ call'.wl = call.wl /\ call'.wls = call.wls
        /\ call'.ids = call.ids /\ call'.drop = call.drop
        /\ UNCHANGED <<rtbh, cache, strayed>>
    BY <1>3, <1>t DEF RestoreRoute, CallType
  <2> QED BY <2>1 DEF CallTables, TablesInv, RowsCall, RestoreCall, DropCall
<1>4. CASE ClearRows
  <2>1. /\ call.pc = "restore" /\ call'.pc = "drop"
        /\ call'.wl = call.wl /\ call'.wls = call.wls
    BY <1>4, <1>t DEF ClearRows, CallType
  <2>2. \A row \in Rows : row[2] = call.wl /\ call.wl \in call.wls => cache'[row] = 0
    BY <1>4 DEF ClearRows
  <2>3. DropCall'
    BY <2>1, <2>2 DEF DropCall
  <2> QED BY <2>1, <2>3 DEF CallTables, TablesInv, RowsCall, RestoreCall
<1>5. CASE DropWhitelist
  <2>1. call'.pc \in {"idle", "whitelists"}
    BY <1>5, <1>t DEF DropWhitelist, CallType, Idle
  <2> QED BY <1>i, <2>1
<1>6. CASE CronReadOld
  <2> DEFINE old == {i \in Used(rtbh) : rtbh[i].rstate = Withdrawn /\ rtbh[i].expires + Retention < now}
  <2>1. /\ call'.pc = "rows" /\ call'.ids = old /\ call'.drop = old
        /\ UNCHANGED rtbh
    BY <1>6 DEF CronReadOld, Idle
  <2> QED BY <2>1 DEF CallTables, RowsCall, RestoreCall, DropCall
<1>7. ASSUME NEW i \in Ids, CronPurgeRows(i)
      PROVE  CallTables'
  <2>1. /\ call'.pc = call.pc /\ call'.ids \subseteq call.ids /\ call'.drop = call.drop
        /\ call.pc \in {"rows", "flow"} /\ UNCHANGED rtbh /\ strayed \subseteq strayed'
    BY <1>7, <1>t DEF CronPurgeRows, CallType
  <2> QED BY <2>1 DEF CallTables, TablesInv, RowsCall, RestoreCall, DropCall
<1>8. CASE RestoredRuleGone \/ WhitelistGone \/ CronMarkGone \/ CronEnd
  BY <1>8, <1>i DEF RestoredRuleGone, WhitelistGone, CronMarkGone, CronEnd, Idle
<1>9. CASE CronStart \/ CronReadExpired \/ CronMark
  BY <1>9, <1>i DEF CronStart, CronReadExpired, CronMark, Idle
<1>10. ASSUME NEW n \in Net, CronWithdraw(n)
       PROVE  CallTables'
  BY <1>10, <1>i, <1>t DEF CronWithdraw, CallType
<1>11. ASSUME NEW flow \in SUBSET FlowIds, CronPurgeRules(flow)
       PROVE  CallTables'
  BY <1>11, <1>i DEF CronPurgeRules, Idle
<1> QED
  BY <1>1, <1>2, <1>3, <1>4, <1>5, <1>6, <1>7, <1>8, <1>9, <1>10, <1>11
     DEF CallStart, CallStep

(***************************************************************************)
(* Every step.                                                             *)
(***************************************************************************)

LEMMA StepForms ==
  ASSUME TablesInv, [Next]_vars
  PROVE  CreatedStep \/ ReactivatedStep \/ ListedStep \/ OtherStep
<1>1. TypeOK
  BY DEF TablesInv
<1>2. CASE CallStart \/ CallStep
  BY <1>2, CallFrom
<1>3. CASE RuleRequest \/ WhitelistRequest \/ Tick \/ UNCHANGED vars
  BY <1>1, <1>3, RequestForms DEF PlainStep
<1> QED BY <1>2, <1>3 DEF Next

\* What every request leaves of the running call, of the rules and the notes.
LEMMA RequestNotes ==
  ASSUME TypeOK, RuleRequest \/ WhitelistRequest \/ Tick \/ UNCHANGED vars
  PROVE  CallKept /\ Noted /\ KeepsRules /\ strayed \subseteq strayed'
<1>1. CASE EvaluationStep
  <2>1. PICK rules, rows, E, fresh : From(rules, rows) /\ Evaluates(rules, rows, E, fresh)
    BY <1>1 DEF EvaluationStep
  <2>2. Noted /\ strayed \subseteq strayed'
    BY <2>1 DEF Evaluates, Noted, NoteHistory
  <2>3. CallKept
    BY <1>1 DEF EvaluationStep, CallKept
  <2>4. KeepsRules
    BY <2>1, EvaluationKeepsRules
  <2> QED BY <2>2, <2>3, <2>4
<1>2. CASE PlainStep
  BY <1>2, FromKeepsRules DEF PlainStep, OtherStep
<1> QED BY <1>1, <1>2, RequestFrom

LEMMA StepCall ==
  ASSUME TablesInv, TypeOK', [Next]_vars
  PROVE  CallTables'
<1>1. CASE CallStart \/ CallStep
  BY <1>1, CallKeepsCall
<1>2. CASE RuleRequest \/ WhitelistRequest \/ Tick \/ UNCHANGED vars
  BY <1>2, RequestNotes, RequestKeepsCall DEF TablesInv
<1> QED BY <1>1, <1>2 DEF Next

\* Every step is one of the two.
LEMMA StepFrom ==
  ASSUME TablesInv, [Next]_vars
  PROVE  EvaluationStep \/ OtherStep
<1>1. TypeOK
  BY DEF TablesInv
<1> QED BY <1>1, StepForms, CreatedFrom, ReactivatedFrom, ListedFrom
        DEF CreatedStep, ReactivatedStep, ListedStep

(***************************************************************************)
(* The invariant.                                                          *)
(***************************************************************************)

LEMMA FromFits ==
  ASSUME TypeOK, Fit(rtbh, cache), NEW rules \in Rules, NEW rows, From(rules, rows)
  PROVE  Fit(rules, rows)
<1> SUFFICES ASSUME NEW row \in Rows, rows[row] > 0, rules[row[1]] # NoRule,
                    row[2] # NoWhitelist
             PROVE  \/ /\ row[3] = USER
                       /\ Relation(rules[row[1]].net, row[2]) # "DIFFERENT"
                    \/ /\ row[3] = WHITELIST
                       /\ rules[row[1]].origin = WHITELIST
                       /\ rules[row[1]].net \cap row[2] = {}
  BY DEF Fit
<1>1. PICK i \in Used(rules) : i = row[1]
  BY DEF Rows, Used
<1>2. rows[row] = cache[row]
  <2>1. rows[row] \in {cache[row], 0}
    BY DEF From
  <2>2. CASE rows[row] = 0
    BY <2>2
  <2> QED BY <2>1, <2>2
<1>3. ~ NewRule(rules[i], rows, i)
  <2>1. rows[row] # 0
    OBVIOUS
  <2> QED BY <1>1, <2>1 DEF NewRule
<1>4. SameRule(rules[i], i)
  BY <1>1, <1>3 DEF From
<1> QED BY <1>1, <1>2, <1>4 DEF Fit, SameRule

LEMMA FromAllowed ==
  ASSUME AllowedOnly(rtbh), NEW rules \in Rules, NEW rows, From(rules, rows)
  PROVE  AllowedOnly(rules)
<1> SUFFICES ASSUME NEW i \in Used(rules),
                    rules[i].rstate = Whitelisted \/ rules[i].origin = WHITELIST
             PROVE  rules[i].community \in AllowedCommunities
  BY DEF AllowedOnly
<1>1. i \in Ids
  BY DEF Used
<1>2. SameRule(rules[i], i)
  BY DEF From, NewRule, USER, WHITELIST
<1> QED BY <1>1, <1>2 DEF AllowedOnly, SameRule, Used

LEMMA FromTracked ==
  ASSUME Tracked(rtbh, cache), NEW rules \in Rules, NEW rows,
         From(rules, rows), KeepsRows(rules, rows)
  PROVE  Tracked(rules, rows)
<1> SUFFICES ASSUME NEW i \in Used(rules), rules[i].origin = WHITELIST
             PROVE  HasPartRow(rows, i) \/ Excused(i)
  BY DEF Tracked
<1>1. i \in Ids
  BY DEF Used
<1>2. SameRule(rules[i], i)
  BY DEF From, NewRule, USER, WHITELIST
<1>3. HasPartRow(cache, i) \/ Excused(i)
  BY <1>1, <1>2 DEF Tracked, SameRule, Used
<1>4. ASSUME NEW w \in Net
      PROVE  rows[<<i, w, WHITELIST>>] = cache[<<i, w, WHITELIST>>]
  <2> DEFINE row == <<i, w, WHITELIST>>
  <2>1. row \in Rows /\ row[1] = i
    BY <1>1 DEF Rows
  <2>2. rows[row] = cache[row]
    <3> HIDE DEF row
    <3> QED BY <2>1 DEF KeepsRows
  <2> QED BY <2>2
<1> QED BY <1>3, <1>4 DEF HasPartRow

LEMMA OtherTracked ==
  ASSUME Tracked(rtbh, cache), OtherStep
  PROVE  Tracked(rtbh, cache)'
<1> SUFFICES ASSUME NEW i \in Used(rtbh'), rtbh'[i].origin = WHITELIST
             PROVE  HasPartRow(cache', i) \/ Excused(i)'
  BY DEF Tracked
<1>1. SameRule(rtbh'[i], i)
  BY DEF OtherStep, From, NewRule, USER, WHITELIST
<1>2. HasPartRow(cache, i) \/ Excused(i)
  BY <1>1 DEF Tracked, SameRule, Used
<1> QED BY <1>2 DEF OtherStep

LEMMA EvaluationAllowed ==
  ASSUME NEW rules, NEW rows, NEW E, NEW fresh, Evaluates(rules, rows, E, fresh),
         AllowedOnly(rules)
  PROVE  AllowedOnly(rtbh')
<1> SUFFICES ASSUME NEW i \in Used(rtbh'),
                    rtbh'[i].rstate = Whitelisted \/ rtbh'[i].origin = WHITELIST
             PROVE  rtbh'[i].community \in AllowedCommunities
  BY DEF AllowedOnly
<1>1. i \in Ids /\ rtbh'[i] # NoRule
  BY DEF Used
<1>2. ASSUME NEW p \in PartsOf(rules, E), IsPart(rules, E, fresh, i, p)
      PROVE  rtbh'[i].community \in AllowedCommunities
  <2>1. PICK m \in E : p \in {<<m[1], m[2], n>> : n \in SubtractNetwork(rules[m[1]].net, m[2])}
    BY DEF PartsOf
  <2>2. p[1] = m[1]
    BY <2>1
  <2>3. rules[m[1]].community \in AllowedCommunities
    BY DEF Evaluates, Matches
  <2> QED BY <1>2, <2>2, <2>3 DEF IsPart
<1>3. CASE IsWhitelisted(rules, E, i)
  <2>1. PICK w \in Net : <<i, w>> \in E
    BY <1>3 DEF IsWhitelisted
  <2> DEFINE m == <<i, w>>
  <2>2. m \in E /\ m[1] = i
    BY <2>1
  <2>3. rules[i].community \in AllowedCommunities
    <3> HIDE DEF m
    <3> QED BY <2>2 DEF Evaluates, Matches
  <2>4. rtbh'[i].community = rules[i].community
    BY <1>3, UsedAfter DEF IsWhitelisted
  <2> QED BY <2>3, <2>4
<1>4. CASE IsKept(rules, E, i)
  BY <1>1, <1>4 DEF IsKept, AllowedOnly, Used
<1> QED BY <1>1, <1>2, <1>3, <1>4, EvaluatedShape

LEMMA EvaluationTracked ==
  ASSUME NEW rules, NEW rows, NEW E, NEW fresh, Evaluates(rules, rows, E, fresh),
         Tracked(rules, rows), UNCHANGED call
  PROVE  Tracked(rtbh, cache)'
<1> SUFFICES ASSUME NEW i \in Used(rtbh'), rtbh'[i].origin = WHITELIST
             PROVE  HasPartRow(cache', i) \/ Excused(i)'
  BY DEF Tracked
<1>e. Excused(i) => Excused(i)'
  BY DEF Excused, Evaluates, NoteHistory
<1>0. i \in Ids /\ DOMAIN fresh = PartsOf(rules, E)
  BY DEF Used, Evaluates, NewIds
<1>1. ASSUME NEW w \in Net
      PROVE  /\ <<i, w, WHITELIST>> \in Rows /\ rows[<<i, w, WHITELIST>>] \in Nat
             /\ cache'[<<i, w, WHITELIST>>] =
                  IF \E p \in PartsOf(rules, E) : p[2] = w /\ fresh[p] = i
                  THEN rows[<<i, w, WHITELIST>>] + 1 ELSE rows[<<i, w, WHITELIST>>]
  BY <1>0 DEF Rows, Evaluates, EvaluatedCache, USER, WHITELIST
<1>2. CASE \E p \in PartsOf(rules, E) : fresh[p] = i
  <2>1. PICK p \in PartsOf(rules, E) : fresh[p] = i
    BY <1>2
  <2>2. PICK w \in Net : w = p[2]
    BY PartShape DEF Evaluates, Matches
  <2>3. cache'[<<i, w, WHITELIST>>] = rows[<<i, w, WHITELIST>>] + 1
    BY <1>1, <2>1, <2>2
  <2>4. cache'[<<i, w, WHITELIST>>] > 0
    BY <1>1, <2>3
  <2> QED BY <2>4 DEF HasPartRow
<1>3. CASE ~ \E p \in PartsOf(rules, E) : fresh[p] = i
  <2>1. i \in Used(rules)
    BY <1>3, OthersWereRules
  <2>2. HasPartRow(rows, i) \/ Excused(i)
    BY <2>1, UsedAfter DEF Tracked
  <2>3. ASSUME NEW w \in Net, rows[<<i, w, WHITELIST>>] > 0
        PROVE  cache'[<<i, w, WHITELIST>>] > 0
    BY <1>1, <1>3, <2>3
  <2> QED BY <1>e, <2>2, <2>3 DEF HasPartRow
<1> QED BY <1>2, <1>3

LEMMA InitTables == Init => TablesInv
<1> SUFFICES ASSUME Init PROVE TablesInv
  OBVIOUS
<1>1. Used(rtbh) = {}
  BY DEF Init, Used
<1>2. CallTables
  BY DEF Init, Idle, CallTables, RowsCall, RestoreCall, DropCall
<1> QED
  BY <1>1, <1>2, InitType DEF Init, TablesInv, Fit, RowsHaveWhitelist, AllowedOnly, Tracked

LEMMA StepTables == TablesInv /\ [Next]_vars => TablesInv'
<1> SUFFICES ASSUME TablesInv, [Next]_vars PROVE TablesInv'
  OBVIOUS
<1>1. TypeOK /\ TypeOK' /\ rtbh' \in Rules
  BY StepType DEF TablesInv, TypeOK, Rules
<1>c. CallTables'
  BY <1>1, StepCall
<1>r. \A row \in Rows : row[2] # NoWhitelist => row[2] \in Net
  BY DEF Rows
<1>2. CASE OtherStep
  <2>1. Fit(rtbh', cache')
    BY <1>1, <1>2, FromFits DEF TablesInv, OtherStep
  <2>2. AllowedOnly(rtbh')
    BY <1>1, <1>2, FromAllowed DEF TablesInv, OtherStep
  <2>3. Tracked(rtbh, cache)'
    BY <1>2, OtherTracked DEF TablesInv
  <2>4. RowsHaveWhitelist'
    <3> SUFFICES ASSUME NEW row \in Rows, cache'[row] > 0
                 PROVE  IF row[2] = NoWhitelist THEN row[1] \in strayed'
                        ELSE whitelist'[row[2]] # NoWhitelist
      BY DEF RowsHaveWhitelist
    <3>1. CASE row[2] = NoWhitelist
      BY <1>2, <3>1 DEF OtherStep, TablesInv, RowsHaveWhitelist
    <3>2. CASE row[2] # NoWhitelist
      <4>1. cache'[row] \in {cache[row], 0}
        BY <1>2, <3>2 DEF OtherStep, From
      <4>2. cache[row] > 0
        BY <4>1
      <4> QED BY <1>2, <3>2, <4>2 DEF OtherStep, TablesInv, RowsHaveWhitelist
    <3> QED BY <3>1, <3>2
  <2> QED BY <1>1, <1>c, <2>1, <2>2, <2>3, <2>4 DEF TablesInv
<1>3. CASE EvaluationStep
  <2>1. PICK rules, rows, E, fresh :
          /\ From(rules, rows) /\ KeepsRows(rules, rows) /\ Evaluates(rules, rows, E, fresh)
          /\ \A row \in Rows : rows[row] > 0 => cache[row] > 0
          /\ \A m \in E : whitelist'[m[2]] # NoWhitelist
    BY <1>3 DEF EvaluationStep
  <2>2. rules \in Rules /\ strayed \subseteq strayed'
    BY <2>1 DEF Evaluates, NoteHistory
  <2>3. Fit(rtbh', cache')
    BY <1>1, <2>1, <2>2, FromFits, EvaluationFits DEF TablesInv
  <2>4. AllowedOnly(rtbh')
    BY <2>1, <2>2, FromAllowed, EvaluationAllowed DEF TablesInv
  <2>5. Tracked(rtbh, cache)'
    <3>1. Tracked(rules, rows)
      BY <2>1, <2>2, FromTracked DEF TablesInv
    <3> QED BY <1>3, <2>1, <3>1, EvaluationTracked DEF EvaluationStep
  <2>6. RowsHaveWhitelist'
    <3> SUFFICES ASSUME NEW row \in Rows, cache'[row] > 0
                 PROVE  IF row[2] = NoWhitelist THEN row[1] \in strayed'
                        ELSE whitelist'[row[2]] # NoWhitelist
      BY DEF RowsHaveWhitelist
    <3>1. CASE \E m \in E : m[2] = row[2]
      <4>1. row[2] \in Net
        BY <2>1, <3>1 DEF Evaluates, Matches
      <4>2. row[2] # NoWhitelist
        BY <4>1, NoValueAssumption
      <4> QED BY <2>1, <3>1, <4>2
    <3>2. CASE rows[row] > 0
      <4>1. cache[row] > 0
        BY <2>1, <3>2
      <4> QED BY <1>3, <1>r, <2>2, <4>1 DEF EvaluationStep, TablesInv, RowsHaveWhitelist
    <3> QED BY <2>1, <3>1, <3>2, EvaluationRows
  <2> QED BY <1>1, <1>c, <2>3, <2>4, <2>5, <2>6 DEF TablesInv
<1> QED BY <1>2, <1>3, StepFrom

LEMMA TablesHold == Spec => []TablesInv
BY InitTables, StepTables, PTL DEF Spec

\* Cache rows refer to a whitelist that exists, but for those a request added
\* while the whitelist was being deleted, and join it to a rule it overlaps, or
\* to a part that avoids it, whatever requests come between the reads and the
\* commits of the call and whatever ids flowspec rules have.
THEOREM CacheIsSound == Spec => []CacheSound
<1>1. TablesInv => CacheSound
  BY DEF TablesInv, Fit, CacheSound, RowsHaveWhitelist, RowsFitRule, USER, WHITELIST
<1> QED BY <1>1, TablesHold, PTL

\* Rules of other communities are never whitelisted nor made by a whitelist.
THEOREM CommunitiesRespected == Spec => []OnlyAllowedAreWhitelisted
<1>1. TablesInv => OnlyAllowedAreWhitelisted
  BY DEF TablesInv, AllowedOnly, OnlyAllowedAreWhitelisted
<1> QED BY <1>1, TablesHold, PTL

\* A rule made by a whitelist keeps the row that lets the whitelist's deletion
\* find it, up to the commits of its own purge, unless the purge of a flowspec
\* rule with its id takes the row or it was made behind the call that deletes
\* its whitelist.
THEOREM PartsStayTracked == Spec => []PartsAreTracked
<1>1. TablesInv => PartsAreTracked
  BY DEF TablesInv, Tracked, HasPartRow, Excused, PartsAreTracked
<1> QED BY <1>1, TablesHold, PTL

=============================================================================
