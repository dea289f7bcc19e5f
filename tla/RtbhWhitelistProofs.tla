------------------------ MODULE RtbhWhitelistProofs ------------------------
(***************************************************************************)
(* Theorems about RtbhWhitelist, for every value of its constants.         *)
(***************************************************************************)
EXTENDS RtbhWhitelist, TLAPS

Rules == [Ids -> Rule \cup {NoRule}]

(***************************************************************************)
(* Lemmas about the operators.                                             *)
(***************************************************************************)

\* The blocks that remain of a rule are networks, part of the rule and apart
\* from the whitelist.
LEMMA SubtractNetworkFits ==
  ASSUME NEW rule, NEW wl, NEW n \in SubtractNetwork(rule, wl)
  PROVE  n \in Net /\ n \subseteq rule /\ n \cap wl = {}
BY DEF SubtractNetwork

\* A part is made of a match, a rule with its whitelist, and a network.
LEMMA PartShape ==
  ASSUME NEW rules \in Rules, NEW E \in SUBSET (Used(rules) \X Net),
         NEW p \in PartsOf(rules, E)
  PROVE  /\ p[1] \in Used(rules) /\ p[2] \in Net /\ p[3] \in Net
         /\ p[3] \cap p[2] = {}
<1>1. PICK m \in E : p \in {<<m[1], m[2], n>> : n \in SubtractNetwork(rules[m[1]].net, m[2])}
  BY DEF PartsOf
<1>2. PICK n \in SubtractNetwork(rules[m[1]].net, m[2]) : p = <<m[1], m[2], n>>
  BY <1>1
<1>3. m[1] \in Used(rules) /\ m[2] \in Net
  OBVIOUS
<1> QED BY <1>2, <1>3, SubtractNetworkFits

\* Saving, whitelisting and splitting rules leaves a table of rules.
LEMMA EvaluatedRulesType ==
  ASSUME NEW rules \in Rules, NEW E \in SUBSET (Used(rules) \X Net),
         NEW free \in SUBSET Ids, NEW fresh \in NewIds(rules, E, free)
  PROVE  EvaluatedRules(rules, E, fresh) \in Rules
<1> SUFFICES ASSUME NEW i \in Ids
             PROVE  EvaluatedRules(rules, E, fresh)[i] \in Rule \cup {NoRule}
  BY DEF EvaluatedRules, Rules
<1>1. CASE \E p \in DOMAIN fresh : fresh[p] = i
  <2> DEFINE p == CHOOSE q \in DOMAIN fresh : fresh[q] = i
  <2>1. p \in PartsOf(rules, E)
    BY <1>1 DEF NewIds
  <2>2. p[3] \in Net /\ rules[p[1]] \in Rule
    BY <2>1, PartShape DEF Rules, Used
  <2>3. EvaluatedRules(rules, E, fresh)[i] =
          [net |-> p[3], community |-> rules[p[1]].community, rstate |-> Active,
           expires |-> rules[p[1]].expires, origin |-> WHITELIST]
    BY <1>1 DEF EvaluatedRules
  <2> HIDE DEF p
  <2> QED BY <2>2, <2>3 DEF Rule
<1>2. CASE ~ (\E p \in DOMAIN fresh : fresh[p] = i) /\ \E w \in Net : <<i, w>> \in E
  <2>1. rules[i] \in Rule
    BY <1>2 DEF Used, Rules
  <2> QED BY <1>2, <2>1 DEF EvaluatedRules, Rule
<1>3. CASE ~ (\E p \in DOMAIN fresh : fresh[p] = i) /\ ~ \E w \in Net : <<i, w>> \in E
  BY <1>3 DEF EvaluatedRules, Rules
<1> QED BY <1>1, <1>2, <1>3

\* Adding and removing rows leaves a table of row counts.
LEMMA CacheType ==
  ASSUME NEW rows \in [Rows -> Nat], NEW E, NEW fresh, NEW ids
  PROVE  /\ EvaluatedCache(rows, E, fresh) \in [Rows -> Nat]
         /\ CacheWithoutRules(rows, ids) \in [Rows -> Nat]
BY DEF EvaluatedCache, CacheWithoutRules

\* Removing rules leaves a table of rules, whose networks are networks.
LEMMA RulesWithoutType ==
  ASSUME NEW rules \in Rules, NEW ids
  PROVE  /\ RulesWithout(rules, ids) \in Rules
         /\ ids \subseteq Used(rules) => NetsOf(rules, ids) \subseteq Net
<1>1. RulesWithout(rules, ids) \in Rules
  BY DEF RulesWithout, Rules
<1>2. ASSUME ids \subseteq Used(rules) PROVE NetsOf(rules, ids) \subseteq Net
  BY <1>2 DEF NetsOf, Used, Rules, Rule
<1> QED BY <1>1, <1>2

LEMMA PartNetsType ==
  ASSUME NEW rules \in Rules, NEW E \in SUBSET (Used(rules) \X Net)
  PROVE  PartNets(rules, E) \subseteq Net
BY PartShape DEF PartNets

LEMMA StateByTimeType ==
  ASSUME NEW expires
  PROVE  StateByTime(expires) \in {Active, Withdrawn, Whitelisted}
BY DEF StateByTime

LEMMA NoteHistoryType ==
  ASSUME NoteHistory, TypeOK
  PROVE  disturbed' \subseteq Net /\ strayed' \subseteq Ids
BY DEF NoteHistory, SharedNets, TypeOK

\* What storing a whitelist does once the rules S and the ids are chosen.
SavedFor(rules, rows, routes, wl, expires, S, fresh) ==
  /\ whitelist' = [whitelist EXCEPT ![wl] = expires]
  /\ rtbh' = EvaluatedRules(rules, S \X {wl}, fresh)
  /\ cache' = EvaluatedCache(rows, S \X {wl}, fresh)
  /\ bgp' = (routes \ NetsOf(rules, Covered(rules, S, wl)))
              \cup PartNets(rules, S \X {wl})
  /\ NoteHistory
  /\ UNCHANGED <<now, call>>

\* Storing a whitelist keeps the types, whatever the request deleted before.
LEMMA SaveWhitelistType ==
  ASSUME TypeOK, NEW rules \in Rules, NEW rows \in [Rows -> Nat],
         NEW routes \in SUBSET Net, NEW wl \in Net, NEW expires \in Times,
         SaveWhitelist(rules, rows, routes, wl, expires)
  PROVE  TypeOK'
<1>0. PICK S \in OnePerNet(rules, Candidates(rules, wl)) :
        \E fresh \in NewIds(rules, S \X {wl}, FreeIds) :
          SavedFor(rules, rows, routes, wl, expires, S, fresh)
  BY DEF SaveWhitelist, SavedFor
<1>1. PICK fresh \in NewIds(rules, S \X {wl}, FreeIds) :
        SavedFor(rules, rows, routes, wl, expires, S, fresh)
  BY <1>0
<1>2. S \X {wl} \in SUBSET (Used(rules) \X Net) /\ FreeIds \in SUBSET Ids
  BY DEF OnePerNet, Candidates, FreeIds
<1>3. rtbh' \in Rules
  BY <1>1, <1>2, EvaluatedRulesType DEF SavedFor
<1>4. cache' \in [Rows -> Nat]
  BY <1>1, CacheType DEF SavedFor
<1>5. bgp' \subseteq Net
  BY <1>1, <1>2, PartNetsType DEF SavedFor
<1> QED BY <1>1, <1>3, <1>4, <1>5, NoteHistoryType DEF SavedFor, TypeOK, Rules

\* So does deleting one.
LEMMA DeleteWhitelistType ==
  ASSUME TypeOK, NEW wl \in Net, DeleteWhitelistEffect(wl)
  PROVE  /\ rtbh' \in Rules /\ cache' \in [Rows -> Nat] /\ bgp' \subseteq Net
         /\ whitelist' \in [Net -> Times \cup {NoWhitelist}]
         /\ disturbed' \subseteq Net /\ strayed' \subseteq Ids
<1>1. rtbh' \in Rules
  <2> SUFFICES ASSUME NEW i \in Ids PROVE rtbh'[i] \in Rule \cup {NoRule}
    BY DEF DeleteWhitelistEffect, Rules
  <2>1. CASE i \in RestoredBy(wl)
    <3>1. rtbh[i] \in Rule
      BY <2>1 DEF RestoredBy, Used, TypeOK
    <3> QED BY <3>1, <2>1 DEF DeleteWhitelistEffect, Rule
  <2> QED BY <2>1 DEF DeleteWhitelistEffect, TypeOK
<1>2. bgp' \subseteq Net
  BY RulesWithoutType DEF DeleteWhitelistEffect, RestoredBy, TypeOK, Rules
<1>3. cache' \in [Rows -> Nat] /\ whitelist' \in [Net -> Times \cup {NoWhitelist}]
  BY DEF DeleteWhitelistEffect, TypeOK
<1> QED BY <1>1, <1>2, <1>3, NoteHistoryType DEF DeleteWhitelistEffect, TypeOK

(***************************************************************************)
(* Type correctness.                                                       *)
(***************************************************************************)

LEMMA InitType == Init => TypeOK
BY BoundAssumption DEF Init, TypeOK, Idle

\* What the evaluation of one rule against the whitelists leaves.
LEMMA EvaluationType ==
  ASSUME NEW saved \in Rules, NEW i \in Used(saved), NEW free \in SUBSET Ids,
         NEW fresh \in NewIds(saved, MatchingWhitelists(saved, i), free)
  PROVE  /\ EvaluatedRules(saved, MatchingWhitelists(saved, i), fresh) \in Rules
         /\ PartNets(saved, MatchingWhitelists(saved, i)) \subseteq Net
<1>1. MatchingWhitelists(saved, i) \in SUBSET (Used(saved) \X Net)
  BY DEF MatchingWhitelists, LiveWhitelists
<1> QED BY <1>1, EvaluatedRulesType, PartNetsType

LEMMA CreateOrUpdateRtbhType ==
  ASSUME TypeOK, NEW net \in RuleNets, NEW community \in Community,
         NEW expires \in Times, CreateOrUpdateRtbh(net, community, expires)
  PROVE  TypeOK'
<1> DEFINE same == {i \in Used(rtbh) :
                      rtbh[i].net = net /\ rtbh[i].community = community}
           saved(i) == [rtbh EXCEPT ![i] =
                         [net |-> net, community |-> community,
                          rstate |-> StateByTime(expires), expires |-> expires,
                          origin |-> IF same # {} THEN rtbh[i].origin ELSE USER]]
           E(i) == MatchingWhitelists(saved(i), i)
<1>1. PICK i \in IF same # {} THEN same ELSE FreeIds :
        \E fresh \in NewIds(saved(i), E(i), FreeIds \ {i}) :
          /\ rtbh' = EvaluatedRules(saved(i), E(i), fresh)
          /\ cache' = EvaluatedCache(cache, E(i), fresh)
          /\ RowsBounded
          /\ bgp' = bgp \cup PartNets(saved(i), E(i))
                      \cup {n \in {net} : rtbh'[i].rstate = Active}
          /\ NoteHistory
          /\ UNCHANGED <<whitelist, now, call>>
  BY DEF CreateOrUpdateRtbh
<1>2. PICK fresh \in NewIds(saved(i), E(i), FreeIds \ {i}) :
          /\ rtbh' = EvaluatedRules(saved(i), E(i), fresh)
          /\ cache' = EvaluatedCache(cache, E(i), fresh)
          /\ bgp' = bgp \cup PartNets(saved(i), E(i))
                      \cup {n \in {net} : rtbh'[i].rstate = Active}
          /\ NoteHistory
          /\ UNCHANGED <<whitelist, now, call>>
  BY <1>1
<1>3. i \in Ids /\ net \in Net
  BY NetAssumption DEF FreeIds, Used
<1>4. [net |-> net, community |-> community, rstate |-> StateByTime(expires),
       expires |-> expires,
       origin |-> IF same # {} THEN rtbh[i].origin ELSE USER] \in Rule
  <2>1. (IF same # {} THEN rtbh[i].origin ELSE USER) \in {USER, WHITELIST}
    <3>1. CASE same # {}
      <4>1. i \in Used(rtbh)
        BY <3>1
      <4> QED BY <3>1, <4>1 DEF Used, TypeOK, Rule
    <3> QED BY <3>1
  <2> QED BY <1>3, <2>1, StateByTimeType DEF Rule
<1>5. saved(i) \in Rules /\ i \in Used(saved(i))
  <2>1. saved(i) \in Rules
    BY <1>3, <1>4 DEF TypeOK, Rules
  <2>2. saved(i)[i] \in Rule
    BY <1>3, <1>4 DEF TypeOK
  <2> QED BY <1>3, <2>1, <2>2, NoValueAssumption DEF Used
<1>6. rtbh' \in Rules /\ PartNets(saved(i), E(i)) \subseteq Net
  <2>1. FreeIds \ {i} \in SUBSET Ids
    BY DEF FreeIds
  <2> HIDE DEF saved
  <2> QED BY <1>2, <1>5, <2>1, EvaluationType
<1>7. cache' \in [Rows -> Nat]
  <2> HIDE DEF E
  <2> QED BY <1>2, CacheType DEF TypeOK
<1>8. bgp' \subseteq Net
  <2> HIDE DEF saved, E
  <2> QED BY <1>2, <1>3, <1>6 DEF TypeOK
<1>9. disturbed' \subseteq Net /\ strayed' \subseteq Ids /\ UNCHANGED <<whitelist, now, call>>
  BY <1>2, NoteHistoryType DEF TypeOK
<1> HIDE DEF saved, E
<1> QED BY <1>6, <1>7, <1>8, <1>9 DEF TypeOK, Rules

LEMMA ReactivateRtbhType ==
  ASSUME TypeOK, NEW i \in Ids, NEW expires \in Times, ReactivateRtbh(i, expires)
  PROVE  TypeOK'
<1> DEFINE saved == [rtbh EXCEPT ![i].expires = expires]
           E == MatchingWhitelists(saved, i)
<1>1. PICK fresh \in NewIds(saved, E, FreeIds) :
        /\ rtbh' = EvaluatedRules(saved, E, fresh)
        /\ cache' = EvaluatedCache(cache, E, fresh)
        /\ bgp' = IF rtbh'[i].rstate = Active
                  THEN bgp \cup PartNets(saved, E) \cup {rtbh[i].net}
                  ELSE (bgp \cup PartNets(saved, E)) \ {rtbh[i].net}
        /\ NoteHistory
        /\ UNCHANGED <<whitelist, now, call>>
  BY DEF ReactivateRtbh
<1>2. rtbh[i] \in Rule
  BY DEF ReactivateRtbh, TypeOK
<1>3. saved[i] \in Rule /\ saved \in Rules
  BY <1>2 DEF TypeOK, Rules, Rule
<1>4. i \in Used(saved)
  BY <1>3, NoValueAssumption DEF Used
<1>5. rtbh' \in Rules /\ PartNets(saved, E) \subseteq Net
  <2>1. FreeIds \in SUBSET Ids
    BY DEF FreeIds
  <2> HIDE DEF saved
  <2> QED BY <1>1, <1>3, <1>4, <2>1, EvaluationType
<1>6. cache' \in [Rows -> Nat]
  <2> HIDE DEF E
  <2> QED BY <1>1, CacheType DEF TypeOK
<1>7. bgp' \subseteq Net
  <2>1. rtbh[i].net \in Net
    BY <1>2 DEF Rule
  <2> HIDE DEF saved, E
  <2> QED BY <1>1, <2>1, <1>5 DEF TypeOK
<1>8. disturbed' \subseteq Net /\ strayed' \subseteq Ids /\ UNCHANGED <<whitelist, now, call>>
  BY <1>1, NoteHistoryType DEF TypeOK
<1> HIDE DEF saved, E
<1> QED BY <1>5, <1>6, <1>7, <1>8 DEF TypeOK, Rules

CallType ==
  [pc : {"idle", "whitelists", "restore", "drop", "withdraw", "purge", "rows", "flow"},
   user : BOOLEAN, wls : SUBSET Net, stale : BOOLEAN, wl : Net \cup {NoWhitelist},
   ids : SUBSET Ids, drop : SUBSET Ids, routes : SUBSET Net]

\* A step of the call that only notes what it read or sends a command.
LEMMA OnlyCallType ==
  ASSUME TypeOK, call' \in CallType, bgp' \subseteq Net, disturbed' \subseteq Net,
         UNCHANGED <<rtbh, whitelist, cache, now, strayed>>
  PROVE  TypeOK'
BY DEF TypeOK, CallType

\* Reading the rows of a whitelist.
LEMMA ReadRowsType ==
  ASSUME TypeOK, NEW listing \in CallType, NEW wl \in Net, ReadRows(listing, wl)
  PROVE  call' \in CallType
<1>1. NetsOf(rtbh, RestoredBy(wl)) \subseteq Net
  BY RulesWithoutType DEF RestoredBy, TypeOK, Rules
<1>2. /\ {i \in RestoredBy(wl) : rtbh[i].rstate # Active} \subseteq Ids
      /\ CreatedBy(wl) \subseteq Ids
  BY DEF RestoredBy, CreatedBy, Used
<1> QED BY <1>1, <1>2 DEF ReadRows, CallType

\* Every step of the call keeps the types.
LEMMA CallStepType ==
  ASSUME TypeOK, CallStart \/ CallStep
  PROVE  TypeOK'
<1>t. rtbh \in Rules /\ cache \in [Rows -> Nat] /\ call \in CallType /\ Idle \in CallType
  BY DEF TypeOK, Rules, CallType, Idle
<1>b. bgp \subseteq Net /\ disturbed \subseteq Net
  BY DEF TypeOK
<1>1. ASSUME NEW w \in Net, RequestReadWhitelist(w)
      PROVE  TypeOK'
  <2> DEFINE listing == [Idle EXCEPT !.user = TRUE, !.wls = {w}]
  <2>1. listing \in CallType
    BY <1>t DEF CallType
  <2>2. ReadRows(listing, w)
    BY <1>1 DEF RequestReadWhitelist
  <2>3. call' \in CallType
    <3> HIDE DEF listing
    <3> QED BY <2>1, <2>2, ReadRowsType
  <2> QED BY <1>1, <1>b, <2>3, OnlyCallType DEF RequestReadWhitelist
<1>2. ASSUME NEW w \in Net, CronReadWhitelist(w)
      PROVE  TypeOK'
  <2>1. call' \in CallType
    BY <1>2, <1>t, ReadRowsType DEF CronReadWhitelist
  <2> QED BY <1>2, <1>b, <2>1, OnlyCallType DEF CronReadWhitelist
<1>3. ASSUME NEW n \in Net, RestoreRoute(n)
      PROVE  TypeOK'
  <2>1. call' \in CallType
    BY <1>3, <1>t DEF RestoreRoute, CallType
  <2> QED BY <1>3, <1>b, <2>1, OnlyCallType DEF RestoreRoute
<1>4. CASE ClearRows
  <2>1. rtbh' \in Rules
    <3> SUFFICES ASSUME NEW i \in Ids PROVE rtbh'[i] \in Rule \cup {NoRule}
      BY <1>4 DEF ClearRows, Rules
    <3>1. CASE i \in call.ids
      <4>1. rtbh[i] \in Rule
        BY <1>4, <3>1 DEF ClearRows, Used, TypeOK
      <4>2. [rtbh[i] EXCEPT !.rstate = Active] \in Rule
        BY <4>1 DEF Rule
      <4> QED BY <1>4, <3>1, <4>2 DEF ClearRows
    <3>2. CASE i \notin call.ids
      BY <1>4, <3>2 DEF ClearRows, TypeOK
    <3> QED BY <3>1, <3>2
  <2>2. cache' \in [Rows -> Nat]
    BY <1>4, <1>t DEF ClearRows
  <2>3. call' \in CallType
    BY <1>4, <1>t DEF ClearRows, CallType
  <2> QED BY <1>4, <2>1, <2>2, <2>3, NoteHistoryType DEF ClearRows, TypeOK, Rules, CallType
<1>5. CASE DropWhitelist
  <2>1. whitelist' \in [Net -> Times \cup {NoWhitelist}]
    BY <1>5 DEF DropWhitelist, TypeOK
  <2>2. cache' \in [Rows -> Nat]
    <3> SUFFICES ASSUME NEW row \in Rows
                 PROVE  cache[row] + cache[<<row[1], call.wl, row[3]>>] \in Nat
      BY <1>5, <1>t DEF DropWhitelist
    <3>1. <<row[1], call.wl, row[3]>> \in Rows
      BY <1>t DEF Rows, CallType
    <3> QED BY <1>t, <3>1
  <2>3. call' \in CallType
    BY <1>5, <1>t DEF DropWhitelist, CallType
  <2> QED BY <1>5, <2>1, <2>2, <2>3 DEF DropWhitelist, TypeOK, CallType
<1>6. CASE RestoredRuleGone \/ WhitelistGone \/ CronMarkGone \/ CronEnd
  BY <1>6, <1>t, <1>b, OnlyCallType DEF RestoredRuleGone, WhitelistGone, CronMarkGone, CronEnd
<1>7. CASE CronStart
  <2>1. call' \in CallType
    BY <1>7 DEF CronStart, CallType, Idle
  <2> QED BY <1>7, <1>b, <2>1, OnlyCallType DEF CronStart
<1>8. CASE CronReadExpired
  <2> DEFINE expired == {i \in Used(rtbh) : rtbh[i].rstate = Active /\ rtbh[i].expires < now}
  <2>1. expired \subseteq Ids /\ NetsOf(rtbh, expired) \subseteq Net
    BY <1>t, RulesWithoutType DEF Used
  <2>2. call' = [Idle EXCEPT !.pc = "withdraw", !.ids = expired, !.routes = NetsOf(rtbh, expired)]
    BY <1>8 DEF CronReadExpired
  <2>3. call' \in CallType
    <3> HIDE DEF expired
    <3> QED BY <2>1, <2>2 DEF CallType, Idle
  <2> QED BY <1>8, <1>b, <2>3, OnlyCallType DEF CronReadExpired
<1>9. ASSUME NEW n \in Net, CronWithdraw(n)
      PROVE  TypeOK'
  <2>1. disturbed' \subseteq Net /\ bgp' \subseteq Net
    BY <1>9, <1>b DEF CronWithdraw
  <2>2. call' \in CallType
    BY <1>9, <1>t DEF CronWithdraw, CallType
  <2> QED BY <1>9, <2>1, <2>2, OnlyCallType DEF CronWithdraw
<1>10. CASE CronMark
  <2>1. rtbh' \in Rules
    <3> SUFFICES ASSUME NEW i \in Ids PROVE rtbh'[i] \in Rule \cup {NoRule}
      BY <1>10 DEF CronMark, Rules
    <3>1. CASE i \in call.ids
      <4>1. rtbh[i] \in Rule
        BY <1>10, <3>1 DEF CronMark, Used, TypeOK
      <4> QED BY <1>10, <3>1, <4>1 DEF CronMark, Rule
    <3>2. CASE i \notin call.ids
      BY <1>10, <3>2 DEF CronMark, TypeOK
    <3> QED BY <3>1, <3>2
  <2>2. call' \in CallType
    BY <1>10 DEF CronMark, CallType, Idle
  <2> QED BY <1>10, <2>1, <2>2 DEF CronMark, TypeOK, Rules, CallType
<1>11. CASE CronReadOld
  <2> DEFINE old == {i \in Used(rtbh) : rtbh[i].rstate = Withdrawn /\ rtbh[i].expires + Retention < now}
  <2>1. old \subseteq Ids
    BY DEF Used
  <2>2. call' = [Idle EXCEPT !.pc = "rows", !.ids = old, !.drop = old]
    BY <1>11 DEF CronReadOld
  <2>3. call' \in CallType
    <3> HIDE DEF old
    <3> QED BY <2>1, <2>2 DEF CallType, Idle
  <2> QED BY <1>11, <1>b, <2>3, OnlyCallType DEF CronReadOld
<1>12. ASSUME NEW i \in Ids, CronPurgeRows(i)
       PROVE  TypeOK'
  <2>1. cache' \in [Rows -> Nat]
    BY <1>12, <1>t, CacheType DEF CronPurgeRows
  <2>2. call' \in CallType
    BY <1>12, <1>t DEF CronPurgeRows, CallType
  <2>3. strayed' \subseteq Ids
    BY <1>12 DEF CronPurgeRows, TypeOK
  <2> QED BY <1>12, <2>1, <2>2, <2>3 DEF CronPurgeRows, TypeOK, CallType
<1>13. ASSUME NEW flow \in SUBSET FlowIds, CronPurgeRules(flow)
       PROVE  TypeOK'
  <2>1. rtbh' \in Rules
    BY <1>13, <1>t, RulesWithoutType DEF CronPurgeRules
  <2>2. call' \in CallType
    BY <1>13, FlowAssumption DEF CronPurgeRules, CallType, Idle
  <2> QED BY <1>13, <2>1, <2>2, NoteHistoryType DEF CronPurgeRules, TypeOK, Rules, CallType
<1> QED
  BY <1>1, <1>2, <1>3, <1>4, <1>5, <1>6, <1>7, <1>8, <1>9, <1>10, <1>11, <1>12, <1>13
     DEF CallStart, CallStep

\* Every step keeps the types.
LEMMA StepType == TypeOK /\ [Next]_vars => TypeOK'
<1> SUFFICES ASSUME TypeOK, [Next]_vars PROVE TypeOK'
  OBVIOUS
<1>t. rtbh \in Rules /\ cache \in [Rows -> Nat]
  BY DEF TypeOK, Rules
<1>1. ASSUME NEW n \in RuleNets, NEW c \in Community, NEW e \in Times,
             CreateOrUpdateRtbh(n, c, e)
      PROVE  TypeOK'
  BY <1>1, CreateOrUpdateRtbhType
<1>2. ASSUME NEW i \in Ids, NEW e \in Times, ReactivateRtbh(i, e)
      PROVE  TypeOK'
  BY <1>2, ReactivateRtbhType
<1>3. ASSUME NEW i \in Ids, DeleteRule(i)
      PROVE  TypeOK'
  BY <1>3, <1>t, RulesWithoutType, CacheType, NoteHistoryType DEF DeleteRule, TypeOK, Rules
<1>4. ASSUME NEW i \in Ids, ApiDeleteRule(i)
      PROVE  TypeOK'
  BY <1>4, <1>t, RulesWithoutType, NoteHistoryType DEF ApiDeleteRule, TypeOK, Rules
<1>5. ASSUME NEW ids \in SUBSET Ids, GroupDelete(ids)
      PROVE  TypeOK'
  BY <1>5, <1>t, RulesWithoutType, NoteHistoryType DEF GroupDelete, TypeOK, Rules
<1>6. ASSUME NEW ids \in SUBSET Ids, GroupDeleteAborted(ids)
      PROVE  TypeOK'
  BY <1>6, <1>t, RulesWithoutType DEF GroupDeleteAborted, TypeOK
<1>7. ASSUME NEW ids \in SUBSET Ids, NEW e \in Times, GroupUpdateSave(ids, e)
      PROVE  TypeOK'
  <2>1. rtbh' \in Rules
    <3> SUFFICES ASSUME NEW i \in Ids PROVE rtbh'[i] \in Rule \cup {NoRule}
      BY <1>7 DEF GroupUpdateSave, Rules
    <3>1. CASE i \in ids
      <4>1. rtbh[i] \in Rule
        BY <1>7, <3>1 DEF GroupUpdateSave, Used, TypeOK
      <4> QED BY <1>7, <3>1, <4>1, StateByTimeType DEF GroupUpdateSave, Rule
    <3>2. CASE i \notin ids
      BY <1>7, <3>2 DEF GroupUpdateSave, TypeOK
    <3> QED BY <3>1, <3>2
  <2>2. NetsOf(rtbh, ids) \subseteq Net
    BY <1>7, <1>t, RulesWithoutType DEF GroupUpdateSave
  <2> QED BY <1>7, <2>1, <2>2, NoteHistoryType DEF GroupUpdateSave, TypeOK, Rules
<1>8. CASE AnnounceAll
  <2> DEFINE valid == {i \in Used(rtbh) : rtbh[i].rstate = Active /\ rtbh[i].expires >= now}
  <2>1. NetsOf(rtbh, valid) \subseteq Net
    BY <1>t, RulesWithoutType
  <2> QED BY <1>8, <2>1 DEF AnnounceAll, TypeOK
<1>9. ASSUME NEW w \in WhitelistNets, NEW e \in Times, CreateOrUpdateWhitelist(w, e)
      PROVE  TypeOK'
  <2>1. w \in Net /\ bgp \in SUBSET Net
    BY NetAssumption DEF TypeOK
  <2> QED BY <1>9, <1>t, <2>1, SaveWhitelistType DEF CreateOrUpdateWhitelist
<1>10. ASSUME NEW i \in Ids, NEW e \in Times, DeleteRtbhAndCreateWhitelist(i, e)
       PROVE  TypeOK'
  <2>1. rtbh[i].net \in Net
    BY <1>10 DEF DeleteRtbhAndCreateWhitelist, TypeOK, Rule
  <2>2. /\ RulesWithout(rtbh, {i}) \in Rules
        /\ CacheWithoutRules(cache, {i}) \in [Rows -> Nat]
        /\ bgp \ {rtbh[i].net} \in SUBSET Net
    BY <1>t, RulesWithoutType, CacheType DEF TypeOK
  <2> QED BY <1>10, <2>1, <2>2, SaveWhitelistType DEF DeleteRtbhAndCreateWhitelist
<1>11. ASSUME NEW w \in Net, DeleteWhitelist(w)
       PROVE  TypeOK'
  <2>1. call' \in CallType
    BY <1>11 DEF DeleteWhitelist, TypeOK, CallType
  <2> QED BY <1>11, <2>1, DeleteWhitelistType DEF DeleteWhitelist, TypeOK, Rules, CallType
<1>12. CASE Tick
  BY <1>12, BoundAssumption DEF Tick, TypeOK
<1>13. CASE UNCHANGED vars
  BY <1>13 DEF vars, TypeOK
<1> QED
  BY <1>1, <1>2, <1>3, <1>4, <1>5, <1>6, <1>7, <1>8, <1>9, <1>10, <1>11, <1>12,
     <1>13, CallStepType DEF Next, RuleRequest, WhitelistRequest

\* The tables, the routes and the running cleaning call keep their types.
THEOREM TypeCorrect == Spec => []TypeOK
BY InitType, StepType, PTL DEF Spec

=============================================================================
