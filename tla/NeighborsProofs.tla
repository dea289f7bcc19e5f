-------------------------- MODULE NeighborsProofs ---------------------------
(***************************************************************************)
(* The invariants of Neighbors, and the order of withdrawals and           *)
(* deletions, for any nets, rules, communities and neighbors.              *)
(*                                                                         *)
(* The point is what holds between a start of ExaBGP and Guarda's call: no *)
(* neighbor has a route too many, though it may miss some (Told).  A net   *)
(* that is not loose has one rule at most, so that a command for it is     *)
(* about the rule that decides.                                            *)
(***************************************************************************)
EXTENDS Neighbors, FiniteSetTheorems, WellFoundedInduction, TLAPS

\* What neighbor n has of x is right, or still missing while ExaBGP is down or
\* was just started.
Told(n, x) ==
  /\ Deciding(n, x) = {} => table[n][x] = NoRoute
  /\ \A i \in Deciding(n, x) :
       \/ table[n][x] = AttributesOf(rules[i])
       \/ rules[i].expired
       \/ table[n][x] = NoRoute /\ (guarda \/ ~up)

SharedIsLoose == Shared(rules) \subseteq loose

\* Nothing is delivered while ExaBGP is down and commands go over HTTP.
DownIsEmpty ==
  /\ guarda => up
  /\ ~Delivered => \A n \in Neighbor, x \in Net : table[n][x] = NoRoute

IInv ==
  /\ TypeOK
  /\ RulesHaveCommunity
  /\ SharedIsLoose
  /\ DownIsEmpty
  /\ \A n \in Neighbor, x \in Net \ loose : Told(n, x)

-----------------------------------------------------------------------------
(* Rows and commands. *)

Tables == [Ids -> Rule \cup {NoRule}]

LEMMA UsedRow ==
  ASSUME TypeOK, NEW i \in Used
  PROVE  /\ i \in Ids /\ rules[i] \in Rule
         /\ rules[i].net \in Net /\ rules[i].community \in CommunityIds
         /\ rules[i].rstate \in {Active, Withdrawn} /\ rules[i].expired \in BOOLEAN
BY DEF TypeOK, Used, Rule

LEMMA AttributesType ==
  ASSUME TypeOK, NEW rule \in Rule, rule.community \in Saved
  PROVE  AttributesOf(rule) \in Attributes
<1>1. communities[rule.community] \in Community
  BY RowsAssumption DEF TypeOK, Saved
<1>2. communities[rule.community].comm \in Comm
  BY <1>1 DEF Community
<1>3. as_path[rule.net] \in Path \cup {NoPath}
  BY DEF TypeOK, Rule
<1> QED BY <1>2, <1>3 DEF AttributesOf, Attributes

LEMMA LeastExists ==
  ASSUME NEW T \in SUBSET Nat, T # {}
  PROVE  \E k \in T : \A m \in T : k <= m
<1> DEFINE Less == {p \in Nat \X Nat : p[1] < p[2]}
<1>1. IsWellFoundedOn(Less, Nat)
  BY NatLessThanWellFounded, Zenon DEF OpToRel
<1>2. PICK k \in T : \A m \in T : ~ (<<m, k>> \in Less)
  <2> HIDE DEF Less
  <2> QED BY <1>1, WFMin, Zenon
<1>3. ASSUME NEW m \in T
      PROVE  k <= m
  <2>1. m \in Nat /\ k \in Nat /\ ~ (<<m, k>> \in Less)
    BY <1>2
  <2> QED BY <2>1
<1> QED BY <1>3

\* Of some rules announced one after the other, one comes last.
LEMMA LastExists ==
  ASSUME NEW ids \in SUBSET Ids, NEW rank \in [ids -> 1 .. Cardinality(ids)],
         NEW told \in SUBSET ids, told # {}
  PROVE  \E i \in told : \A j \in told : rank[j] <= rank[i]
<1> DEFINE size == Cardinality(ids)
           after == {k \in Nat : \E i \in told : k = size - rank[i]}
<1>1. IsFiniteSet(ids)
  BY IdsAssumption, FS_Subset
<1>2. size \in Nat
  BY <1>1, FS_CardinalityType
<1> HIDE DEF size
<1>3. \A i \in told : rank[i] \in 1 .. size
  BY DEF size
<1>4. after # {}
  <2>1. PICK i \in told : TRUE
    OBVIOUS
  <2>2. rank[i] \in 1 .. size
    BY <1>3
  <2>3. size - rank[i] \in Nat
    BY <1>2, <2>2
  <2> QED BY <2>3
<1>5. PICK k \in after : \A m \in after : k <= m
  <2>1. after \subseteq Nat
    OBVIOUS
  <2> HIDE DEF after
  <2> QED BY <1>4, <2>1, LeastExists
<1>6. PICK i \in told : k = size - rank[i]
  OBVIOUS
<1>7. ASSUME NEW j \in told
      PROVE  rank[j] <= rank[i]
  <2>1. rank[i] \in 1 .. size /\ rank[j] \in 1 .. size
    BY <1>3
  <2>2. size - rank[j] \in after
    BY <1>2, <2>1
  <2> QED BY <1>2, <1>5, <1>6, <2>1, <2>2
<1> QED BY <1>7

\* What announcing does to one net of one neighbor: nothing when it is told
\* nothing, otherwise the attributes of a rule it is told of.
LEMMA AnnounceEffect ==
  ASSUME NEW ids \in SUBSET Ids, Announce(ids), NEW n \in Neighbor, NEW x \in Net
  PROVE  LET told == {i \in ids : rules'[i].net = x /\ n \in Targets(rules'[i])}
         IN  /\ ~Delivered \/ told = {} => table'[n][x] = table[n][x]
             /\ Delivered /\ told # {} =>
                  \E i \in told : table'[n][x] = AttributesOf(rules'[i])
<1> DEFINE told == {i \in ids : rules'[i].net = x /\ n \in Targets(rules'[i])}
<1>1. PICK rank \in [ids -> 1 .. Cardinality(ids)] :
        table' = [m \in Neighbor |-> [y \in Net |->
          LET tolds == {i \in ids : rules'[i].net = y /\ m \in Targets(rules'[i])}
          IN  IF ~Delivered \/ tolds = {} THEN table[m][y]
              ELSE AttributesOf(rules'[CHOOSE i \in tolds :
                                         \A j \in tolds : rank[j] <= rank[i]])]]
  BY DEF Announce
<1> DEFINE last == CHOOSE i \in told : \A j \in told : rank[j] <= rank[i]
<1>2. table'[n][x] = IF ~Delivered \/ told = {} THEN table[n][x]
                     ELSE AttributesOf(rules'[last])
  BY <1>1, Zenon
<1>3. told # {} => last \in told
  BY LastExists
<1> QED BY <1>2, <1>3

LEMMA AnnounceType ==
  ASSUME TypeOK, NEW ids \in SUBSET Ids, Announce(ids),
         \A i \in ids : AttributesOf(rules'[i]) \in Attributes
  PROVE  table' \in [Neighbor -> [Net -> Attributes \cup {NoRoute}]]
<1>1. PICK rank \in [ids -> 1 .. Cardinality(ids)] :
        table' = [n \in Neighbor |-> [x \in Net |->
          LET told == {i \in ids : rules'[i].net = x /\ n \in Targets(rules'[i])}
          IN  IF ~Delivered \/ told = {} THEN table[n][x]
              ELSE AttributesOf(rules'[CHOOSE i \in told :
                                         \A j \in told : rank[j] <= rank[i]])]]
  BY DEF Announce
<1> DEFINE told(n, x) == {i \in ids : rules'[i].net = x /\ n \in Targets(rules'[i])}
           route(n, x) == IF ~Delivered \/ told(n, x) = {} THEN table[n][x]
                          ELSE AttributesOf(rules'[CHOOSE i \in told(n, x) :
                                              \A j \in told(n, x) : rank[j] <= rank[i]])
<1>2. table' = [n \in Neighbor |-> [x \in Net |-> route(n, x)]]
  BY <1>1, Zenon
<1>3. \A n \in Neighbor, x \in Net : table'[n][x] = route(n, x)
  BY <1>2, Zenon
<1>4. \A n \in Neighbor, x \in Net : table'[n][x] \in Attributes \cup {NoRoute}
  BY AnnounceEffect DEF TypeOK
<1> HIDE DEF route
<1> QED BY <1>2, <1>3, <1>4

LEMMA WithdrawEffect ==
  ASSUME NEW ids \in SUBSET Ids, Withdraw(ids), NEW n \in Neighbor, NEW x \in Net
  PROVE  table'[n][x] =
           IF Delivered /\ \E i \in ids : rules[i].net = x /\ n \in Targets(rules[i])
           THEN NoRoute ELSE table[n][x]
BY DEF Withdraw

LEMMA WithdrawType ==
  ASSUME TypeOK, NEW ids, Withdraw(ids)
  PROVE  table' \in [Neighbor -> [Net -> Attributes \cup {NoRoute}]]
BY DEF TypeOK, Withdraw

-----------------------------------------------------------------------------
(* One net. *)

\* A net that is not loose has one rule at most.
LEMMA OneRule ==
  ASSUME IInv, NEW i \in Used, NEW j \in Used, rules[i].net = rules[j].net,
         rules[i].net \notin loose
  PROVE  i = j
<1>1. rules[i].net \in Net /\ i \in Ids /\ j \in Ids
  BY UsedRow DEF IInv
<1> QED BY <1>1 DEF IInv, SharedIsLoose, Shared, Used

LEMMA OneRuleAfter ==
  ASSUME NEW nets, Loosen(nets), rules' \in Tables, NEW i \in Used', NEW j \in Used',
         rules'[i].net = rules'[j].net, rules'[i].net \notin loose'
  PROVE  i = j
<1>1. i \in Ids /\ j \in Ids /\ rules'[i] \in Rule /\ rules'[i] # NoRule /\ rules'[j] # NoRule
  BY DEF Used, Tables
<1>2. rules'[i].net \in Net
  BY <1>1 DEF Rule
<1>3. rules'[i].net \notin Shared(rules')
  BY DEF Loosen
<1> QED BY <1>1, <1>2, <1>3 DEF Shared

rows == <<communities, as_path, exa_api, up>>

\* While commands are lost there is no route, and none is due.
LEMMA LostTold ==
  ASSUME IInv, ~Delivered, UNCHANGED rows, NEW n \in Neighbor, NEW x \in Net,
         table'[n][x] = table[n][x]
  PROVE  Told(n, x)'
BY DEF IInv, DownIsEmpty, Delivered, Told, rows

\* A net of which neither the rule nor the route changes.
LEMMA KeptTold ==
  ASSUME IInv, UNCHANGED rows, UNCHANGED guarda, NEW n \in Neighbor, NEW x \in Net \ loose,
         \A i \in Ids : \/ rules'[i] = rules[i]
                        \/ /\ rules[i] = NoRule \/ rules[i].net # x
                           /\ rules'[i] = NoRule \/ rules'[i].net # x,
         table'[n][x] = table[n][x]
  PROVE  Told(n, x)'
<1>1. Deciding(n, x)' = Deciding(n, x)
  BY DEF Deciding, ActiveRules, Used, Targets, rows
<1>2. \A i \in Deciding(n, x) : rules'[i] = rules[i] /\ AttributesOf(rules[i])' = AttributesOf(rules[i])
  BY DEF Deciding, ActiveRules, Used, AttributesOf, rows
<1> QED BY <1>1, <1>2 DEF IInv, Told, rows

\* What a request leaves, when its tables have their types.
LEMMA RequestStep ==
  ASSUME IInv, NEW nets \in SUBSET Net, Loosen(nets), UNCHANGED rows,
         guarda' \in BOOLEAN, guarda' => guarda,
         rules' \in Tables, \A i \in Used' : rules'[i].community \in Saved,
         table' \in [Neighbor -> [Net -> Attributes \cup {NoRoute}]],
         ~Delivered => \A n \in Neighbor, x \in Net : table'[n][x] = table[n][x],
         Delivered => \A n \in Neighbor, x \in Net \ loose' : Told(n, x)'
  PROVE  IInv'
<1>1. TypeOK'
  BY DEF IInv, TypeOK, Loosen, Shared, rows, Tables
<1>2. RulesHaveCommunity'
  BY DEF RulesHaveCommunity, Saved, rows
<1>3. SharedIsLoose'
  BY DEF SharedIsLoose, Loosen
<1>4. DownIsEmpty'
  BY DEF IInv, DownIsEmpty, Delivered, rows
<1>5. \A n \in Neighbor, x \in Net \ loose' : Told(n, x)'
  BY LostTold
<1> QED BY <1>1, <1>2, <1>3, <1>4, <1>5 DEF IInv

\* A net with one rule, which is announced.
LEMMA AnnouncedTold ==
  ASSUME UNCHANGED rows, NEW n \in Neighbor, NEW x \in Net, NEW i \in Ids,
         \A j \in Used' : rules'[j].net = x => j = i,
         i \in Deciding(n, x)', table'[n][x] = AttributesOf(rules'[i])
  PROVE  Told(n, x)'
<1>1. \A j \in Deciding(n, x)' : j = i
  BY DEF Deciding, ActiveRules
<1>2. AttributesOf(rules'[i]) = AttributesOf(rules[i])'
  BY DEF AttributesOf, rows
<1> QED BY <1>1, <1>2 DEF Told

\* A net that has no rule for the neighbor, and no route.
LEMMA NoneTold ==
  ASSUME NEW n \in Neighbor, NEW x \in Net, Deciding(n, x)' = {}, table'[n][x] = NoRoute
  PROVE  Told(n, x)'
BY DEF Told

LEMMA SentOnce ==
  ASSUME NEW i, NEW sent \in Sent({i})
  PROVE  sent = {} \/ sent = {i}
BY DEF Sent

-----------------------------------------------------------------------------
(* Requests. *)

LEMMA CreateOrUpdateStep ==
  ASSUME IInv, NEW i \in Ids, NEW net \in Net, NEW c \in CommunityIds, NEW past \in BOOLEAN,
         NEW sent \in SUBSET Ids, CreateOrUpdateRtbh(i, net, c, past, sent)
  PROVE  IInv'
<1> DEFINE rule == [net |-> net, community |-> c, expired |-> past,
                    rstate |-> StateByTime(past)]
<1>1. /\ c \in Saved /\ UNCHANGED rows /\ guarda' = guarda
      /\ i \in Used => rules[i].net = net /\ rules[i].community = c
      /\ sent = {} \/ (sent = {i} /\ ~past)
      /\ Announce(sent)
      /\ Loosen(IF sent = {} /\ (i \in ActiveRules \/ ~past) THEN {net} ELSE {})
  BY SentOnce DEF CreateOrUpdateRtbh, Known, rows
<1>2. rules' = [rules EXCEPT ![i] = rule]
  BY DEF CreateOrUpdateRtbh
<1>3. rule \in Rule /\ rule # NoRule
  BY NoneAssumption DEF Rule, StateByTime
<1>4. /\ rules' \in Tables /\ rules'[i] = rule
      /\ \A j \in Ids : j # i => rules'[j] = rules[j]
  BY <1>2, <1>3 DEF IInv, TypeOK, Tables
<1>5. \A j \in Used' : rules'[j].community \in Saved
  BY <1>1, <1>4 DEF IInv, RulesHaveCommunity, Used
<1>6. table' \in [Neighbor -> [Net -> Attributes \cup {NoRoute}]]
  <2>1. AttributesOf(rules'[i]) \in Attributes
    BY <1>1, <1>3, <1>4, AttributesType DEF IInv
  <2> QED BY <1>1, <2>1, AnnounceType DEF IInv
<1>7. ASSUME Delivered, NEW n \in Neighbor, NEW x \in Net \ loose'
      PROVE  Told(n, x)'
  <2>1. x \notin loose
    BY <1>1 DEF Loosen
  <2>2. CASE x # net
    <3>1. table'[n][x] = table[n][x]
      BY <1>1, <1>4, <2>2, AnnounceEffect
    <3>2. (rules[i] = NoRule \/ rules[i].net # x) /\ rules'[i].net # x
      BY <1>1, <1>4, <2>2 DEF Used
    <3> QED BY <1>1, <1>4, <2>1, <3>1, <3>2, KeptTold
  <2>3. CASE x = net
    <3>1. \A j \in Used' : rules'[j].net = x => j = i
      BY <1>1, <1>3, <1>4, <2>3, OneRuleAfter DEF Used
    <3>2. \A j \in Used : rules[j].net = x => j = i
      BY <1>4, <3>1 DEF Used
    <3>3. CASE sent = {i} /\ n \in Targets(rule)
      <4>1. table'[n][x] = AttributesOf(rules'[i])
        BY <1>1, <1>4, <1>7, <2>3, <3>3, AnnounceEffect
      <4>2. i \in Deciding(n, x)'
        <5>1. Targets(rules[i])' = Targets(rule)
          BY <1>1, <1>4 DEF Targets, rows
        <5> QED BY <1>1, <1>3, <1>4, <2>3, <3>3, <5>1
                DEF Deciding, ActiveRules, Used, StateByTime
      <4> QED BY <1>1, <3>1, <4>1, <4>2, AnnouncedTold
    <3>4. CASE ~ (sent = {i} /\ n \in Targets(rule))
      <4>1. sent = {} => i \notin ActiveRules /\ past
        BY <1>1, <2>3 DEF Loosen
      <4>2. sent # {} => n \notin Targets(rule)
        BY <1>1, <3>4
      <4>3. i \notin Deciding(n, x)
        <5>1. i \in Used => Targets(rules[i]) = Targets(rule)
          BY <1>1 DEF Targets
        <5> QED BY <4>1, <4>2, <5>1 DEF Deciding, ActiveRules
      <4>4. i \notin Deciding(n, x)'
        <5>1. Targets(rules[i])' = Targets(rule)
          BY <1>1, <1>4 DEF Targets, rows
        <5>2. sent = {} => rules'[i].rstate # Active
          BY <1>4, <4>1 DEF StateByTime, Active, Withdrawn
        <5> QED BY <4>2, <5>1, <5>2 DEF Deciding, ActiveRules
      <4>5. Deciding(n, x) = {} /\ Deciding(n, x)' = {}
        BY <3>1, <3>2, <4>3, <4>4 DEF Deciding, ActiveRules
      <4>6. table'[n][x] = table[n][x]
        BY <1>1, <1>4, <3>4, AnnounceEffect
      <4> QED BY <2>1, <4>5, <4>6, NoneTold DEF IInv, Told
    <3> QED BY <3>3, <3>4
  <2> QED BY <2>2, <2>3
<1>8. ~Delivered => \A n \in Neighbor, x \in Net : table'[n][x] = table[n][x]
  BY <1>1, AnnounceEffect
<1>9. guarda' \in BOOLEAN
  BY <1>1 DEF IInv, TypeOK
<1> QED BY <1>1, <1>4, <1>5, <1>6, <1>7, <1>8, <1>9, RequestStep

\* One rule gets a new time or state, and the command for it is sent or its net
\* becomes loose.
LEMMA OneChanged ==
  ASSUME IInv, NEW i \in Used, UNCHANGED rows, UNCHANGED guarda,
         rules' \in Tables, rules'[i] # NoRule,
         rules'[i].net = rules[i].net, rules'[i].community = rules[i].community,
         \A j \in Ids : j # i => rules'[j] = rules[j],
         NEW sent \in Sent({i}), Loosen(IF sent = {} THEN NetsOf({i}) ELSE {}),
         IF rules'[i].rstate = Active THEN Announce(sent) ELSE Withdraw(sent)
  PROVE  IInv'
<1> DEFINE net == rules[i].net
           nets == IF sent = {} THEN NetsOf({i}) ELSE {}
<1>1. /\ i \in Ids /\ net \in Net /\ rules[i] \in Rule /\ rules'[i] \in Rule /\ i \in Used'
      /\ nets \in SUBSET Net /\ Loosen(nets)
  BY UsedRow DEF IInv, Tables, Used, NetsOf
<1>2. sent = {} \/ sent = {i}
  BY SentOnce
<1>3. Targets(rules'[i]) = Targets(rules[i]) /\ Targets(rules[i])' = Targets(rules[i])
  BY DEF Targets, rows
<1>4. table' \in [Neighbor -> [Net -> Attributes \cup {NoRoute}]]
  <2>1. AttributesOf(rules'[i]) \in Attributes
    BY <1>1, AttributesType DEF IInv, RulesHaveCommunity
  <2> QED BY <1>1, <1>2, <2>1, AnnounceType, WithdrawType DEF IInv
<1>5. ASSUME NEW n \in Neighbor, NEW x \in Net, ~Delivered
      PROVE  table'[n][x] = table[n][x]
  BY <1>1, <1>2, <1>5, AnnounceEffect, WithdrawEffect
<1>6. ASSUME Delivered, NEW n \in Neighbor, NEW x \in Net \ loose'
      PROVE  Told(n, x)'
  <2>1. x \notin loose
    BY <1>1 DEF Loosen
  <2>2. CASE x # net
    <3>1. table'[n][x] = table[n][x]
      BY <1>1, <1>2, <2>2, AnnounceEffect, WithdrawEffect
    <3> QED BY <2>1, <2>2, <3>1, KeptTold
  <2>3. CASE x = net
    <3>1. sent = {i}
      BY <1>2, <2>3 DEF Loosen, NetsOf
    <3>2. \A j \in Used : rules[j].net = x => j = i
      BY <2>1, <2>3, OneRule
    <3>3. \A j \in Used' : rules'[j].net = x => j = i
      BY <3>2 DEF Used
    <3>4. n \notin Targets(rules[i]) => Deciding(n, x) = {} /\ Deciding(n, x)' = {}
      BY <1>3, <3>2, <3>3 DEF Deciding, ActiveRules
    <3>5. Deciding(n, x) = {} => table[n][x] = NoRoute
      BY <2>1 DEF IInv, Told
    <3>6. CASE rules'[i].rstate = Active
      <4>1. CASE n \in Targets(rules[i])
        <5>1. table'[n][x] = AttributesOf(rules'[i])
          BY <1>1, <1>3, <1>6, <2>3, <3>1, <3>6, <4>1, AnnounceEffect
        <5>2. i \in Deciding(n, x)'
          BY <1>1, <1>3, <2>3, <3>6, <4>1 DEF Deciding, ActiveRules
        <5> QED BY <1>1, <3>3, <5>1, <5>2, AnnouncedTold
      <4>2. CASE n \notin Targets(rules[i])
        <5>1. table'[n][x] = table[n][x]
          BY <1>1, <1>3, <3>1, <3>6, <4>2, AnnounceEffect
        <5> QED BY <3>4, <3>5, <4>2, <5>1, NoneTold
      <4> QED BY <4>1, <4>2
    <3>7. CASE rules'[i].rstate # Active
      <4>1. Deciding(n, x)' = {}
        BY <3>3, <3>7 DEF Deciding, ActiveRules
      <4>2. table'[n][x] = NoRoute
        BY <1>1, <1>6, <2>3, <3>1, <3>4, <3>5, <3>7, WithdrawEffect
      <4> QED BY <4>1, <4>2, NoneTold
    <3> QED BY <3>6, <3>7
  <2> QED BY <2>2, <2>3
<1>7. guarda' \in BOOLEAN
  BY DEF IInv, TypeOK
<1>8. \A j \in Used' : rules'[j].community \in Saved
  BY DEF IInv, RulesHaveCommunity, Used
<1> QED BY <1>1, <1>4, <1>5, <1>6, <1>7, <1>8, RequestStep

LEMMA ReactivateStep ==
  ASSUME IInv, NEW i \in Ids, NEW past \in BOOLEAN, NEW sent \in SUBSET Ids,
         Reactivate(i, past, sent)
  PROVE  IInv'
<1> DEFINE rule == [rules[i] EXCEPT !.expired = past]
<1>1. i \in Used /\ rules[i] \in Rule /\ rule \in Rule /\ rule # NoRule
  BY UsedRow, NoneAssumption DEF IInv, Reactivate, Rule
<1>2. rules' = [rules EXCEPT ![i] = rule] /\ UNCHANGED rows /\ guarda' = guarda
  BY DEF Reactivate, rows
<1>3. rules' \in Tables /\ rules'[i] = rule /\ \A j \in Ids : j # i => rules'[j] = rules[j]
  BY <1>1, <1>2 DEF IInv, TypeOK, Tables
<1>4. /\ rule.net = rules[i].net /\ rule.community = rules[i].community
      /\ rule.rstate = rules[i].rstate
  BY <1>1 DEF Rule
<1> QED BY <1>1, <1>2, <1>3, <1>4, OneChanged DEF Reactivate

LEMMA GroupUpdateStep ==
  ASSUME IInv, NEW i \in Ids, NEW past \in BOOLEAN, NEW sent \in SUBSET Ids,
         GroupUpdateSave(i, past, sent)
  PROVE  IInv'
<1> DEFINE rule == [rules[i] EXCEPT !.rstate = StateByTime(past), !.expired = past]
<1>1. i \in Used /\ rules[i] \in Rule /\ rule \in Rule /\ rule # NoRule
  BY UsedRow, NoneAssumption DEF IInv, GroupUpdateSave, StateByTime, Rule
<1>2. rules' = [rules EXCEPT ![i] = rule] /\ UNCHANGED rows /\ guarda' = guarda
  BY DEF GroupUpdateSave, rows
<1>3. rules' \in Tables /\ rules'[i] = rule /\ \A j \in Ids : j # i => rules'[j] = rules[j]
  BY <1>1, <1>2 DEF IInv, TypeOK, Tables
<1>4. /\ rule.net = rules[i].net /\ rule.community = rules[i].community
      /\ rule.rstate = Active <=> ~past
  BY <1>1 DEF Rule, StateByTime, Active, Withdrawn
<1> QED BY <1>1, <1>2, <1>3, <1>4, OneChanged DEF GroupUpdateSave

\* A withdraw command for the rule that decides leaves no route.
LEMMA WithdrawnIsGone ==
  ASSUME IInv, NEW sent \in SUBSET Ids, Withdraw(sent),
         NEW n \in Neighbor, NEW x \in Net \ loose, Deciding(n, x) \subseteq sent
  PROVE  table'[n][x] = NoRoute
<1>1. CASE Deciding(n, x) = {} \/ ~Delivered
  <2>1. table[n][x] = NoRoute
    BY <1>1 DEF IInv, Told, DownIsEmpty
  <2> QED BY <2>1, WithdrawEffect
<1>2. CASE Deciding(n, x) # {} /\ Delivered
  <2>1. \E i \in sent : rules[i].net = x /\ n \in Targets(rules[i])
    BY <1>2 DEF Deciding
  <2> QED BY <1>2, <2>1, WithdrawEffect
<1> QED BY <1>1, <1>2

\* Some rules are deleted, or withdrawn: all that are withdrawn.
LEMMA WithdrawnStep ==
  ASSUME IInv, UNCHANGED rows, UNCHANGED guarda, NEW sent \in SUBSET Used,
         Withdraw(sent), Loosen({}), rules' \in Tables,
         \A i \in Ids \ sent : rules'[i] = rules[i],
         \A i \in sent : \/ rules'[i] = NoRule
                         \/ /\ rules'[i].net = rules[i].net
                            /\ rules'[i].community = rules[i].community
                            /\ rules'[i].rstate # Active
  PROVE  IInv'
<1>1. ASSUME NEW n \in Neighbor, NEW x \in Net \ loose'
      PROVE  Told(n, x)'
  <2>1. x \notin loose
    BY DEF Loosen
  <2>2. CASE \A i \in sent : rules[i].net # x
    <3>1. table'[n][x] = table[n][x]
      BY <2>2, WithdrawEffect, UsedRow DEF IInv
    <3>2. \A i \in sent : rules'[i] = NoRule \/ rules'[i].net # x
      BY <2>2
    <3> QED BY <2>1, <2>2, <3>1, <3>2, KeptTold
  <2>3. CASE \E i \in sent : rules[i].net = x
    <3>1. PICK i \in sent : rules[i].net = x
      BY <2>3
    <3>2. \A j \in Used : rules[j].net = x => j = i
      BY <2>1, <3>1, OneRule
    <3>3. table'[n][x] = NoRoute
      <4>1. Deciding(n, x) \subseteq sent /\ sent \in SUBSET Ids
        BY <3>1, <3>2 DEF Deciding, ActiveRules, Used
      <4> QED BY <2>1, <4>1, WithdrawnIsGone
    <3>4. Deciding(n, x)' = {}
      BY <3>1, <3>2 DEF Deciding, ActiveRules, Used
    <3> QED BY <3>3, <3>4, NoneTold
  <2> QED BY <2>2, <2>3
<1>2. ~Delivered => \A n \in Neighbor, x \in Net : table'[n][x] = table[n][x]
  BY WithdrawEffect DEF Used
<1>3. \A j \in Used' : rules'[j].community \in Saved
  BY DEF IInv, RulesHaveCommunity, Used
<1>4. guarda' \in BOOLEAN
  BY DEF IInv, TypeOK
<1> QED BY <1>1, <1>2, <1>3, <1>4, WithdrawType, RequestStep DEF IInv

\* A part of the withdraws is sent and the rules stay; the nets withdrawn are
\* loose, or their rules expired.
LEMMA FailedStep ==
  ASSUME IInv, UNCHANGED rows, UNCHANGED guarda, UNCHANGED rules, NEW sent \in SUBSET Used,
         Withdraw(sent), NEW nets \in SUBSET Net, Loosen(nets),
         \A i \in sent : rules[i].net \in nets \/ rules[i].expired
  PROVE  IInv'
<1>1. ASSUME NEW n \in Neighbor, NEW x \in Net \ loose'
      PROVE  Told(n, x)'
  <2>1. x \notin loose /\ x \notin nets
    BY DEF Loosen
  <2>2. CASE table'[n][x] = table[n][x]
    BY <2>1, <2>2, KeptTold
  <2>3. CASE table'[n][x] # table[n][x]
    <3>1. PICK i \in sent : rules[i].net = x
      BY <2>3, WithdrawEffect DEF Used
    <3>2. \A j \in Deciding(n, x) : j = i
      BY <2>1, <3>1, OneRule DEF Deciding, ActiveRules
    <3>3. rules[i].expired
      BY <2>1, <3>1
    <3>4. table'[n][x] = NoRoute
      BY <2>3, WithdrawEffect DEF Used
    <3>5. Deciding(n, x)' = Deciding(n, x)
      BY DEF Deciding, ActiveRules, Used, Targets, rows
    <3> QED BY <3>2, <3>3, <3>4, <3>5 DEF Told
  <2> QED BY <2>2, <2>3
<1>2. ~Delivered => \A n \in Neighbor, x \in Net : table'[n][x] = table[n][x]
  BY WithdrawEffect DEF Used
<1>3. \A j \in Used' : rules'[j].community \in Saved
  BY DEF IInv, RulesHaveCommunity, Used
<1>4. rules' \in Tables /\ guarda' \in BOOLEAN
  BY DEF IInv, TypeOK, Tables
<1> QED BY <1>1, <1>2, <1>3, <1>4, WithdrawType, RequestStep DEF IInv

LEMMA NetsType ==
  ASSUME TypeOK, NEW ids \in SUBSET Used
  PROVE  NetsOf(ids) \in SUBSET Net
BY UsedRow DEF NetsOf

LEMMA DeleteStep ==
  ASSUME IInv, NEW ids \in SUBSET Ids, NEW sent \in SUBSET Ids, Delete(ids, sent)
  PROVE  IInv'
<1>1. ids \subseteq Used /\ sent \subseteq ids /\ Withdraw(sent) /\ UNCHANGED rows /\ guarda' = guarda
  BY DEF Delete, Sent, rows
<1>2. CASE sent = ids
  <2>1. /\ Loosen({})
        /\ rules' = [i \in Ids |-> IF i \in ids THEN NoRule ELSE rules[i]]
    BY <1>2 DEF Delete
  <2>2. rules' \in Tables
    BY <2>1 DEF IInv, TypeOK, Tables
  <2> QED BY <1>1, <1>2, <2>1, <2>2, WithdrawnStep
<1>3. CASE sent # ids
  <2>1. Loosen(NetsOf(sent)) /\ rules' = rules
    BY <1>3 DEF Delete
  <2>2. NetsOf(sent) \in SUBSET Net /\ \A i \in sent : rules[i].net \in NetsOf(sent)
    BY <1>1, NetsType DEF IInv, NetsOf
  <2> QED BY <1>1, <2>1, <2>2, FailedStep
<1> QED BY <1>2, <1>3

LEMMA WithdrawExpiredStep ==
  ASSUME IInv, NEW sent \in SUBSET Ids, WithdrawExpired(sent)
  PROVE  IInv'
<1> DEFINE expired == {i \in ActiveRules : rules[i].expired}
<1>1. /\ sent \subseteq expired /\ Withdraw(sent) /\ Loosen({})
      /\ UNCHANGED rows /\ guarda' = guarda
  BY DEF WithdrawExpired, Sent, rows
<1>2. expired \subseteq Used
  BY DEF ActiveRules
<1>3. CASE sent = expired
  <2>1. rules' = [i \in Ids |-> IF i \in sent THEN [rules[i] EXCEPT !.rstate = Withdrawn]
                                ELSE rules[i]]
    BY <1>3 DEF WithdrawExpired
  <2>2. \A i \in sent : i \in Ids /\ rules[i] \in Rule
    BY <1>2, <1>3, UsedRow DEF IInv
  <2>3. rules' \in Tables
    <3>1. \A i \in sent : [rules[i] EXCEPT !.rstate = Withdrawn] \in Rule
      BY <2>2 DEF Rule
    <3> QED BY <2>1, <3>1 DEF IInv, TypeOK, Tables
  <2>4. \A i \in sent : /\ rules'[i].net = rules[i].net
                        /\ rules'[i].community = rules[i].community
                        /\ rules'[i].rstate # Active
    BY <2>1, <2>2 DEF Rule, Active, Withdrawn
  <2> QED BY <1>1, <1>2, <1>3, <2>1, <2>3, <2>4, WithdrawnStep
<1>4. CASE sent # expired
  <2>1. rules' = rules
    BY <1>4 DEF WithdrawExpired
  <2> QED BY <1>1, <1>2, <2>1, FailedStep
<1> QED BY <1>3, <1>4

LEMMA AnnounceAllStep ==
  ASSUME IInv, NEW sent \in SUBSET Ids, AnnounceAll(sent)
  PROVE  IInv'
<1> DEFINE valid == {i \in ActiveRules : ~rules[i].expired}
<1>1. /\ guarda /\ ~guarda' /\ guarda' \in BOOLEAN /\ sent \subseteq valid
      /\ rules' = rules /\ UNCHANGED rows
      /\ Announce(sent) /\ Loosen(NetsOf(valid \ sent))
  BY DEF AnnounceAll, Sent, rows
<1>2. valid \subseteq Used /\ up /\ Delivered
  BY <1>1 DEF ActiveRules, IInv, DownIsEmpty, Delivered
<1>3. NetsOf(valid \ sent) \in SUBSET Net
  BY <1>2, NetsType DEF IInv
<1>4. table' \in [Neighbor -> [Net -> Attributes \cup {NoRoute}]]
  <2>1. \A i \in sent : AttributesOf(rules'[i]) \in Attributes
    BY <1>1, <1>2, UsedRow, AttributesType DEF IInv, RulesHaveCommunity
  <2> QED BY <1>1, <2>1, AnnounceType DEF IInv
<1>5. ASSUME NEW n \in Neighbor, NEW x \in Net \ loose'
      PROVE  Told(n, x)'
  <2>1. x \notin loose /\ x \notin NetsOf(valid \ sent)
    BY <1>1 DEF Loosen
  <2>2. Deciding(n, x)' = Deciding(n, x)
    BY <1>1 DEF Deciding, ActiveRules, Used, Targets, rows
  <2>3. \A i \in Deciding(n, x) : AttributesOf(rules[i])' = AttributesOf(rules[i])
    BY <1>1 DEF AttributesOf, rows
  <2>4. CASE Deciding(n, x) = {}
    <3>1. \A i \in sent : ~ (rules'[i].net = x /\ n \in Targets(rules'[i]))
      BY <1>1, <2>4 DEF Deciding
    <3>2. table'[n][x] = table[n][x]
      BY <1>1, <3>1, AnnounceEffect
    <3> QED BY <2>1, <2>2, <2>4, <3>2 DEF IInv, Told
  <2>5. ASSUME NEW i \in Deciding(n, x), ~rules[i].expired
        PROVE  table'[n][x] = AttributesOf(rules[i])
    <3>1. i \in Used /\ rules[i].net = x /\ n \in Targets(rules[i])
      BY DEF Deciding, ActiveRules
    <3>2. i \in sent
      BY <2>1, <2>5 DEF Deciding, NetsOf
    <3>3. \A j \in sent : rules'[j].net = x => j = i
      BY <1>1, <1>2, <2>1, <3>1, OneRule
    <3>4. \E j \in sent : /\ rules'[j].net = x
                          /\ table'[n][x] = AttributesOf(rules'[j])
      BY <1>1, <1>2, <3>1, <3>2, AnnounceEffect
    <3> QED BY <1>1, <3>3, <3>4
  <2> QED BY <1>1, <2>2, <2>3, <2>4, <2>5 DEF Told
<1>6. \A j \in Used' : rules'[j].community \in Saved
  BY <1>1 DEF IInv, RulesHaveCommunity, Used
<1>7. rules' \in Tables
  BY <1>1 DEF IInv, TypeOK, Tables
<1> QED BY <1>1, <1>2, <1>3, <1>4, <1>5, <1>6, <1>7, RequestStep

-----------------------------------------------------------------------------
(* The administrator, time and ExaBGP. *)

\* Nothing is sent, and for the rules that decide nothing changes but the time.
LEMMA SilentTold ==
  ASSUME IInv, UNCHANGED <<table, up, guarda>>, NEW n \in Neighbor, NEW x \in Net \ loose,
         Deciding(n, x)' = Deciding(n, x),
         \A i \in Deciding(n, x) : /\ AttributesOf(rules[i])' = AttributesOf(rules[i])
                                   /\ rules[i].expired => rules'[i].expired
  PROVE  Told(n, x)'
BY DEF IInv, Told

LEMMA DeleteExpiredStep ==
  ASSUME IInv, NEW ids \in SUBSET Ids, DeleteExpired(ids)
  PROVE  IInv'
<1>1. /\ rules' = [i \in Ids |-> IF i \in ids THEN NoRule ELSE rules[i]]
      /\ UNCHANGED <<communities, as_path, exa_api, table, up, guarda, loose>>
      /\ \A i \in ids : i \in Used /\ rules[i].rstate # Active
  BY DEF DeleteExpired, Active, Withdrawn
<1>2. TypeOK' /\ DownIsEmpty'
  BY <1>1 DEF IInv, TypeOK, DownIsEmpty, Delivered
<1>3. Used' = Used \ ids /\ \A i \in Used' : rules'[i] = rules[i]
  BY <1>1 DEF Used
<1>4. RulesHaveCommunity' /\ SharedIsLoose'
  BY <1>1, <1>3 DEF IInv, RulesHaveCommunity, Saved, SharedIsLoose, Shared, Used
<1>5. ASSUME NEW n \in Neighbor, NEW x \in Net \ loose
      PROVE  Told(n, x)'
  <2>1. Deciding(n, x)' = Deciding(n, x)
    BY <1>1, <1>3 DEF Deciding, ActiveRules, Targets
  <2>2. \A i \in Deciding(n, x) : rules'[i] = rules[i]
    BY <2>1, <1>3 DEF Deciding, ActiveRules
  <2> QED BY <1>1, <2>1, <2>2, SilentTold DEF AttributesOf
<1> QED BY <1>1, <1>2, <1>4, <1>5 DEF IInv

LEMMA ExpireStep ==
  ASSUME IInv, NEW i \in Ids, Expire(i)
  PROVE  IInv'
<1> DEFINE rule == [rules[i] EXCEPT !.expired = TRUE]
<1>1. /\ i \in ActiveRules /\ i \in Used /\ rules' = [rules EXCEPT ![i] = rule]
      /\ UNCHANGED <<communities, as_path, exa_api, table, up, guarda, loose>>
  BY DEF Expire, ActiveRules
<1>2. rule \in Rule /\ rule # NoRule /\ rules[i] \in Rule
  BY <1>1, UsedRow, NoneAssumption DEF IInv, Rule
<1>3. /\ rule.net = rules[i].net /\ rule.community = rules[i].community
      /\ rule.rstate = rules[i].rstate /\ rule.expired
  BY <1>2 DEF Rule
<1> HIDE DEF rule
<1>4. rules' \in Tables /\ rules'[i] = rule /\ \A j \in Ids : j # i => rules'[j] = rules[j]
  BY <1>1, <1>2 DEF IInv, TypeOK, Tables
<1>5. Used' = Used
  BY <1>1, <1>2, <1>4 DEF Used
<1>6. /\ \A j \in Used : /\ rules'[j].net = rules[j].net
                         /\ rules'[j].community = rules[j].community
                         /\ rules'[j].rstate = rules[j].rstate
                         /\ rules[j].expired => rules'[j].expired
  BY <1>3, <1>4 DEF Used
<1>7. TypeOK' /\ DownIsEmpty'
  BY <1>1, <1>4 DEF IInv, TypeOK, DownIsEmpty, Delivered, Tables
<1>8. RulesHaveCommunity' /\ SharedIsLoose'
  BY <1>1, <1>5, <1>6 DEF IInv, RulesHaveCommunity, Saved, SharedIsLoose, Shared, Used
<1>9. ASSUME NEW n \in Neighbor, NEW x \in Net \ loose
      PROVE  Told(n, x)'
  <2>1. \A j \in Used : /\ Targets(rules[j])' = Targets(rules[j])
                        /\ AttributesOf(rules[j])' = AttributesOf(rules[j])
    BY <1>1, <1>6 DEF Targets, AttributesOf
  <2>2. Deciding(n, x)' = Deciding(n, x)
    BY <1>5, <1>6, <2>1 DEF Deciding, ActiveRules
  <2> QED BY <1>1, <1>6, <2>1, <2>2, SilentTold DEF Deciding, ActiveRules
<1> QED BY <1>1, <1>7, <1>8, <1>9 DEF IInv

\* A row of table Community changes; the nets of the active rules that have it are
\* loose, if there are any.
LEMMA CommunityStep ==
  ASSUME IInv, NEW c \in CommunityIds, NEW row \in Rows \cup {NoCommunity},
         communities' = [communities EXCEPT ![c] = row],
         UNCHANGED <<rules, as_path, exa_api, table, up, guarda>>,
         loose \subseteq loose', loose' \subseteq Net,
         \A i \in Used : rules[i].community = c =>
           row # NoCommunity /\ (i \in ActiveRules => rules[i].net \in loose')
  PROVE  IInv'
<1>1. communities'[c] = row /\ \A d \in CommunityIds : d # c => communities'[d] = communities[d]
  BY DEF IInv, TypeOK
<1>2. TypeOK' /\ DownIsEmpty' /\ SharedIsLoose'
  BY DEF IInv, TypeOK, DownIsEmpty, Delivered, SharedIsLoose, Shared
<1>3. RulesHaveCommunity'
  <2>1. ASSUME NEW i \in Used
        PROVE  communities'[rules[i].community] # NoCommunity /\ rules[i].community \in CommunityIds
    BY <1>1, UsedRow DEF IInv, RulesHaveCommunity, Saved
  <2> QED BY <2>1 DEF RulesHaveCommunity, Saved, Used
<1>4. ASSUME NEW n \in Neighbor, NEW x \in Net \ loose'
      PROVE  Told(n, x)'
  <2>1. \A i \in ActiveRules : rules[i].net = x =>
          communities'[rules[i].community] = communities[rules[i].community]
    BY <1>1, UsedRow DEF IInv, ActiveRules
  <2>2. Deciding(n, x)' = Deciding(n, x)
    BY <2>1 DEF Deciding, ActiveRules, Used, Targets
  <2>3. \A i \in Deciding(n, x) : AttributesOf(rules[i])' = AttributesOf(rules[i])
    BY <2>1 DEF Deciding, AttributesOf
  <2> QED BY <2>2, <2>3, SilentTold
<1> QED BY <1>2, <1>3, <1>4 DEF IInv

LEMMA AddCommunityStep ==
  ASSUME IInv, NEW c \in CommunityIds, NEW row \in Rows, AddCommunity(c, row)
  PROVE  IInv'
<1>1. \A i \in Used : rules[i].community # c
  BY DEF AddCommunity, IInv, RulesHaveCommunity
<1> QED BY <1>1, CommunityStep DEF AddCommunity, IInv, TypeOK

LEMMA EditCommunityStep ==
  ASSUME IInv, NEW c \in CommunityIds, NEW row \in Rows, EditCommunity(c, row)
  PROVE  IInv'
<1> DEFINE ids == {i \in ActiveRules : rules[i].community = c}
<1>1. /\ communities' = [communities EXCEPT ![c] = row]
      /\ loose' = loose \cup NetsOf(ids)
      /\ UNCHANGED <<rules, as_path, exa_api, table, up, guarda>>
  BY DEF EditCommunity
<1>2. NetsOf(ids) \in SUBSET Net /\ row # NoCommunity
  BY NetsType, RowsAssumption, NoneAssumption DEF IInv, ActiveRules
<1>3. \A i \in Used : rules[i].community = c =>
        row # NoCommunity /\ (i \in ActiveRules => rules[i].net \in loose')
  BY <1>1, <1>2 DEF NetsOf
<1> QED BY <1>1, <1>2, <1>3, CommunityStep DEF IInv, TypeOK

LEMMA DeleteCommunityStep ==
  ASSUME IInv, NEW c \in CommunityIds, DeleteCommunity(c)
  PROVE  IInv'
BY CommunityStep DEF DeleteCommunity, IInv, TypeOK

LEMMA ChangeAsPathStep ==
  ASSUME IInv, NEW net \in Net, NEW path \in Path \cup {NoPath}, ChangeAsPath(net, path)
  PROVE  IInv'
<1> DEFINE ids == {i \in ActiveRules : communities[rules[i].community].as_path}
<1>1. /\ as_path' = [as_path EXCEPT ![net] = path]
      /\ loose' = loose \cup (NetsOf(ids) \cap {net})
      /\ UNCHANGED <<rules, communities, exa_api, table, up, guarda>>
  BY DEF ChangeAsPath
<1>2. TypeOK' /\ DownIsEmpty' /\ SharedIsLoose' /\ RulesHaveCommunity'
  BY <1>1 DEF IInv, TypeOK, DownIsEmpty, Delivered, SharedIsLoose, Shared,
              RulesHaveCommunity, Saved, Used
<1>3. ASSUME NEW n \in Neighbor, NEW x \in Net \ loose'
      PROVE  Told(n, x)'
  <2>1. Deciding(n, x)' = Deciding(n, x)
    BY <1>1 DEF Deciding, ActiveRules, Used, Targets
  <2>2. ASSUME NEW i \in Deciding(n, x)
        PROVE  AttributesOf(rules[i])' = AttributesOf(rules[i])
    <3>1. i \in ActiveRules /\ rules[i].net = x
      BY DEF Deciding
    <3>2. communities[rules[i].community].as_path => x # net
      BY <1>1, <3>1 DEF NetsOf
    <3>3. x # net => as_path'[x] = as_path[x]
      BY <1>1 DEF IInv, TypeOK
    <3> QED BY <1>1, <3>1, <3>2, <3>3 DEF AttributesOf
  <2> QED BY <1>1, <2>1, <2>2, SilentTold
<1> QED BY <1>2, <1>3 DEF IInv

LEMMA CrashStep ==
  ASSUME IInv, Crash
  PROVE  IInv'
<1>1. \A n \in Neighbor, x \in Net : table'[n][x] = NoRoute
  BY DEF Crash
<1>2. TypeOK' /\ SharedIsLoose' /\ RulesHaveCommunity'
  BY DEF Crash, IInv, TypeOK, SharedIsLoose, Shared, RulesHaveCommunity, Saved, Used
<1>3. DownIsEmpty' /\ \A n \in Neighbor, x \in Net : Told(n, x)'
  BY <1>1 DEF Crash, DownIsEmpty, Told
<1> QED BY <1>2, <1>3 DEF IInv

\* What was loose before a restart is loose no more: there is no route left.
LEMMA RestartStep ==
  ASSUME IInv, Restart
  PROVE  IInv'
<1>1. /\ ~up /\ up' /\ guarda' /\ UNCHANGED <<rules, communities, as_path, exa_api, table>>
      /\ up' \in BOOLEAN /\ guarda' \in BOOLEAN
      /\ loose' = IF exa_api = "HTTP" THEN Shared(rules) ELSE loose
  BY DEF Restart
<1>2. TypeOK' /\ RulesHaveCommunity' /\ DownIsEmpty'
  BY <1>1 DEF IInv, TypeOK, RulesHaveCommunity, Saved, Used, DownIsEmpty, Delivered, Shared
<1>3. SharedIsLoose'
  BY <1>1 DEF IInv, SharedIsLoose, Shared
<1>4. ASSUME NEW n \in Neighbor, NEW x \in Net \ loose'
      PROVE  Told(n, x)'
  <2>1. Deciding(n, x)' = Deciding(n, x)
    BY <1>1 DEF Deciding, ActiveRules, Used, Targets
  <2>2. \A i \in Deciding(n, x) : AttributesOf(rules[i])' = AttributesOf(rules[i])
    BY <1>1 DEF AttributesOf
  <2>3. CASE exa_api = "HTTP"
    <3>1. table[n][x] = NoRoute
      BY <1>1, <2>3 DEF IInv, DownIsEmpty, Delivered
    <3> QED BY <1>1, <3>1 DEF Told
  <2>4. CASE exa_api # "HTTP"
    BY <1>1, <2>1, <2>2, <2>4 DEF IInv, Told
  <2> QED BY <2>3, <2>4
<1> QED BY <1>2, <1>3, <1>4 DEF IInv

-----------------------------------------------------------------------------
(* The invariant. *)

LEMMA InitIInv == Init => IInv
<1> SUFFICES ASSUME Init PROVE IInv
  OBVIOUS
<1>1. Used = {} /\ \A n \in Neighbor, x \in Net : table[n][x] = NoRoute
  BY DEF Init, Used
<1>2. TypeOK
  BY DEF Init, TypeOK
<1>3. RulesHaveCommunity /\ SharedIsLoose /\ DownIsEmpty
  BY <1>1 DEF Init, RulesHaveCommunity, SharedIsLoose, Shared, DownIsEmpty
<1>4. \A n \in Neighbor, x \in Net : Told(n, x)
  BY <1>1 DEF Told, Deciding, ActiveRules
<1> QED BY <1>2, <1>3, <1>4 DEF IInv

LEMMA RequestIInv ==
  ASSUME IInv, Request
  PROVE  IInv'
<1>1. ASSUME NEW i \in Ids, NEW x \in Net, NEW c \in CommunityIds, NEW past \in BOOLEAN,
             NEW sent \in SUBSET Ids, CreateOrUpdateRtbh(i, x, c, past, sent)
      PROVE  IInv'
  BY <1>1, CreateOrUpdateStep
<1>2. ASSUME NEW i \in Ids, NEW past \in BOOLEAN, NEW sent \in SUBSET Ids,
             Reactivate(i, past, sent) \/ GroupUpdateSave(i, past, sent)
      PROVE  IInv'
  BY <1>2, ReactivateStep, GroupUpdateStep
<1>3. ASSUME NEW ids \in SUBSET Ids, NEW sent \in SUBSET Ids, Delete(ids, sent)
      PROVE  IInv'
  BY <1>3, DeleteStep
<1>4. ASSUME NEW sent \in SUBSET Ids, WithdrawExpired(sent) \/ AnnounceAll(sent)
      PROVE  IInv'
  BY <1>4, WithdrawExpiredStep, AnnounceAllStep
<1>5. ASSUME NEW ids \in SUBSET Ids, DeleteExpired(ids)
      PROVE  IInv'
  BY <1>5, DeleteExpiredStep
<1> QED BY <1>1, <1>2, <1>3, <1>4, <1>5 DEF Request

LEMMA AdministerIInv ==
  ASSUME IInv, Administer
  PROVE  IInv'
<1>1. ASSUME NEW c \in CommunityIds, NEW row \in Rows,
             AddCommunity(c, row) \/ EditCommunity(c, row)
      PROVE  IInv'
  BY <1>1, AddCommunityStep, EditCommunityStep
<1>2. ASSUME NEW c \in CommunityIds, DeleteCommunity(c)
      PROVE  IInv'
  BY <1>2, DeleteCommunityStep
<1>3. ASSUME NEW x \in Net, NEW path \in Path \cup {NoPath}, ChangeAsPath(x, path)
      PROVE  IInv'
  BY <1>3, ChangeAsPathStep
<1> QED BY <1>1, <1>2, <1>3 DEF Administer

LEMMA NextIInv == IInv /\ [Next]_vars => IInv'
<1> SUFFICES ASSUME IInv, [Next]_vars PROVE IInv'
  OBVIOUS
<1>1. CASE Request
  BY <1>1, RequestIInv
<1>2. CASE Administer
  BY <1>2, AdministerIInv
<1>3. ASSUME NEW i \in Ids, Expire(i)
      PROVE  IInv'
  BY <1>3, ExpireStep
<1>4. CASE Crash
  BY <1>4, CrashStep
<1>5. CASE Restart
  BY <1>5, RestartStep
<1>6. CASE UNCHANGED vars
  <2>1. TypeOK' /\ RulesHaveCommunity' /\ SharedIsLoose' /\ DownIsEmpty'
    BY <1>6 DEF vars, IInv, TypeOK, RulesHaveCommunity, Saved, Used, SharedIsLoose,
                Shared, DownIsEmpty, Delivered
  <2>2. \A n \in Neighbor, x \in Net : Told(n, x)' <=> Told(n, x)
    BY <1>6 DEF vars, Told, Deciding, ActiveRules, Used, Targets, AttributesOf
  <2> QED BY <1>6, <2>1, <2>2 DEF vars, IInv
<1> QED BY <1>1, <1>2, <1>3, <1>4, <1>5, <1>6 DEF Next

LEMMA AlwaysIInv == Spec => []IInv
BY InitIInv, NextIInv, PTL DEF Spec

-----------------------------------------------------------------------------
(* Theorems. *)

\* Rules, communities and routes keep their types, for any number of each.
THEOREM TypeCorrect == Spec => []TypeOK
BY AlwaysIInv, PTL DEF IInv

\* No rule is left without its community, whatever the administrator deletes.
THEOREM CommunitiesStay == Spec => []RulesHaveCommunity
BY AlwaysIInv, PTL DEF IInv

\* Every neighbor has the routes of the rules, with their attributes, but for the
\* nets that were made loose, over HTTP and RabbitMQ, however often ExaBGP crashes.
THEOREM NeighborsKnow == Spec => []NeighborsKnowTheRules
<1>1. IInv => NeighborsKnowTheRules
  BY DEF IInv, Told, NeighborsKnowTheRules
<1> QED BY <1>1, AlwaysIInv, PTL

\* The requests that delete rules take the route first, or find none.
LEMMA StepDeletesWithdrawn ==
  ASSUME IInv, [Next]_vars, NEW i \in Used, rules'[i] = NoRule, rules[i].net \notin loose,
         NEW n \in Targets(rules[i]), n \in Neighbor
  PROVE  table'[n][rules[i].net] = NoRoute
<1> DEFINE x == rules[i].net
<1>1. i \in Ids /\ x \in Net /\ x \notin loose /\ rules[i] # NoRule
  BY UsedRow DEF IInv, Used
<1>2. \A j \in Deciding(n, x) : j = i
  BY <1>1, OneRule DEF Deciding, ActiveRules
<1>3. ASSUME NEW ids \in SUBSET Ids, NEW sent \in SUBSET Ids, Delete(ids, sent)
      PROVE  table'[n][x] = NoRoute
  <2>1. Withdraw(sent)
    BY <1>3 DEF Delete
  <2>2. sent = ids /\ i \in ids
    BY <1>1, <1>3 DEF Delete
  <2> QED BY <1>1, <1>2, <2>1, <2>2, WithdrawnIsGone
<1>4. ASSUME NEW ids \in SUBSET Ids, DeleteExpired(ids)
      PROVE  table'[n][x] = NoRoute
  <2>1. UNCHANGED table /\ rules[i].rstate = Withdrawn
    BY <1>1, <1>4 DEF DeleteExpired
  <2>2. Deciding(n, x) = {}
    BY <1>2, <2>1 DEF Deciding, ActiveRules, Active, Withdrawn
  <2> QED BY <1>1, <2>1, <2>2 DEF IInv, Told
\* The other actions delete no rule.
<1>5. ASSUME NEW j \in Ids, NEW y \in Net, NEW c \in CommunityIds, NEW past \in BOOLEAN,
             NEW sent \in SUBSET Ids, CreateOrUpdateRtbh(j, y, c, past, sent)
      PROVE  FALSE
  <2>1. [net |-> y, community |-> c, expired |-> past, rstate |-> StateByTime(past)] \in Rule
    BY DEF Rule, StateByTime
  <2> QED BY <1>1, <1>5, <2>1, NoneAssumption DEF CreateOrUpdateRtbh, IInv, TypeOK
<1>6. ASSUME NEW j \in Ids, NEW past \in BOOLEAN, NEW sent \in SUBSET Ids,
             Reactivate(j, past, sent) \/ GroupUpdateSave(j, past, sent)
      PROVE  FALSE
  <2>1. j \in Used /\ rules[j] \in Rule
    BY <1>6, UsedRow DEF Reactivate, GroupUpdateSave, IInv
  <2>2. /\ [rules[j] EXCEPT !.expired = past] \in Rule
        /\ [rules[j] EXCEPT !.rstate = StateByTime(past), !.expired = past] \in Rule
    BY <2>1 DEF Rule, StateByTime
  <2> QED BY <1>1, <1>6, <2>2, NoneAssumption DEF Reactivate, GroupUpdateSave, IInv, TypeOK
<1>7. ASSUME NEW sent \in SUBSET Ids, WithdrawExpired(sent)
      PROVE  FALSE
  <2>1. [rules[i] EXCEPT !.rstate = Withdrawn] \in Rule
    BY <1>1, UsedRow DEF IInv, Rule
  <2> QED BY <1>1, <1>7, <2>1, NoneAssumption DEF WithdrawExpired
<1>8. ASSUME NEW j \in Ids, Expire(j)
      PROVE  FALSE
  <2>1. j \in Used /\ rules[j] \in Rule
    BY <1>8, UsedRow DEF Expire, ActiveRules, IInv
  <2>2. [rules[j] EXCEPT !.expired = TRUE] \in Rule
    BY <2>1 DEF Rule
  <2> QED BY <1>1, <1>8, <2>2, NoneAssumption DEF Expire, IInv, TypeOK
<1>9. UNCHANGED rules => FALSE
  BY <1>1
<1>10. ASSUME NEW sent \in SUBSET Ids, AnnounceAll(sent)
       PROVE  FALSE
  BY <1>9, <1>10 DEF AnnounceAll
<1>11. Administer \/ Crash \/ Restart \/ UNCHANGED vars => FALSE
  BY <1>9 DEF Administer, AddCommunity, EditCommunity, DeleteCommunity, ChangeAsPath,
              Crash, Restart, vars
<1> QED BY <1>3, <1>4, <1>5, <1>6, <1>7, <1>8, <1>10, <1>11 DEF Next, Request

LEMMA TargetsType ==
  ASSUME NEW rule
  PROVE  Targets(rule) \subseteq Neighbor
BY ConfigAssumption DEF Targets

\* No rule of a net that is not loose is deleted before all neighbors of its
\* community have lost the route.
THEOREM DeletedWithdrawn == Spec => DeletedIsWithdrawn
<1>1. IInv /\ [Next]_vars =>
        [\A i \in Used : rules'[i] = NoRule /\ rules[i].net \notin loose
           => \A n \in Targets(rules[i]) : table'[n][rules[i].net] = NoRoute]_vars
  BY StepDeletesWithdrawn, TargetsType
<1> QED BY <1>1, AlwaysIInv, PTL DEF Spec, DeletedIsWithdrawn

=============================================================================
