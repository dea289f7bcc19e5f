------------------------ MODULE RtbhWhitelistRoutes ------------------------
(***************************************************************************)
(* What RtbhWhitelist keeps between the rules and the routes ExaBGP        *)
(* announces, and what its steps never do, for every value of its          *)
(* constants.                                                              *)
(***************************************************************************)
EXTENDS RtbhWhitelistSafety, FiniteSetTheorems, WellFoundedInduction

Valid(rule) == rule.rstate = Active /\ rule.expires >= now

\* A rule about to be made active is announced, is about to be, or lost its
\* route to a request since.
RestoreAnnounced == BeingRestored \subseteq call.routes \cup bgp \cup disturbed

\* The invariant that is inductive: the history holds every prefix shared now.
RoutesInv ==
  TablesInv /\ ActiveIsAnnounced /\ SharedNets(rtbh) \subseteq disturbed /\ RestoreAnnounced

LEMMA RoutesTypes ==
  ASSUME RoutesInv
  PROVE  TypeOK /\ rtbh \in [Ids -> Rule \cup {NoRule}] /\ rtbh \in Rules
BY DEF RoutesInv, TablesInv, TypeOK, Rules

\* A rule that is active after an evaluation is a part or was there before.
LEMMA ActiveAfter ==
  ASSUME NEW rules, NEW rows, NEW E, NEW fresh, Evaluates(rules, rows, E, fresh),
         NEW i \in Used(rtbh'), rtbh'[i].rstate = Active
  PROVE  \/ rtbh'[i].net \in PartNets(rules, E)
         \/ i \in Used(rules) /\ rtbh'[i] = rules[i] /\ \A w \in Net : <<i, w>> \notin E
<1>1. i \in Ids /\ rtbh'[i] # NoRule
  BY DEF Used
<1>2. ASSUME NEW p \in PartsOf(rules, E), IsPart(rules, E, fresh, i, p)
      PROVE  rtbh'[i].net \in PartNets(rules, E)
  BY <1>2 DEF IsPart, PartNets
<1>3. ~ IsWhitelisted(rules, E, i)
  <2> SUFFICES ASSUME IsWhitelisted(rules, E, i) PROVE FALSE
    OBVIOUS
  <2>1. rules[i] \in Rule /\ rtbh'[i] = [rules[i] EXCEPT !.rstate = Whitelisted]
    BY DEF IsWhitelisted, Used, Evaluates, Rules
  <2> QED BY <2>1 DEF Rule, Active, Whitelisted
<1>4. CASE IsKept(rules, E, i)
  BY <1>1, <1>4 DEF IsKept, Used
<1> QED BY <1>1, <1>2, <1>3, <1>4, EvaluatedShape

\* Two rules that share a prefix are in the history.
LEMMA SharedIsDisturbed ==
  ASSUME TypeOK', NoteHistory, NEW i \in Used(rtbh'), NEW j \in Used(rtbh'),
         i # j, rtbh'[i].net = rtbh'[j].net
  PROVE  rtbh'[i].net \in disturbed'
<1>1. rtbh'[i].net \in Net
  BY DEF Used, TypeOK, Rule
<1> QED BY <1>1 DEF NoteHistory, SharedNets

LEMMA SharedBefore ==
  ASSUME RoutesInv, NEW i \in Used(rtbh), NEW j \in Used(rtbh),
         i # j, rtbh[i].net = rtbh[j].net
  PROVE  rtbh[i].net \in disturbed
<1>1. rtbh[i].net \in Net
  BY DEF RoutesInv, TablesInv, Used, TypeOK, Rule
<1> QED BY <1>1 DEF RoutesInv, SharedNets

LEMMA CreatedAnnounces ==
  ASSUME RoutesInv, TypeOK', NEW i, NEW rule, NEW E, NEW fresh,
         Created(i, rule, E, fresh)
  PROVE  ActiveIsAnnounced'
<1> DEFINE rules == [rtbh EXCEPT ![i] = rule]
<1>1. Evaluates(rules, cache, E, fresh) /\ now' = now /\ disturbed \subseteq disturbed'
  BY DEF Created, Evaluates, NoteHistory
<1>2. bgp' = bgp \cup PartNets(rules, E) \cup {n \in {rule.net} : rtbh'[i].rstate = Active}
  BY DEF Created
<1> SUFFICES ASSUME NEW j \in Used(rtbh'), rtbh'[j].rstate = Active,
                    rtbh'[j].expires >= now', rtbh'[j].net \notin disturbed'
             PROVE  rtbh'[j].net \in bgp'
  BY DEF ActiveIsAnnounced
<1>3. CASE j \in Used(rules) /\ rtbh'[j] = rules[j]
  <2>1. CASE j = i
    <3>1. rules[j] = rule
      BY <2>1 DEF Created, TypeOK, RoutesInv, TablesInv
    <3> QED BY <1>2, <1>3, <2>1, <3>1
  <2>2. CASE j # i
    <3>1. rules[j] = rtbh[j] /\ j \in Used(rtbh)
      BY <1>3, <2>2 DEF Used, TypeOK, RoutesInv, TablesInv
    <3> QED BY <1>1, <1>2, <1>3, <3>1 DEF RoutesInv, ActiveIsAnnounced
  <2> QED BY <2>1, <2>2
<1>4. CASE rtbh'[j].net \in PartNets(rules, E)
  BY <1>2, <1>4
<1> HIDE DEF rules
<1> QED BY <1>1, <1>3, <1>4, ActiveAfter

LEMMA ReactivatedAnnounces ==
  ASSUME RoutesInv, TypeOK', NEW i, NEW rule, NEW E, NEW fresh,
         Reactivated(i, rule, E, fresh)
  PROVE  ActiveIsAnnounced'
<1> DEFINE rules == [rtbh EXCEPT ![i] = rule]
           routes == bgp \cup PartNets(rules, E)
<1>1. /\ Evaluates(rules, cache, E, fresh) /\ NoteHistory
      /\ now' = now /\ disturbed \subseteq disturbed'
  BY DEF Reactivated, Evaluates, NoteHistory
<1>2. bgp' = IF rtbh'[i].rstate = Active THEN routes \cup {rule.net} ELSE routes \ {rule.net}
  BY DEF Reactivated
<1>3. i \in Used(rules) /\ rules[i] = rule
  BY NoValueAssumption DEF Reactivated, TypeOK, RoutesInv, TablesInv, Used
<1>4. i \in Used(rtbh') /\ rtbh'[i].net = rule.net
  <2> HIDE DEF rules
  <2> QED BY <1>1, <1>3, UsedAfter
<1> SUFFICES ASSUME NEW j \in Used(rtbh'), rtbh'[j].rstate = Active,
                    rtbh'[j].expires >= now', rtbh'[j].net \notin disturbed'
             PROVE  rtbh'[j].net \in bgp'
  BY DEF ActiveIsAnnounced
<1>5. CASE j = i
  BY <1>2, <1>4, <1>5
<1>6. CASE j # i
  <2>1. rtbh'[j].net # rule.net
    BY <1>1, <1>4, <1>6, SharedIsDisturbed
  <2>2. rtbh'[j].net \in routes
    <3>1. CASE j \in Used(rules) /\ rtbh'[j] = rules[j]
      <4>1. rules[j] = rtbh[j] /\ j \in Used(rtbh)
        BY <1>6, <3>1 DEF Used, TypeOK, RoutesInv, TablesInv
      <4> QED BY <1>1, <3>1, <4>1 DEF RoutesInv, ActiveIsAnnounced
    <3>2. CASE rtbh'[j].net \in PartNets(rules, E)
      BY <3>2
    <3> HIDE DEF rules
    <3> QED BY <1>1, <3>1, <3>2, ActiveAfter
  <2> HIDE DEF routes
  <2> QED BY <1>2, <2>1, <2>2
<1> QED BY <1>5, <1>6

\* Storing a whitelist keeps what was announced of the rules it is stored
\* for, but what it covers.
LEMMA ListedAnnounces ==
  ASSUME TypeOK', NEW rules, NEW rows, NEW routes, NEW wl, NEW S, NEW fresh,
         Listed(rules, rows, routes, wl, S, fresh),
         \A j \in Used(rules) : Valid(rules[j]) /\ rules[j].net \notin disturbed'
                                  => rules[j].net \in routes
  PROVE  ActiveIsAnnounced'
<1> DEFINE E == S \X {wl}
<1>1. Evaluates(rules, rows, E, fresh) /\ NoteHistory /\ now' = now
  BY DEF Listed, Evaluates
<1>2. bgp' = (routes \ NetsOf(rules, Covered(rules, S, wl))) \cup PartNets(rules, E)
  BY DEF Listed
<1> SUFFICES ASSUME NEW j \in Used(rtbh'), rtbh'[j].rstate = Active,
                    rtbh'[j].expires >= now', rtbh'[j].net \notin disturbed'
             PROVE  rtbh'[j].net \in bgp'
  BY DEF ActiveIsAnnounced
<1>3. CASE /\ j \in Used(rules) /\ rtbh'[j] = rules[j]
           /\ \A w \in Net : <<j, w>> \notin E
  <2>1. rtbh'[j].net \in routes
    BY <1>1, <1>3 DEF Valid
  <2>2. ASSUME NEW k \in Covered(rules, S, wl)
        PROVE  rules[k].net # rtbh'[j].net
    <3>1. k \in S /\ k \in Used(rules)
      BY DEF Covered, Listed, OnePerNet, Candidates
    <3>2. k # j
      BY <1>3, <3>1 DEF Listed
    <3>3. k \in Used(rtbh') /\ rtbh'[k].net = rules[k].net
      BY <1>1, <3>1, UsedAfter
    <3> QED BY <1>1, <3>2, <3>3, SharedIsDisturbed
  <2> QED BY <1>2, <2>1, <2>2 DEF NetsOf
<1>4. CASE rtbh'[j].net \in PartNets(rules, E)
  BY <1>2, <1>4
<1> HIDE DEF E
<1> QED BY <1>1, <1>3, <1>4, ActiveAfter

\* A step that leaves the rules that stay, or those but some routes, alone.
LEMMA RemovalAnnounces ==
  ASSUME RoutesInv, NEW ids \in SUBSET Ids, rtbh' = RulesWithout(rtbh, ids),
         now' = now, disturbed \subseteq disturbed',
         NEW gone \in SUBSET ids, gone \subseteq Used(rtbh),
         bgp' = bgp \ NetsOf(rtbh, gone)
  PROVE  ActiveIsAnnounced'
<1> SUFFICES ASSUME NEW j \in Used(rtbh'), rtbh'[j].rstate = Active,
                    rtbh'[j].expires >= now', rtbh'[j].net \notin disturbed'
             PROVE  rtbh'[j].net \in bgp'
  BY DEF ActiveIsAnnounced
<1>1. j \in Used(rtbh) /\ j \notin ids /\ rtbh'[j] = rtbh[j]
  BY DEF RulesWithout, Used
<1>2. rtbh[j].net \in bgp
  BY <1>1 DEF RoutesInv, ActiveIsAnnounced
<1>3. \A k \in gone : rtbh[k].net # rtbh[j].net
  BY <1>1, SharedBefore
<1> QED BY <1>1, <1>2, <1>3 DEF NetsOf

LEMMA DeleteWhitelistAnnounces ==
  ASSUME RoutesInv, NEW wl \in Net, DeleteWhitelistEffect(wl), now' = now
  PROVE  ActiveIsAnnounced'
<1> SUFFICES ASSUME NEW j \in Used(rtbh'), rtbh'[j].rstate = Active,
                    rtbh'[j].expires >= now', rtbh'[j].net \notin disturbed'
             PROVE  rtbh'[j].net \in bgp'
  BY DEF ActiveIsAnnounced
<1>1. /\ bgp' = bgp \cup NetsOf(rtbh, RestoredBy(wl))
      /\ rtbh' = [i \in Ids |-> IF i \in CreatedBy(wl) THEN NoRule
                                ELSE IF i \in RestoredBy(wl)
                                THEN [rtbh[i] EXCEPT !.rstate = Active]
                                ELSE rtbh[i]]
      /\ disturbed \subseteq disturbed'
  BY DEF DeleteWhitelistEffect, NoteHistory
<1>2. j \in Ids /\ rtbh'[j] # NoRule /\ j \notin CreatedBy(wl)
  BY <1>1 DEF Used
<1>3. CASE j \in RestoredBy(wl)
  <2>1. rtbh[j] \in Rule
    BY <1>3 DEF RestoredBy, Used, RoutesInv, TablesInv, TypeOK
  <2>2. rtbh'[j] = [rtbh[j] EXCEPT !.rstate = Active]
    BY <1>1, <1>2, <1>3
  <2>3. rtbh'[j].net = rtbh[j].net
    BY <2>1, <2>2 DEF Rule
  <2> QED BY <1>1, <1>3, <2>3 DEF NetsOf
<1>4. CASE j \notin RestoredBy(wl)
  <2>1. rtbh'[j] = rtbh[j] /\ j \in Used(rtbh)
    BY <1>1, <1>2, <1>4 DEF Used
  <2> QED BY <1>1, <2>1 DEF RoutesInv, ActiveIsAnnounced
<1> QED BY <1>3, <1>4

\* The call marks rules, and does nothing else to them.
LEMMA MarkedRules ==
  ASSUME TypeOK, CronMark, NEW i \in Used(rtbh')
  PROVE  /\ i \in Used(rtbh) /\ rtbh'[i].net = rtbh[i].net
         /\ rtbh'[i].rstate # Active \/ rtbh'[i] = rtbh[i]
<1>1. i \in Ids /\ rtbh'[i] # NoRule
  BY DEF Used
<1>2. CASE i \in call.ids
  <2>1. rtbh[i] \in Rule /\ i \in Used(rtbh)
    BY <1>1, <1>2 DEF CronMark, Used, TypeOK
  <2>2. rtbh'[i] = [rtbh[i] EXCEPT !.rstate = Withdrawn]
    BY <1>1, <1>2 DEF CronMark
  <2> QED BY <2>1, <2>2 DEF Rule, Active, Withdrawn
<1>3. CASE i \notin call.ids
  BY <1>1, <1>3 DEF CronMark, Used
<1> QED BY <1>2, <1>3

\* What the first commit of a whitelist's deletion leaves of the rules.
LEMMA ClearedRules ==
  ASSUME TypeOK, ClearRows, NEW i \in Used(rtbh')
  PROVE  /\ i \in Used(rtbh) /\ i \notin call.drop
         /\ i \in call.ids => rtbh'[i] = [rtbh[i] EXCEPT !.rstate = Active]
         /\ i \notin call.ids => rtbh'[i] = rtbh[i]
         /\ rtbh'[i].net = rtbh[i].net /\ rtbh'[i].expires = rtbh[i].expires
<1>1. i \in Ids /\ rtbh'[i] # NoRule
  BY DEF Used
<1>2. rtbh'[i] = IF i \in call.drop THEN NoRule
                 ELSE IF i \in call.ids THEN [rtbh[i] EXCEPT !.rstate = Active]
                 ELSE rtbh[i]
  BY <1>1 DEF ClearRows
<1>3. i \in Used(rtbh) /\ i \notin call.drop
  BY <1>1, <1>2 DEF ClearRows, Used
<1>4. rtbh[i] \in Rule
  BY <1>3 DEF Used, TypeOK
<1> QED BY <1>2, <1>3, <1>4 DEF Rule

\* The steps of the call that write no rule and withdraw nothing.
Quiet ==
  UNCHANGED rtbh /\ bgp \subseteq bgp' /\ now' = now /\ disturbed \subseteq disturbed'

LEMMA CallForms ==
  ASSUME TypeOK, CallStart \/ CallStep
  PROVE  \/ Quiet \/ ClearRows \/ CronMark
         \/ \E n \in Net : CronWithdraw(n)
         \/ \E flow \in SUBSET FlowIds : CronPurgeRules(flow)
<1>1. ASSUME NEW w \in Net, RequestReadWhitelist(w) \/ CronReadWhitelist(w) \/ RestoreRoute(w)
      PROVE  Quiet
  BY <1>1 DEF Quiet, RequestReadWhitelist, CronReadWhitelist, RestoreRoute
<1>2. ASSUME NEW i \in Ids, CronPurgeRows(i)
      PROVE  Quiet
  BY <1>2 DEF Quiet, CronPurgeRows
<1>3. CASE RestoredRuleGone \/ DropWhitelist \/ WhitelistGone \/ CronStart
  BY <1>3 DEF Quiet, RestoredRuleGone, DropWhitelist, WhitelistGone, CronStart
<1>4. CASE CronReadExpired \/ CronMarkGone \/ CronReadOld \/ CronEnd
  BY <1>4 DEF Quiet, CronReadExpired, CronMarkGone, CronReadOld, CronEnd
<1> QED BY <1>1, <1>2, <1>3, <1>4 DEF CallStart, CallStep

\* Each step notes the prefixes it makes two rules share.
LEMMA StepShared ==
  ASSUME RoutesInv, [Next]_vars
  PROVE  SharedNets(rtbh') \subseteq disturbed'
<1>t. TypeOK
  BY RoutesTypes
<1>0. ASSUME UNCHANGED rtbh, disturbed \subseteq disturbed'
      PROVE  SharedNets(rtbh') \subseteq disturbed'
  BY <1>0 DEF RoutesInv
<1>1. ASSUME NoteHistory
      PROVE  SharedNets(rtbh') \subseteq disturbed'
  BY <1>1 DEF NoteHistory
<1>2. CASE CronMark
  <2>1. SharedNets(rtbh') \subseteq SharedNets(rtbh)
    BY <1>2, <1>t, MarkedRules DEF SharedNets
  <2> QED BY <1>2, <2>1 DEF CronMark, RoutesInv
<1>3. CASE RuleRequest \/ WhitelistRequest \/ Tick \/ UNCHANGED vars
  BY <1>0, <1>1, <1>3, <1>t, RequestNotes DEF Noted
<1>4. ASSUME NEW n \in Net, CronWithdraw(n)
      PROVE  UNCHANGED rtbh /\ disturbed \subseteq disturbed'
  BY <1>4 DEF CronWithdraw
<1>5. CASE CallStart \/ CallStep
  BY <1>0, <1>1, <1>2, <1>4, <1>5, <1>t, CallForms DEF Quiet, ClearRows, CronPurgeRules
<1> QED BY <1>3, <1>5 DEF Next

\* Between the announcement and the commit the route stays, or its loss is noted.
LEMMA StepRestores ==
  ASSUME RoutesInv, TypeOK', [Next]_vars
  PROVE  RestoreAnnounced'
<1>t. TypeOK /\ call \in CallType
  BY RoutesTypes DEF TypeOK, CallType
<1>i. ASSUME call'.pc # "restore"
      PROVE  RestoreAnnounced'
  BY <1>i DEF RestoreAnnounced, BeingRestored
<1>1. CASE RuleRequest \/ WhitelistRequest \/ Tick \/ UNCHANGED vars
  <2>1. CallKept /\ Noted /\ KeepsRules
    BY <1>1, <1>t, RequestNotes
  <2> SUFFICES ASSUME call.pc = "restore", NEW i \in call.ids \cap Used(rtbh')
               PROVE  rtbh'[i].net \in call'.routes \cup bgp' \cup disturbed'
    BY <2>1 DEF RestoreAnnounced, BeingRestored, NetsOf, CallKept
  <2>2. i \notin FreeIds
    BY DEF FreeIds, Claimed
  <2>3. i \in Used(rtbh) /\ rtbh'[i].net = rtbh[i].net
    BY <2>1, <2>2 DEF KeepsRules
  <2>4. rtbh[i].net \in BeingRestored
    BY <2>3 DEF BeingRestored, NetsOf
  <2>5. rtbh[i].net \in call.routes \cup bgp \cup disturbed
    BY <2>4 DEF RoutesInv, RestoreAnnounced
  <2>6. disturbed \subseteq disturbed'
    BY <2>1 DEF Noted, NoteHistory
  <2>7. rtbh[i].net \in bgp => rtbh[i].net \in bgp' \cup disturbed'
    BY <2>1, <2>4 DEF Noted, NoteHistory
  <2> QED BY <2>1, <2>3, <2>5, <2>6, <2>7 DEF CallKept
<1>2. ASSUME NEW listing \in CallType, NEW wl \in Net, ReadRows(listing, wl), UNCHANGED rtbh
      PROVE  RestoreAnnounced'
  <2>1. call'.ids \subseteq RestoredBy(wl) /\ call'.routes = NetsOf(rtbh, RestoredBy(wl))
    BY <1>2 DEF ReadRows, CallType
  <2> QED BY <1>2, <2>1 DEF RestoreAnnounced, BeingRestored, NetsOf
<1>3. ASSUME NEW w \in Net, RequestReadWhitelist(w)
      PROVE  RestoreAnnounced'
  <2> DEFINE listing == [Idle EXCEPT !.user = TRUE, !.wls = {w}]
  <2>1. listing \in CallType
    BY DEF CallType, Idle
  <2>2. ReadRows(listing, w) /\ UNCHANGED rtbh
    BY <1>3 DEF RequestReadWhitelist
  <2> HIDE DEF listing
  <2> QED BY <1>2, <2>1, <2>2
<1>4. ASSUME NEW w \in Net, CronReadWhitelist(w)
      PROVE  RestoreAnnounced'
  BY <1>2, <1>4, <1>t DEF CronReadWhitelist
<1>5. ASSUME NEW n \in Net, RestoreRoute(n)
      PROVE  RestoreAnnounced'
  <2>1. /\ call'.pc = call.pc /\ call'.ids = call.ids /\ call'.routes = call.routes \ {n}
        /\ UNCHANGED <<rtbh, disturbed>> /\ bgp' = bgp \cup {n}
    BY <1>5, <1>t DEF RestoreRoute, CallType
  <2>2. BeingRestored' = BeingRestored
    BY <2>1 DEF BeingRestored
  <2> QED BY <2>1, <2>2 DEF RoutesInv, RestoreAnnounced
<1>6. CASE ClearRows \/ DropWhitelist \/ CronStart
  <2>1. CASE ClearRows
    BY <2>1, <1>i, <1>t DEF ClearRows, CallType
  <2>2. CASE DropWhitelist
    <3>1. call'.pc \in {"idle", "whitelists"}
      BY <2>2, <1>t DEF DropWhitelist, Idle, CallType
    <3> QED BY <1>i, <3>1
  <2>3. CASE CronStart
    BY <2>3, <1>i DEF CronStart, Idle
  <2> QED BY <1>6, <2>1, <2>2, <2>3
<1>7. CASE RestoredRuleGone \/ WhitelistGone \/ CronMarkGone \/ CronEnd
  BY <1>7, <1>i DEF RestoredRuleGone, WhitelistGone, CronMarkGone, CronEnd, Idle
<1>8. CASE CronReadExpired \/ CronMark \/ CronReadOld
  BY <1>8, <1>i DEF CronReadExpired, CronMark, CronReadOld, Idle
<1>9. ASSUME NEW n \in Net, CronWithdraw(n)
      PROVE  RestoreAnnounced'
  BY <1>9, <1>i, <1>t DEF CronWithdraw, CallType
<1>10. ASSUME NEW j \in Ids, CronPurgeRows(j)
       PROVE  RestoreAnnounced'
  BY <1>10, <1>i, <1>t DEF CronPurgeRows, CallType
<1>11. ASSUME NEW flow \in SUBSET FlowIds, CronPurgeRules(flow)
       PROVE  RestoreAnnounced'
  BY <1>11, <1>i DEF CronPurgeRules, Idle
<1> QED
  BY <1>1, <1>3, <1>4, <1>5, <1>6, <1>7, <1>8, <1>9, <1>10, <1>11
     DEF Next, CallStart, CallStep

\* A step after which each rule is as before, invalid, or announced anyway.
LEMMA KeptAnnounces ==
  ASSUME RoutesInv, now <= now', now' \in Nat, disturbed \subseteq disturbed',
         \A j \in Used(rtbh') :
           \/ rtbh'[j].rstate # Active
           \/ rtbh'[j].net \in bgp'
           \/ rtbh'[j].net \in disturbed'
           \/ /\ j \in Used(rtbh) /\ rtbh'[j] = rtbh[j]
              /\ rtbh[j].net \in bgp => rtbh[j].net \in bgp'
  PROVE  ActiveIsAnnounced'
<1> SUFFICES ASSUME NEW j \in Used(rtbh'), rtbh'[j].rstate = Active,
                    rtbh'[j].expires >= now', rtbh'[j].net \notin disturbed'
             PROVE  rtbh'[j].net \in bgp'
  BY DEF ActiveIsAnnounced
<1> SUFFICES ASSUME j \in Used(rtbh), rtbh'[j] = rtbh[j],
                    rtbh[j].net \in bgp => rtbh[j].net \in bgp'
             PROVE  rtbh'[j].net \in bgp'
  OBVIOUS
<1>1. rtbh[j].expires \in Nat /\ now \in Nat
  BY BoundAssumption DEF Used, RoutesInv, TablesInv, TypeOK, Rule, Times
<1>2. rtbh[j].expires >= now
  BY <1>1
<1> QED BY <1>2 DEF RoutesInv, ActiveIsAnnounced

LEMMA StepAnnounces ==
  ASSUME RoutesInv, TypeOK', [Next]_vars
  PROVE  ActiveIsAnnounced'
<1>t. /\ TypeOK /\ rtbh \in Rules /\ cache \in [Rows -> Nat]
      /\ now \in Nat /\ now' \in Nat
  BY BoundAssumption DEF RoutesInv, TablesInv, TypeOK, Rules
<1>u. ASSUME UNCHANGED rtbh, bgp \subseteq bgp', now <= now', disturbed \subseteq disturbed'
      PROVE  ActiveIsAnnounced'
  <2>1. Used(rtbh') = Used(rtbh)
    BY <1>u
  <2> QED BY <1>u, <1>t, <2>1, KeptAnnounces
<1>n. now <= now
  BY <1>t
<1>1. ASSUME NEW n \in RuleNets, NEW c \in Community, NEW e \in Times,
             CreateOrUpdateRtbh(n, c, e)
      PROVE  ActiveIsAnnounced'
  BY <1>1, <1>t, CreateEvaluates, CreatedAnnounces
<1>2. ASSUME NEW i \in Ids, NEW e \in Times, ReactivateRtbh(i, e)
      PROVE  ActiveIsAnnounced'
  BY <1>2, <1>t, ReactivateEvaluates, ReactivatedAnnounces
<1>3. ASSUME NEW ids \in SUBSET Used(rtbh), rtbh' = RulesWithout(rtbh, ids),
             bgp' = bgp \ NetsOf(rtbh, ids), NoteHistory, now' = now
      PROVE  ActiveIsAnnounced'
  <2>1. ids \in SUBSET Ids /\ disturbed \subseteq disturbed'
    BY <1>3 DEF Used, NoteHistory
  <2> QED BY <1>3, <2>1, RemovalAnnounces
<1>4. ASSUME NEW i \in Ids, DeleteRule(i) \/ ApiDeleteRule(i)
      PROVE  ActiveIsAnnounced'
  <2>1. {i} \in SUBSET Used(rtbh) /\ NetsOf(rtbh, {i}) = {rtbh[i].net}
    BY <1>4 DEF DeleteRule, ApiDeleteRule, Used, NetsOf
  <2> QED BY <1>3, <1>4, <2>1 DEF DeleteRule, ApiDeleteRule
<1>5. ASSUME NEW ids \in SUBSET Ids, GroupDelete(ids)
      PROVE  ActiveIsAnnounced'
  BY <1>3, <1>5 DEF GroupDelete
<1>6. ASSUME NEW ids \in SUBSET Ids, GroupDeleteAborted(ids)
      PROVE  ActiveIsAnnounced'
  <2>1. ASSUME NEW j \in Used(rtbh')
        PROVE  \/ rtbh'[j].net \in disturbed'
               \/ /\ j \in Used(rtbh) /\ rtbh'[j] = rtbh[j]
                  /\ rtbh[j].net \in bgp => rtbh[j].net \in bgp'
    BY <1>6 DEF GroupDeleteAborted
  <2> QED BY <1>6, <1>t, <1>n, <2>1, KeptAnnounces DEF GroupDeleteAborted
<1>7. ASSUME NEW ids \in SUBSET Ids, NEW e \in Times, GroupUpdateSave(ids, e)
      PROVE  ActiveIsAnnounced'
  <2>0. /\ bgp' = IF StateByTime(e) = Active
                  THEN bgp \cup NetsOf(rtbh, ids) ELSE bgp \ NetsOf(rtbh, ids)
        /\ disturbed \subseteq disturbed'
    BY <1>7 DEF GroupUpdateSave, NoteHistory
  <2>1. ASSUME NEW j \in Used(rtbh')
        PROVE  \/ rtbh'[j].rstate # Active
               \/ rtbh'[j].net \in bgp'
               \/ rtbh'[j].net \in disturbed'
               \/ /\ j \in Used(rtbh) /\ rtbh'[j] = rtbh[j]
                  /\ rtbh[j].net \in bgp => rtbh[j].net \in bgp'
    <3>0. j \in Ids
      BY DEF Used
    <3>1. CASE j \in ids
      <4>1. j \in Used(rtbh) /\ rtbh[j] \in Rule
        BY <1>7, <3>1 DEF GroupUpdateSave, Used, TypeOK, RoutesInv, TablesInv
      <4>2. rtbh'[j] = [rtbh[j] EXCEPT !.expires = e, !.rstate = StateByTime(e)]
        BY <1>7, <3>0, <3>1 DEF GroupUpdateSave
      <4>3. rtbh'[j].net = rtbh[j].net /\ rtbh'[j].rstate = StateByTime(e)
        BY <4>1, <4>2 DEF Rule
      <4>4. rtbh[j].net \in NetsOf(rtbh, ids)
        BY <3>1 DEF NetsOf
      <4> QED BY <2>0, <4>3, <4>4
    <3>2. CASE j \notin ids
      <4>1. rtbh'[j] = rtbh[j] /\ j \in Used(rtbh)
        BY <1>7, <3>0, <3>2, <2>1 DEF GroupUpdateSave, Used
      <4>2. CASE \E k \in ids : rtbh[k].net = rtbh[j].net
        <5>1. PICK k \in ids : rtbh[k].net = rtbh[j].net
          BY <4>2
        <5>2. k \in Used(rtbh) /\ k # j
          BY <1>7, <3>2 DEF GroupUpdateSave
        <5>3. rtbh[j].net \in disturbed
          BY <4>1, <5>1, <5>2, SharedBefore
        <5> QED BY <2>0, <4>1, <5>3
      <4>3. CASE ~ \E k \in ids : rtbh[k].net = rtbh[j].net
        BY <2>0, <4>1, <4>3 DEF NetsOf
      <4> QED BY <4>2, <4>3
    <3> QED BY <3>1, <3>2
  <2> QED BY <1>7, <1>t, <1>n, <2>1, KeptAnnounces DEF GroupUpdateSave, NoteHistory
<1>8. CASE AnnounceAll
  BY <1>8, <1>u, <1>n DEF AnnounceAll
<1>9. ASSUME NEW w \in WhitelistNets, NEW e \in Times, CreateOrUpdateWhitelist(w, e)
      PROVE  ActiveIsAnnounced'
  <2>1. w \in Net /\ Reduced(rtbh, cache)
    BY <1>t, NetAssumption DEF Reduced
  <2>2. disturbed \subseteq disturbed'
    BY <1>9 DEF CreateOrUpdateWhitelist, SaveWhitelist, NoteHistory
  <2>3. \A j \in Used(rtbh) : Valid(rtbh[j]) /\ rtbh[j].net \notin disturbed'
                                => rtbh[j].net \in bgp
    BY <2>2 DEF RoutesInv, ActiveIsAnnounced, Valid
  <2> QED
    BY <1>9, <1>t, <2>1, <2>3, SaveWhitelistEvaluates, ListedAnnounces DEF CreateOrUpdateWhitelist
<1>10. ASSUME NEW i \in Ids, NEW e \in Times, DeleteRtbhAndCreateWhitelist(i, e)
       PROVE  ActiveIsAnnounced'
  <2> DEFINE rules == RulesWithout(rtbh, {i})
             rows == CacheWithoutRules(cache, {i})
             routes == bgp \ {rtbh[i].net}
             wl == rtbh[i].net
  <2>1. wl \in Net /\ i \in Used(rtbh)
    BY <1>10 DEF DeleteRtbhAndCreateWhitelist, RoutesInv, TablesInv, TypeOK, Rule, Used
  <2>2. Reduced(rules, rows)
    BY <1>t, RulesWithoutType, CacheType DEF Reduced, RulesWithout, CacheWithoutRules
  <2>3. disturbed \subseteq disturbed'
    BY <1>10 DEF DeleteRtbhAndCreateWhitelist, SaveWhitelist, NoteHistory
  <2>4. \A j \in Used(rules) : Valid(rules[j]) /\ rules[j].net \notin disturbed'
                                 => rules[j].net \in routes
    <3>1. \A j \in Used(rules) : j \in Used(rtbh) /\ rules[j] = rtbh[j] /\ j # i
      BY DEF RulesWithout, Used
    <3>2. \A j \in Used(rtbh) : j # i /\ rtbh[j].net = wl => rtbh[j].net \in disturbed
      BY <2>1, SharedBefore
    <3> QED BY <2>3, <3>1, <3>2 DEF RoutesInv, ActiveIsAnnounced, Valid
  <2>5. SaveWhitelist(rules, rows, routes, wl, e)
    BY <1>10 DEF DeleteRtbhAndCreateWhitelist
  <2> HIDE DEF rules, rows, routes, wl
  <2> QED BY <1>t, <2>1, <2>2, <2>4, <2>5, SaveWhitelistEvaluates, ListedAnnounces
<1>11. ASSUME NEW w \in Net, DeleteWhitelist(w)
       PROVE  ActiveIsAnnounced'
  BY <1>11, DeleteWhitelistAnnounces DEF DeleteWhitelist
<1>12. CASE Quiet
  BY <1>12, <1>u, <1>n DEF Quiet
<1>13. ASSUME NEW n \in Net, CronWithdraw(n)
       PROVE  ActiveIsAnnounced'
  <2> SUFFICES ASSUME NEW j \in Used(rtbh'), rtbh'[j].rstate = Active,
                      rtbh'[j].expires >= now', rtbh'[j].net \notin disturbed'
               PROVE  rtbh'[j].net \in bgp'
    BY DEF ActiveIsAnnounced
  <2>1. j \in Used(rtbh) /\ rtbh'[j] = rtbh[j] /\ now' = now
    BY <1>13 DEF CronWithdraw
  <2>2. rtbh[j].net # n /\ rtbh[j].net \notin disturbed
    BY <1>13, <2>1 DEF CronWithdraw
  <2> QED BY <1>13, <2>1, <2>2 DEF CronWithdraw, RoutesInv, ActiveIsAnnounced
<1>14. CASE CronMark
  <2>1. \A j \in Used(rtbh') : \/ rtbh'[j].rstate # Active
                               \/ j \in Used(rtbh) /\ rtbh'[j] = rtbh[j]
    BY <1>14, <1>t, MarkedRules
  <2> QED BY <1>14, <1>t, <1>n, <2>1, KeptAnnounces DEF CronMark
<1>15. CASE ClearRows
  <2>1. /\ call.pc = "restore" /\ call.routes = {} /\ bgp' = bgp /\ now' = now
        /\ disturbed \subseteq disturbed'
    BY <1>15 DEF ClearRows, NoteHistory
  <2>2. ASSUME NEW j \in Used(rtbh')
        PROVE  \/ rtbh'[j].net \in bgp' \/ rtbh'[j].net \in disturbed'
               \/ j \in Used(rtbh) /\ rtbh'[j] = rtbh[j]
    <3>1. CASE j \in call.ids
      <4>1. j \in Used(rtbh) /\ rtbh'[j].net = rtbh[j].net
        BY <1>15, <1>t, ClearedRules
      <4>2. rtbh[j].net \in BeingRestored
        BY <2>1, <3>1, <4>1 DEF BeingRestored, NetsOf
      <4> QED BY <2>1, <4>1, <4>2 DEF RoutesInv, RestoreAnnounced
    <3>2. CASE j \notin call.ids
      BY <1>15, <1>t, <3>2, ClearedRules
    <3> QED BY <3>1, <3>2
  <2> QED BY <1>t, <1>n, <2>1, <2>2, KeptAnnounces
<1>16. ASSUME NEW flow \in SUBSET FlowIds, CronPurgeRules(flow)
       PROVE  ActiveIsAnnounced'
  <2>1. call.drop \in SUBSET Ids /\ rtbh' = RulesWithout(rtbh, call.drop)
    BY <1>16, <1>t DEF CronPurgeRules, TypeOK
  <2>2. bgp' = bgp \ NetsOf(rtbh, {}) /\ now' = now /\ disturbed \subseteq disturbed'
    BY <1>16 DEF CronPurgeRules, NetsOf, NoteHistory
  <2>3. {} \in SUBSET call.drop /\ {} \subseteq Used(rtbh)
    OBVIOUS
  <2> QED BY <2>1, <2>2, <2>3, RemovalAnnounces
<1>17. CASE Tick
  <2>1. now <= now'
    BY <1>17, <1>t DEF Tick
  <2> QED BY <1>17, <1>u, <2>1 DEF Tick
<1>18. CASE UNCHANGED vars
  BY <1>18, <1>u, <1>n DEF vars
<1>19. CASE RuleRequest
  BY <1>1, <1>2, <1>4, <1>5, <1>6, <1>7, <1>8, <1>19 DEF RuleRequest
<1>20. CASE WhitelistRequest
  BY <1>9, <1>10, <1>11, <1>20 DEF WhitelistRequest
<1>21. CASE CallStart \/ CallStep
  BY <1>12, <1>13, <1>14, <1>15, <1>16, <1>21, <1>t, CallForms
<1> QED BY <1>17, <1>18, <1>19, <1>20, <1>21 DEF Next

\* An active rule whose time has not passed is announced, whatever requests
\* come between a read, a command and a commit of the call, but for prefixes
\* shared by two rules, hit by an aborted group delete, or withdrawn by the
\* call or a request between the other's read and write of the rule.
THEOREM ValidRulesAnnounced == Spec => []ActiveIsAnnounced
<1>1. Init => RoutesInv
  <2> SUFFICES ASSUME Init PROVE RoutesInv
    OBVIOUS
  <2>1. Used(rtbh) = {} /\ call.pc = "idle"
    BY DEF Init, Used, Idle
  <2> QED BY <2>1, InitTables
          DEF RoutesInv, ActiveIsAnnounced, SharedNets, RestoreAnnounced, BeingRestored
<1>2. RoutesInv /\ [Next]_vars => RoutesInv'
  <2> SUFFICES ASSUME RoutesInv, [Next]_vars PROVE RoutesInv'
    OBVIOUS
  <2>1. TablesInv' /\ TypeOK'
    BY StepTables DEF RoutesInv, TablesInv
  <2>2. ActiveIsAnnounced'
    BY <2>1, StepAnnounces
  <2>3. SharedNets(rtbh') \subseteq disturbed'
    BY StepShared
  <2>4. RestoreAnnounced'
    BY <2>1, StepRestores
  <2> QED BY <2>1, <2>2, <2>3, <2>4 DEF RoutesInv
<1>3. RoutesInv => ActiveIsAnnounced
  BY DEF RoutesInv
<1> QED BY <1>1, <1>2, <1>3, PTL DEF Spec

(***************************************************************************)
(* What a step may never do.  The invariants are TablesInv and RoutesInv.  *)
(***************************************************************************)

\* Whitelisting a rule stores a whitelist in tables without that rule.
LEMMA WhitelistingListed ==
  ASSUME TypeOK, NEW i \in Ids, NEW e \in Times, DeleteRtbhAndCreateWhitelist(i, e)
  PROVE  \E S, fresh : Listed(RulesWithout(rtbh, {i}), CacheWithoutRules(cache, {i}),
                              bgp \ {rtbh[i].net}, rtbh[i].net, S, fresh)
<1> DEFINE rules == RulesWithout(rtbh, {i})
           rows == CacheWithoutRules(cache, {i})
           routes == bgp \ {rtbh[i].net}
           wl == rtbh[i].net
<1>t. rtbh \in Rules /\ cache \in [Rows -> Nat]
  BY DEF TypeOK, Rules
<1>1. wl \in Net
  BY DEF DeleteRtbhAndCreateWhitelist, TypeOK, Rule
<1>2. Reduced(rules, rows)
  BY <1>t, RulesWithoutType, CacheType DEF Reduced, RulesWithout, CacheWithoutRules
<1>3. SaveWhitelist(rules, rows, routes, wl, e)
  BY DEF DeleteRtbhAndCreateWhitelist
<1>4. \E S, fresh : Listed(rules, rows, routes, wl, S, fresh)
  <2> HIDE DEF rules, rows, routes, wl
  <2> QED BY <1>1, <1>2, <1>3, SaveWhitelistEvaluates
<1> QED BY <1>4

\* A whitelist appears only in the two requests that store one.
LEMMA AppearsListed ==
  ASSUME TablesInv, [Next]_vars, NEW w \in Net,
         whitelist[w] = NoWhitelist, whitelist'[w] # NoWhitelist
  PROVE  ListedStep
BY StepForms DEF CreatedStep, Created, ReactivatedStep, Reactivated, OtherStep

\* A part avoids the whitelist it is made for.
LEMMA PartIsDifferent ==
  ASSUME NEW n \in Net, NEW w \in Net, n \cap w = {}
  PROVE  Relation(n, w) = "DIFFERENT"
<1>1. n # {} /\ w # {}
  BY NetAssumption
<1> QED BY <1>1 DEF Relation

LEMMA ListedSilences ==
  ASSUME TypeOK, TypeOK', NEW rules, NEW rows, NEW routes, NEW wl, NEW S, NEW fresh,
         Listed(rules, rows, routes, wl, S, fresh),
         NEW i \in Used(rtbh'), rtbh'[i].rstate = Active,
         rtbh'[i].community \in AllowedCommunities,
         Relation(rtbh'[i].net, wl) # "DIFFERENT"
  PROVE  rtbh'[i].net \in disturbed'
<1> DEFINE E == S \X {wl}
<1>1. Evaluates(rules, rows, E, fresh) /\ NoteHistory /\ wl \in Net
  BY DEF Listed, Evaluates
<1>2. rtbh'[i].net \notin PartNets(rules, E)
  <2> SUFFICES ASSUME NEW p \in PartsOf(rules, E), rtbh'[i].net = p[3]
               PROVE  FALSE
    BY DEF PartNets
  <2>1. p[2] = wl
    <3>1. PICK m \in E : p \in {<<m[1], m[2], n>> : n \in SubtractNetwork(rules[m[1]].net, m[2])}
      BY DEF PartsOf
    <3> QED BY <3>1
  <2>2. p[3] \in Net /\ p[3] \cap p[2] = {}
    <3> HIDE DEF E
    <3> QED BY <1>1, PartShape DEF Evaluates, Matches
  <2> QED BY <1>1, <2>1, <2>2, PartIsDifferent
<1>3. i \in Used(rules) /\ rtbh'[i] = rules[i] /\ \A w \in Net : <<i, w>> \notin E
  <2> HIDE DEF E
  <2> QED BY <1>1, <1>2, ActiveAfter
<1>4. i \in Candidates(rules, wl)
  BY <1>3 DEF Candidates
<1>5. PICK j \in S : rules[j].net = rules[i].net
  BY <1>4 DEF Listed, OnePerNet
<1>6. j # i /\ j \in Used(rules)
  BY <1>1, <1>3 DEF Listed, OnePerNet, Candidates
<1>7. j \in Used(rtbh') /\ rtbh'[j].net = rules[j].net
  <2> HIDE DEF E
  <2> QED BY <1>1, <1>6, UsedAfter
<1> QED BY <1>1, <1>3, <1>5, <1>6, <1>7, SharedIsDisturbed

\* When a whitelist appears, no active rule of its communities overlaps it any
\* more, the parts just made included, but for a rule that shares its prefix
\* with another one.
THEOREM WhitelistSilences == Spec => NewWhitelistSilencesRules
<1>1. ASSUME TablesInv, TablesInv', [Next]_vars,
             NEW w \in Net, whitelist[w] = NoWhitelist, whitelist'[w] # NoWhitelist,
             NEW i \in Used(rtbh'), rtbh'[i].rstate = Active,
             rtbh'[i].community \in AllowedCommunities,
             Relation(rtbh'[i].net, w) # "DIFFERENT"
      PROVE  rtbh'[i].net \in disturbed'
  <2>1. PICK rules, rows, routes, wl, S, fresh : Listed(rules, rows, routes, wl, S, fresh)
    BY <1>1, AppearsListed DEF ListedStep
  <2>2. w = wl
    BY <1>1, <2>1 DEF Listed
  <2>3. TypeOK /\ TypeOK'
    BY <1>1 DEF TablesInv
  <2> QED BY <1>1, <2>1, <2>2, <2>3, ListedSilences
<1>2. TablesInv /\ TablesInv' /\ [Next]_vars =>
        [\A w \in {n \in Net : whitelist[n] = NoWhitelist /\ whitelist'[n] # NoWhitelist} :
           \A i \in Used(rtbh') :
             (/\ rtbh'[i].rstate = Active
              /\ rtbh'[i].community \in AllowedCommunities
              /\ Relation(rtbh'[i].net, w) # "DIFFERENT")
             => rtbh'[i].net \in disturbed']_vars
  BY <1>1
<1> QED BY <1>2, TablesHold, PTL DEF Spec, NewWhitelistSilencesRules

\* A rule with rows of two whitelists is not restored by the deletion of one.
LEMMA TwoRowsAreNoSingle ==
  ASSUME NEW i \in Used(rtbh), NEW w \in Net, NEW v \in Net, w # v,
         cache[<<i, v, USER>>] > 0
  PROVE  i \notin RestoredBy(w)
<1> SUFFICES ASSUME i \in RestoredBy(w) PROVE FALSE
  OBVIOUS
<1>1. <<i, v, USER>> \in RowCount(i) /\ <<i, w, USER>> \in RowCount(i)
  BY DEF RowCount, Rows, RestoredBy, Used
<1>2. <<i, v, USER>> # <<i, w, USER>>
  OBVIOUS
<1> QED BY <1>1, <1>2 DEF RestoredBy, SingleRow

\* An evaluation takes no row of a rule that was there.
LEMMA EvaluationKeepsRow ==
  ASSUME NEW i \in Used(rtbh) \cap Used(rtbh'), NEW w \in Net,
         cache[<<i, w, USER>>] > 0, EvaluationStep
  PROVE  cache'[<<i, w, USER>>] > 0
<1> DEFINE row == <<i, w, USER>>
<1>1. PICK rules, rows, E, fresh : KeepsRows(rules, rows) /\ Evaluates(rules, rows, E, fresh)
  BY DEF EvaluationStep
<1>2. row \in Rows /\ row[1] = i /\ i \notin FreeIds
  BY DEF Rows, Used, FreeIds
<1>3. \A p \in PartsOf(rules, E) : fresh[p] # i
  <2>1. DOMAIN fresh = PartsOf(rules, E)
    BY <1>1 DEF Evaluates, NewIds
  <2> QED BY <1>1, <1>2, <2>1 DEF Evaluates, Unused
<1>4. i \in Used(rules)
  BY <1>1, <1>3, OthersWereRules
<1>5. cache[row] > 0
  OBVIOUS
<1> HIDE DEF row
<1>6. rows[row] = cache[row] /\ rows[row] \in Nat
  BY <1>1, <1>2, <1>4 DEF KeepsRows, Evaluates
<1>7. cache'[row] \in {rows[row], rows[row] + 1}
  BY <1>1, <1>2 DEF Evaluates, EvaluatedCache
<1>8. cache'[row] > 0
  BY <1>5, <1>6, <1>7
<1> QED BY <1>8 DEF row

LEMMA StepHolds ==
  ASSUME TablesInv, [Next]_vars,
         NEW i \in Used(rtbh) \cap Used(rtbh'), NEW w \in Net, NEW v \in Net, w # v,
         rtbh[i].rstate = Whitelisted, i \notin strayed,
         cache[<<i, w, USER>>] > 0, cache'[<<i, w, USER>>] = 0, cache'[<<i, v, USER>>] > 0
  PROVE  rtbh'[i].rstate = Whitelisted
<1>t. TypeOK /\ i \in Ids /\ rtbh'[i] # NoRule
  BY DEF TablesInv, Used
<1>r. <<i, w, USER>> \in Rows /\ <<i, v, USER>> \in Rows
  BY <1>t DEF Rows
<1>0. ASSUME rtbh' = rtbh \/ cache' = cache \/ EvaluationStep \/ KeepsRows(rtbh', cache')
      PROVE  rtbh'[i].rstate = Whitelisted
  <2>1. CASE rtbh' = rtbh
    BY <2>1
  <2>2. CASE cache' = cache
    BY <2>2
  <2>3. CASE EvaluationStep
    BY <2>3, EvaluationKeepsRow
  <2>4. CASE KeepsRows(rtbh', cache')
    <3> DEFINE row == <<i, w, USER>>
    <3>1. row \in Rows /\ row[1] = i /\ cache'[row] # cache[row]
      BY <1>r
    <3> HIDE DEF row
    <3> QED BY <2>4, <3>1 DEF KeepsRows
  <2> QED BY <1>0, <2>1, <2>2, <2>3, <2>4
<1>1. ASSUME NEW u \in Net, DeleteWhitelist(u)
      PROVE  rtbh'[i].rstate = Whitelisted
  <2>0. DeleteWhitelistEffect(u)
    BY <1>1 DEF DeleteWhitelist
  <2>1. \A row \in Rows : cache'[row] = IF row[2] = u THEN 0 ELSE cache[row]
    BY <2>0 DEF DeleteWhitelistEffect
  <2>2. w = u /\ cache[<<i, v, USER>>] > 0
    <3>1. cache'[<<i, w, USER>>] = IF w = u THEN 0 ELSE cache[<<i, w, USER>>]
      BY <1>r, <2>1
    <3>2. cache'[<<i, v, USER>>] = IF v = u THEN 0 ELSE cache[<<i, v, USER>>]
      BY <1>r, <2>1
    <3> QED BY <3>1, <3>2
  <2>3. i \notin RestoredBy(u)
    BY <2>2, TwoRowsAreNoSingle
  <2>4. rtbh'[i] = IF i \in CreatedBy(u) THEN NoRule
                   ELSE IF i \in RestoredBy(u)
                   THEN [rtbh[i] EXCEPT !.rstate = Active] ELSE rtbh[i]
    BY <1>t, <2>0 DEF DeleteWhitelistEffect
  <2> QED BY <1>t, <2>3, <2>4
<1>2. CASE ClearRows
  <2>1. /\ call.pc = "restore"
        /\ \A row \in Rows : cache'[row] = IF row[2] = call.wl /\ call.wl \in call.wls
                                            THEN 0 ELSE cache[row]
    BY <1>2 DEF ClearRows
  <2>2. w = call.wl /\ cache[<<i, v, USER>>] > 0
    <3>1. cache'[<<i, w, USER>>] = IF w = call.wl /\ call.wl \in call.wls
                                   THEN 0 ELSE cache[<<i, w, USER>>]
      BY <1>r, <2>1
    <3>2. cache'[<<i, v, USER>>] = IF v = call.wl /\ call.wl \in call.wls
                                   THEN 0 ELSE cache[<<i, v, USER>>]
      BY <1>r, <2>1
    <3> QED BY <3>1, <3>2
  <2>3. i \notin call.ids
    BY <2>1, <2>2 DEF TablesInv, CallTables, RestoreCall
  <2> QED BY <1>2, <1>t, <2>3, ClearedRules
<1>3. CASE RuleRequest \/ WhitelistRequest \/ Tick \/ UNCHANGED vars
  BY <1>0, <1>1, <1>3, <1>t, RequestFrom DEF PlainStep, RowsKept
<1>4. CASE CronMark
  BY <1>0, <1>4 DEF CronMark
<1>5. ASSUME NEW n \in Net, CronWithdraw(n)
      PROVE  rtbh' = rtbh
  BY <1>5 DEF CronWithdraw
<1>6. ASSUME NEW flow \in SUBSET FlowIds, CronPurgeRules(flow)
      PROVE  cache' = cache
  BY <1>6 DEF CronPurgeRules
<1>7. CASE CallStart \/ CallStep
  BY <1>0, <1>2, <1>4, <1>5, <1>6, <1>7, <1>t, CallForms DEF Quiet
<1> QED BY <1>3, <1>7 DEF Next

\* Deleting a whitelist, by a user or by the cleaning call, whose reads,
\* commands and commits requests may come between, does not put a rule back on
\* the network that another whitelist holds, unless a request stored that one,
\* or extended it over the rule, after the rows were counted.
THEOREM OtherWhitelistHolds == Spec => OtherWhitelistStillHolds
<1>1. TablesInv /\ [Next]_vars =>
        [\A i \in Used(rtbh) \cap Used(rtbh'), w, v \in Net :
           (/\ rtbh[i].rstate = Whitelisted /\ i \notin strayed
            /\ w # v /\ cache[<<i, w, USER>>] > 0 /\ cache'[<<i, w, USER>>] = 0
            /\ cache'[<<i, v, USER>>] > 0)
           => rtbh'[i].rstate = Whitelisted]_vars
  BY StepHolds
<1> QED BY <1>1, TablesHold, PTL DEF Spec, OtherWhitelistStillHolds

\* The prefix of a new whitelist is no part of a rule.
LEMMA WhitelistIsNoPart ==
  ASSUME NEW rules, NEW rows, NEW routes, NEW wl, NEW S, NEW fresh,
         Listed(rules, rows, routes, wl, S, fresh)
  PROVE  wl \notin PartNets(rules, S \X {wl})
<1> DEFINE E == S \X {wl}
<1> SUFFICES ASSUME NEW p \in PartsOf(rules, E), p[3] = wl
             PROVE  FALSE
  BY DEF PartNets
<1>1. p[2] = wl
  <2>1. PICK m \in E : p \in {<<m[1], m[2], n>> : n \in SubtractNetwork(rules[m[1]].net, m[2])}
    BY DEF PartsOf
  <2> QED BY <2>1
<1>2. p[3] \in Net /\ p[3] \cap p[2] = {}
  <2> HIDE DEF E
  <2>1. Evaluates(rules, rows, S \X {wl}, fresh)
    BY DEF Listed
  <2>2. Evaluates(rules, rows, E, fresh)
    BY <2>1 DEF E
  <2> QED BY <2>2, PartShape DEF Evaluates, Matches
<1>3. wl \cap wl = {} /\ wl \in Net
  <2> HIDE DEF E
  <2> QED BY <1>1, <1>2
<1>4. wl = {}
  BY <1>3
<1> QED BY <1>3, <1>4, NetAssumption

LEMMA StepWithdraws ==
  ASSUME TablesInv, [Next]_vars, NEW i \in Used(rtbh) \ Used(rtbh'),
         rtbh[i].rstate = Active, rtbh[i].origin = USER
  PROVE  \/ rtbh[i].net \notin bgp'
         \/ call.pc = "rows" /\ call'.pc = "flow" /\ i \in strayed
<1>t. TypeOK /\ rtbh \in Rules /\ cache \in [Rows -> Nat] /\ i \in Ids /\ rtbh[i] # NoRule
  BY DEF TablesInv, TypeOK, Rules, Used
<1>u. ASSUME NEW rules, NEW rows, NEW E, NEW fresh,
             Evaluates(rules, rows, E, fresh), i \in Used(rules)
      PROVE  FALSE
  BY <1>u, UsedAfter
<1>1. ASSUME NEW n \in RuleNets, NEW c \in Community, NEW e \in Times,
             CreateOrUpdateRtbh(n, c, e)
      PROVE  FALSE
  <2>1. PICK j, rule, E, fresh : Created(j, rule, E, fresh)
    BY <1>1, <1>t, CreateEvaluates
  <2>2. i \in Used([rtbh EXCEPT ![j] = rule])
    BY <1>t, <2>1, NoValueAssumption DEF Created, Used, Rules
  <2> QED BY <1>u, <2>1, <2>2 DEF Created
<1>2. ASSUME NEW j \in Ids, NEW e \in Times, ReactivateRtbh(j, e)
      PROVE  FALSE
  <2>1. PICK rule, E, fresh : Reactivated(j, rule, E, fresh)
    BY <1>2, <1>t, ReactivateEvaluates
  <2>2. i \in Used([rtbh EXCEPT ![j] = rule])
    BY <1>t, <2>1, NoValueAssumption DEF Reactivated, Used, Rules
  <2> QED BY <1>u, <2>1, <2>2 DEF Reactivated
<1>3. ASSUME NEW ids, rtbh' = RulesWithout(rtbh, ids)
      PROVE  i \in ids
  BY <1>3, <1>t DEF RulesWithout, Used
<1>4. ASSUME NEW j \in Ids, DeleteRule(j) \/ ApiDeleteRule(j)
      PROVE  rtbh[i].net \notin bgp'
  BY <1>3, <1>4 DEF DeleteRule, ApiDeleteRule
<1>5. ASSUME NEW ids \in SUBSET Ids, GroupDelete(ids)
      PROVE  rtbh[i].net \notin bgp'
  BY <1>3, <1>5 DEF GroupDelete, NetsOf
<1>6. ASSUME Used(rtbh) \subseteq Used(rtbh')
      PROVE  FALSE
  BY <1>6
<1>7. ASSUME NEW ids \in SUBSET Ids, NEW e \in Times, GroupUpdateSave(ids, e)
      PROVE  FALSE
  <2>1. rtbh'[i] = IF i \in ids
                   THEN [rtbh[i] EXCEPT !.expires = e, !.rstate = StateByTime(e)]
                   ELSE rtbh[i]
    BY <1>7, <1>t DEF GroupUpdateSave
  <2>2. rtbh[i] \in Rule /\ StateByTime(e) \in {Active, Withdrawn, Whitelisted}
    BY <1>t, StateByTimeType DEF TypeOK
  <2>3. [rtbh[i] EXCEPT !.expires = e, !.rstate = StateByTime(e)] \in Rule
    BY <2>2 DEF Rule
  <2> QED BY <1>t, <2>1, <2>3, NoValueAssumption DEF Used
<1>8. ASSUME NEW w \in WhitelistNets, NEW e \in Times, CreateOrUpdateWhitelist(w, e)
      PROVE  FALSE
  <2>1. w \in Net /\ Reduced(rtbh, cache)
    BY <1>t, NetAssumption DEF Reduced
  <2>2. PICK S, fresh : Listed(rtbh, cache, bgp, w, S, fresh)
    BY <1>8, <1>t, <2>1, SaveWhitelistEvaluates DEF CreateOrUpdateWhitelist
  <2> QED BY <1>u, <2>2 DEF Listed
<1>9. ASSUME NEW j \in Ids, NEW e \in Times, DeleteRtbhAndCreateWhitelist(j, e)
      PROVE  rtbh[i].net \notin bgp'
  <2> DEFINE rules == RulesWithout(rtbh, {j})
             rows == CacheWithoutRules(cache, {j})
             routes == bgp \ {rtbh[j].net}
  <2>1. PICK S, fresh : Listed(rules, rows, routes, rtbh[j].net, S, fresh)
    BY <1>9, <1>t, WhitelistingListed
  <2>2. i = j
    <3>1. i \notin Used(rules)
      <4> HIDE DEF rules, rows, routes
      <4> QED BY <1>u, <2>1 DEF Listed
    <3> QED BY <1>t, <3>1 DEF RulesWithout, Used
  <2>3. rtbh[j].net \notin routes
    OBVIOUS
  <2>4. rtbh[j].net \notin PartNets(rules, S \X {rtbh[j].net})
    <3> HIDE DEF rules, rows, routes
    <3> QED BY <2>1, WhitelistIsNoPart
  <2> HIDE DEF rules, rows, routes
  <2> QED BY <2>1, <2>2, <2>3, <2>4 DEF Listed
<1>10. ASSUME NEW w \in Net, DeleteWhitelistEffect(w)
       PROVE  FALSE
  <2>1. rtbh'[i] = IF i \in CreatedBy(w) THEN NoRule
                   ELSE IF i \in RestoredBy(w)
                   THEN [rtbh[i] EXCEPT !.rstate = Active] ELSE rtbh[i]
    BY <1>t, <1>10 DEF DeleteWhitelistEffect
  <2>2. i \notin CreatedBy(w)
    <3> DEFINE row == <<i, w, WHITELIST>>
    <3>1. row \in Rows /\ row[1] = i /\ row[2] # NoWhitelist /\ row[3] = WHITELIST
      BY <1>t, NoValueAssumption DEF Rows
    <3>2. ~ (cache[row] > 0)
      <4> HIDE DEF row
      <4> QED BY <1>t, <3>1 DEF TablesInv, Fit, USER, WHITELIST
    <3> QED BY <3>2 DEF CreatedBy
  <2>3. [rtbh[i] EXCEPT !.rstate = Active] \in Rule
    BY <1>t DEF TypeOK, Rule
  <2> QED BY <1>t, <2>1, <2>2, <2>3, NoValueAssumption DEF Used
<1>11. CASE CronMark
  <2>1. rtbh'[i] = IF i \in call.ids THEN [rtbh[i] EXCEPT !.rstate = Withdrawn] ELSE rtbh[i]
    BY <1>t, <1>11 DEF CronMark
  <2>2. [rtbh[i] EXCEPT !.rstate = Withdrawn] \in Rule
    BY <1>t DEF TypeOK, Rule
  <2> QED BY <1>t, <2>1, <2>2, NoValueAssumption DEF Used
<1>12. CASE ClearRows
  <2>1. rtbh'[i] = IF i \in call.drop THEN NoRule
                   ELSE IF i \in call.ids THEN [rtbh[i] EXCEPT !.rstate = Active]
                   ELSE rtbh[i]
    BY <1>t, <1>12 DEF ClearRows
  <2>2. i \notin call.drop
    BY <1>12 DEF ClearRows, TablesInv, CallTables, RestoreCall, USER, WHITELIST
  <2>3. [rtbh[i] EXCEPT !.rstate = Active] \in Rule
    BY <1>t DEF TypeOK, Rule
  <2> QED BY <1>t, <2>1, <2>2, <2>3, NoValueAssumption DEF Used
<1>13. ASSUME NEW flow \in SUBSET FlowIds, CronPurgeRules(flow)
       PROVE  call.pc = "rows" /\ call'.pc = "flow" /\ i \in strayed
  <2>1. i \in call.drop
    BY <1>3, <1>13 DEF CronPurgeRules
  <2> QED
    BY <1>13, <2>1 DEF CronPurgeRules, Idle, TablesInv, CallTables, RowsCall, Active, Withdrawn
<1>14. CASE UNCHANGED rtbh
  BY <1>14
<1>15. CASE RuleRequest
  BY <1>1, <1>2, <1>4, <1>5, <1>7, <1>14, <1>15 DEF RuleRequest, GroupDeleteAborted, AnnounceAll
<1>16. CASE WhitelistRequest
  BY <1>8, <1>9, <1>10, <1>16 DEF WhitelistRequest, DeleteWhitelist
<1>17. ASSUME NEW n \in Net, CronWithdraw(n)
       PROVE  UNCHANGED rtbh
  BY <1>17 DEF CronWithdraw
<1>18. CASE CallStart \/ CallStep
  BY <1>11, <1>12, <1>13, <1>14, <1>17, <1>18, <1>t, CallForms DEF Quiet
<1>19. CASE Tick \/ UNCHANGED vars
  BY <1>14, <1>19 DEF Tick, vars
<1> QED BY <1>15, <1>16, <1>18, <1>19 DEF Next

\* No handler drops an active rule a user made and leaves its route, wherever
\* requests come between the steps of the call, but for the purge of a rule
\* that a request renewed after the purge read its id.
THEOREM DroppedIsWithdrawn == Spec => DeletedRuleIsWithdrawn
<1>1. TablesInv /\ [Next]_vars =>
        [\A i \in Used(rtbh) \ Used(rtbh') :
           rtbh[i].rstate = Active /\ rtbh[i].origin = USER
             => \/ rtbh[i].net \notin bgp'
                \/ call.pc = "rows" /\ call'.pc = "flow" /\ i \in strayed]_vars
  BY StepWithdraws
<1> QED BY <1>1, TablesHold, PTL DEF Spec, DeletedRuleIsWithdrawn

(***************************************************************************)
(* That a split leaves no gap depends on the address space: there are      *)
(* finitely many networks, and each address is one.                        *)
(***************************************************************************)
AddressSpace == IsFiniteSet(Net) /\ \A n \in Net : \A a \in n : {a} \in Net

\* Some network of a set is not inside another one: that which the fewest hold.
LEMMA WidestExists ==
  ASSUME IsFiniteSet(Net), NEW T \in SUBSET Net, T # {}
  PROVE  \E n \in T : \A m \in T : n \subseteq m => m = n
<1> DEFINE Holding(n) == {k \in Net : n \subseteq k}
           Size(n) == Cardinality(Holding(n))
           Sizes == {Size(n) : n \in T}
           Less == {p \in Nat \X Nat : p[1] < p[2]}
<1>1. \A n \in T : IsFiniteSet(Holding(n)) /\ Size(n) \in Nat
  BY FS_Subset, FS_CardinalityType
<1>2. Sizes \subseteq Nat /\ Sizes # {}
  BY <1>1
<1>3. PICK c \in Sizes : \A d \in Sizes : ~ (<<d, c>> \in Less)
  <2>1. IsWellFoundedOn(Less, Nat)
    BY NatLessThanWellFounded, Zenon DEF OpToRel
  <2> HIDE DEF Sizes, Less
  <2> QED BY <1>2, <2>1, WFMin, Zenon
<1>4. PICK n \in T : c = Size(n)
  OBVIOUS
<1>5. ASSUME NEW m \in T, n \subseteq m
      PROVE  m = n
  <2>1. Holding(m) \in SUBSET Holding(n)
    BY <1>5
  <2>2. Size(m) <= Size(n) /\ (Size(m) = Size(n) => Holding(m) = Holding(n))
    <3>1. IsFiniteSet(Holding(n))
      BY <1>1
    <3> HIDE DEF Holding
    <3> QED BY <2>1, <3>1, FS_Subset
  <2>3. ~ (Size(m) < Size(n))
    <3>1. Size(m) \in Sizes
      OBVIOUS
    <3>2. ~ (<<Size(m), Size(n)>> \in Less)
      <4> HIDE DEF Size, Sizes, Less
      <4> QED BY <1>3, <1>4, <3>1
    <3>3. Size(m) \in Nat /\ Size(n) \in Nat
      BY <1>1
    <3> HIDE DEF Size
    <3> QED BY <3>2, <3>3
  <2>4. Holding(m) = Holding(n)
    <3>1. Size(m) \in Nat /\ Size(n) \in Nat
      BY <1>1
    <3> HIDE DEF Size, Holding
    <3> QED BY <2>2, <2>3, <3>1
  <2>5. n \in Holding(n)
    OBVIOUS
  <2>6. n \in Holding(m)
    BY <2>4, <2>5
  <2> QED BY <1>5, <2>6
<1> QED BY <1>5

\* The blocks that remain of a rule hold every address outside the whitelist.
LEMMA BlocksCover ==
  ASSUME AddressSpace, NEW rule \in Net, NEW wl, NEW a \in rule \ wl
  PROVE  \E n \in SubtractNetwork(rule, wl) : a \in n
<1> DEFINE T == {n \in Net : a \in n /\ n \subseteq rule \ wl}
<1>1. {a} \in T
  BY DEF AddressSpace
<1>2. PICK n \in T : \A m \in T : n \subseteq m => m = n
  <2> HIDE DEF T
  <2>1. T \in SUBSET Net
    BY DEF T
  <2> QED BY <1>1, <2>1, WidestExists DEF AddressSpace
<1>3. n \in SubtractNetwork(rule, wl)
  BY <1>2 DEF SubtractNetwork
<1> QED BY <1>2, <1>3

\* SubtractNetwork, which subtract_network computes bit by bit, returns
\* disjoint blocks that are together the rule without the whitelist, and no
\* block that fits is wider than they are.
THEOREM RestIsPartitioned ==
  ASSUME AddressSpace, NEW rule \in Net, NEW wl \in Net
  PROVE  LET blocks == SubtractNetwork(rule, wl)
         IN  /\ UNION blocks = rule \ wl
             /\ \A m, n \in blocks : m = n \/ m \cap n = {}
             /\ \A k \in Net : k \subseteq rule \ wl => \E n \in blocks : k \subseteq n
<1>1. UNION SubtractNetwork(rule, wl) = rule \ wl
  <2>1. ASSUME NEW n \in SubtractNetwork(rule, wl)
        PROVE  n \subseteq rule \ wl
    BY SubtractNetworkFits
  <2> QED BY <2>1, BlocksCover
<1>2. ASSUME NEW m \in SubtractNetwork(rule, wl), NEW n \in SubtractNetwork(rule, wl)
      PROVE  m = n \/ m \cap n = {}
  <2>1. m \in Net /\ n \in Net
    BY SubtractNetworkFits
  <2>2. (m \subseteq n => m = n) /\ (n \subseteq m => m = n)
    BY <2>1 DEF SubtractNetwork
  <2>3. m \subseteq n \/ n \subseteq m \/ m \cap n = {}
    BY <2>1, NetAssumption
  <2> QED BY <2>2, <2>3
<1>3. ASSUME NEW k \in Net, k \subseteq rule \ wl
      PROVE  \E n \in SubtractNetwork(rule, wl) : k \subseteq n
  <2> DEFINE T == {n \in Net : k \subseteq n /\ n \subseteq rule \ wl}
  <2>1. k \in T
    BY <1>3
  <2>2. PICK n \in T : \A m \in T : n \subseteq m => m = n
    <3> HIDE DEF T
    <3>1. T \in SUBSET Net
      BY DEF T
    <3> QED BY <2>1, <3>1, WidestExists DEF AddressSpace
  <2>3. n \in SubtractNetwork(rule, wl)
    BY <2>2 DEF SubtractNetwork
  <2> QED BY <2>2, <2>3
<1> QED BY <1>1, <1>2, <1>3

\* What a whitelist leaves of a rule it matches is in the parts.
LEMMA MatchLeavesParts ==
  ASSUME AddressSpace, NEW rules, NEW rows, NEW E, NEW fresh,
         Evaluates(rules, rows, E, fresh),
         NEW i \in Used(rules), NEW w \in Net, <<i, w>> \in E,
         NEW a \in rules[i].net, a \notin w
  PROVE  \E n \in PartNets(rules, E) : a \in n /\ n # rules[i].net
<1> DEFINE e == <<i, w>>
<1>1. e \in E /\ e[1] = i /\ e[2] = w
  OBVIOUS
<1>2. rules[i] \in Rule /\ rules[i].net \in Net
  BY DEF Evaluates, Rules, Used, Rule
<1>3. Relation(rules[i].net, w) # "DIFFERENT"
  <2> HIDE DEF e
  <2> QED BY <1>1 DEF Evaluates, Matches
<1>4. Relation(rules[i].net, w) = "SUBNET" /\ w \subseteq rules[i].net
  BY <1>3 DEF Relation
<1>5. PICK n \in SubtractNetwork(rules[i].net, w) : a \in n
  BY <1>2, BlocksCover
<1>6. <<i, w, n>> \in PartsOf(rules, E)
  <2> HIDE DEF e
  <2>1. <<e[1], e[2], n>> \in PartsOf(rules, E)
    BY <1>1, <1>4, <1>5 DEF PartsOf
  <2> QED BY <1>1, <2>1
<1>7. n \in PartNets(rules, E)
  BY <1>6 DEF PartNets
<1>8. n # rules[i].net
  <2>1. n \cap w = {}
    BY <1>5, SubtractNetworkFits
  <2>2. PICK b \in w : TRUE
    BY NetAssumption
  <2>3. b \in rules[i].net /\ b \notin n
    BY <1>4, <2>1, <2>2
  <2> QED BY <2>3
<1> QED BY <1>5, <1>7, <1>8

\* A rule an evaluation whitelists has a row of the whitelist that matched.
LEMMA MatchIsNamed ==
  ASSUME NEW rules, NEW rows, NEW E, NEW fresh, Evaluates(rules, rows, E, fresh),
         NEW i \in Used(rules), NEW w \in Net, <<i, w>> \in E
  PROVE  cache'[<<i, w, USER>>] > 0
<1> DEFINE row == <<i, w, USER>>
<1>1. row \in Rows /\ row[1] = i /\ row[2] = w /\ row[3] = USER
  BY DEF Rows, Used
<1>2. rows[row] \in Nat
  BY <1>1 DEF Evaluates
<1>3. cache'[row] = rows[row] + 1
  <2> HIDE DEF row
  <2> QED BY <1>1 DEF Evaluates, EvaluatedCache
<1> HIDE DEF row
<1>4. cache'[row] > 0
  BY <1>2, <1>3
<1> QED BY <1>4 DEF row

\* A rule that was just whitelisted is one an evaluation matched.
LEMMA JustWhitelisted ==
  ASSUME NEW rules, NEW rows, NEW E, NEW fresh, From(rules, rows),
         Evaluates(rules, rows, E, fresh),
         NEW i \in Used(rtbh'), rtbh'[i].rstate = Whitelisted,
         ~ (rtbh[i] # NoRule /\ rtbh[i].rstate = Whitelisted)
  PROVE  /\ i \in Used(rules) /\ rtbh'[i].net = rules[i].net
         /\ \E w \in Net : <<i, w>> \in E
<1>1. i \in Ids /\ rtbh'[i] # NoRule
  BY DEF Used
<1>2. ~ \E p \in PartsOf(rules, E) : IsPart(rules, E, fresh, i, p)
  <2> SUFFICES ASSUME NEW p \in PartsOf(rules, E), IsPart(rules, E, fresh, i, p)
               PROVE  FALSE
    OBVIOUS
  <2>1. rtbh'[i].rstate = Active
    BY DEF IsPart
  <2> QED BY <2>1 DEF Active, Whitelisted
<1>3. ~ IsKept(rules, E, i)
  <2> SUFFICES ASSUME IsKept(rules, E, i) PROVE FALSE
    OBVIOUS
  <2>1. i \in Used(rules) /\ rules[i].rstate = Whitelisted
    BY <1>1 DEF IsKept, Used
  <2> QED BY <2>1 DEF From, SameRule, NewRule
<1>4. i \in Used(rules) /\ \E w \in Net : <<i, w>> \in E
  BY <1>1, <1>2, <1>3, EvaluatedShape DEF IsWhitelisted
<1> QED BY <1>4, UsedAfter

\* Then each of its addresses is named by one of its whitelists, or is in a
\* part narrower than the rule.
LEMMA EvaluationLeavesNoGap ==
  ASSUME AddressSpace, NEW rules, NEW rows, NEW E, NEW fresh, From(rules, rows),
         Evaluates(rules, rows, E, fresh),
         NEW i \in Used(rtbh'), rtbh'[i].rstate = Whitelisted,
         ~ (rtbh[i] # NoRule /\ rtbh[i].rstate = Whitelisted),
         NEW a \in rtbh'[i].net,
         \A w \in Net : cache'[<<i, w, USER>>] > 0 => a \notin w
  PROVE  \E n \in PartNets(rules, E) : a \in n /\ n # rtbh'[i].net
<1>1. i \in Used(rules) /\ rtbh'[i].net = rules[i].net
  BY JustWhitelisted
<1>2. PICK w \in Net : <<i, w>> \in E
  BY JustWhitelisted
<1>3. a \notin w
  BY <1>1, <1>2, MatchIsNamed
<1> QED BY <1>1, <1>2, <1>3, MatchLeavesParts

LEMMA StepLeavesNoGap ==
  ASSUME AddressSpace, TablesInv, [Next]_vars,
         NEW i \in Used(rtbh'), rtbh'[i].rstate = Whitelisted,
         ~ (rtbh[i] # NoRule /\ rtbh[i].rstate = Whitelisted),
         NEW a \in rtbh'[i].net,
         \A w \in Net : cache'[<<i, w, USER>>] > 0 => a \notin w
  PROVE  \E n \in bgp' : a \in n
<1>t. TypeOK
  BY DEF TablesInv
<1>1. CASE CreatedStep
  <2>1. PICK j, rule, E, fresh : Created(j, rule, E, fresh)
    BY <1>1 DEF CreatedStep
  <2> DEFINE rules == [rtbh EXCEPT ![j] = rule]
  <2>2. Evaluates(rules, cache, E, fresh) /\ PartNets(rules, E) \subseteq bgp'
    BY <2>1 DEF Created
  <2>3. From(rules, cache)
    BY <1>t, <2>1, CreatedTables
  <2> HIDE DEF rules
  <2> QED BY <2>2, <2>3, EvaluationLeavesNoGap
<1>2. CASE ReactivatedStep
  <2>1. PICK j, rule, E, fresh : Reactivated(j, rule, E, fresh)
    BY <1>2 DEF ReactivatedStep
  <2> DEFINE rules == [rtbh EXCEPT ![j] = rule]
  <2>2. Evaluates(rules, cache, E, fresh) /\ PartNets(rules, E) \ {rule.net} \subseteq bgp'
    BY <2>1 DEF Reactivated
  <2>3. From(rules, cache)
    BY <1>t, <2>1, ReactivatedTables
  <2>4. rtbh'[i].net = rule.net
    <3>1. j \in Used(rules) /\ rules[j] = rule
      BY <1>t, <2>1, NoValueAssumption DEF Reactivated, TypeOK, Used
    <3> HIDE DEF rules
    <3>2. rtbh'[i].net = rules[i].net /\ \E w \in Net : <<i, w>> \in E
      BY <2>2, <2>3, JustWhitelisted
    <3>3. i = j
      BY <2>1, <3>2 DEF Reactivated
    <3> QED BY <3>1, <3>2, <3>3
  <2> HIDE DEF rules
  <2> QED BY <2>2, <2>3, <2>4, EvaluationLeavesNoGap
<1>3. CASE ListedStep
  <2>1. PICK rules, rows, routes, wl, S, fresh :
          From(rules, rows) /\ Listed(rules, rows, routes, wl, S, fresh)
    BY <1>3 DEF ListedStep
  <2> DEFINE E == S \X {wl}
  <2>2. Evaluates(rules, rows, E, fresh) /\ PartNets(rules, E) \subseteq bgp'
    BY <2>1 DEF Listed
  <2> HIDE DEF E
  <2> QED BY <2>1, <2>2, EvaluationLeavesNoGap
<1>4. CASE OtherStep
  BY <1>4 DEF OtherStep, From, SameRule, NewRule
<1> QED BY <1>1, <1>2, <1>3, <1>4, StepForms

\* When a rule gets whitelisted, every address of it that its whitelists do
\* not name stays in an announced prefix.
THEOREM SplitsLeaveNoGap ==
  ASSUME AddressSpace
  PROVE  Spec => SplitLeavesNoGap
<1>1. ASSUME TablesInv, [Next]_vars, NEW i \in Used(rtbh'), rtbh'[i].rstate = Whitelisted,
             ~ (rtbh[i] # NoRule /\ rtbh[i].rstate = Whitelisted)
      PROVE  rtbh'[i].net \ UNION {w \in Net : cache'[<<i, w, USER>>] > 0} \subseteq UNION bgp'
  <2> SUFFICES ASSUME NEW a \in rtbh'[i].net,
                      a \notin UNION {w \in Net : cache'[<<i, w, USER>>] > 0}
               PROVE  a \in UNION bgp'
    OBVIOUS
  <2>1. \A w \in Net : cache'[<<i, w, USER>>] > 0 => a \notin w
    OBVIOUS
  <2>2. \E n \in bgp' : a \in n
    BY <1>1, <2>1, StepLeavesNoGap
  <2> QED BY <2>2
<1>2. TablesInv /\ [Next]_vars =>
        [\A i \in Used(rtbh') :
           LET named == UNION {w \in Net : cache'[<<i, w, USER>>] > 0}
           IN  (/\ rtbh'[i].rstate = Whitelisted
                /\ ~ (rtbh[i] # NoRule /\ rtbh[i].rstate = Whitelisted))
               => rtbh'[i].net \ named \subseteq UNION bgp']_vars
  BY <1>1
<1> QED BY <1>2, TablesHold, PTL DEF Spec, SplitLeavesNoGap

\* Rule i gets a future time and is withdrawn after it.
Overlooked(i) ==
  /\ i \in Used(rtbh) \cap Used(rtbh')
  /\ rtbh'[i].expires # rtbh[i].expires
  /\ rtbh'[i].expires > now
  /\ rtbh'[i].rstate = Withdrawn

\* An evaluation overlooks no rule it was given with its old time.
LEMMA EvaluationOverlooks ==
  ASSUME NEW rules, NEW rows, NEW E, NEW fresh, Evaluates(rules, rows, E, fresh),
         NEW i, Overlooked(i)
  PROVE  /\ rules[i] # NoRule /\ rules[i] # rtbh[i] /\ rtbh'[i] = rules[i]
<1>1. i \in Ids /\ rtbh'[i] # NoRule
  BY DEF Overlooked, Used
<1>2. ASSUME NEW p \in PartsOf(rules, E), IsPart(rules, E, fresh, i, p)
      PROVE  FALSE
  BY <1>2 DEF IsPart, Overlooked, Active, Withdrawn
<1>3. ~ IsWhitelisted(rules, E, i)
  <2> SUFFICES ASSUME IsWhitelisted(rules, E, i) PROVE FALSE
    OBVIOUS
  <2>1. rules[i] \in Rule /\ rtbh'[i] = [rules[i] EXCEPT !.rstate = Whitelisted]
    BY DEF IsWhitelisted, Used, Evaluates, Rules
  <2>2. rtbh'[i].rstate = Whitelisted
    BY <2>1 DEF Rule
  <2> QED BY <2>2 DEF Overlooked, Withdrawn, Whitelisted
<1>4. IsKept(rules, E, i)
  BY <1>1, <1>2, <1>3, EvaluatedShape
<1> QED BY <1>1, <1>4 DEF IsKept, Overlooked

LEMMA StepOverlooks ==
  ASSUME TypeOK, [Next]_vars, NEW i, Overlooked(i)
  PROVE  \E e \in Times : ReactivateRtbh(i, e)
<1>t. /\ rtbh \in Rules /\ cache \in [Rows -> Nat] /\ now \in Nat
      /\ i \in Ids /\ rtbh[i] \in Rule /\ rtbh[i] # NoRule /\ rtbh'[i] # NoRule
  BY BoundAssumption DEF TypeOK, Rules, Overlooked, Used
<1>u. ASSUME rtbh'[i] \in {rtbh[i], NoRule}
      PROVE  FALSE
  BY <1>u, <1>t DEF Overlooked
<1>1. ASSUME NEW n \in RuleNets, NEW c \in Community, NEW e \in Times,
             CreateOrUpdateRtbh(n, c, e)
      PROVE  FALSE
  <2>1. PICK j, rule, E, fresh : Created(j, rule, E, fresh)
    BY <1>1, CreateEvaluates
  <2> DEFINE rules == [rtbh EXCEPT ![j] = rule]
  <2>2. rules[i] = IF i = j THEN rule ELSE rtbh[i]
    BY <1>t DEF Rules
  <2>3. Evaluates(rules, cache, E, fresh)
    BY <2>1 DEF Created
  <2> HIDE DEF rules
  <2>4. rules[i] # rtbh[i] /\ rtbh'[i] = rules[i]
    BY <2>3, EvaluationOverlooks
  <2>5. rtbh'[i].rstate = StateByTime(rtbh'[i].expires) /\ rtbh'[i].expires \in Nat
    BY <2>1, <2>2, <2>4 DEF Created, Rule, Times
  <2> QED BY <1>t, <2>5 DEF Overlooked, StateByTime, Active, Withdrawn
<1>2. ASSUME NEW j \in Ids, NEW e \in Times, ReactivateRtbh(j, e)
      PROVE  i = j
  <2>1. PICK rule, E, fresh : Reactivated(j, rule, E, fresh)
    BY <1>2, ReactivateEvaluates
  <2> DEFINE rules == [rtbh EXCEPT ![j] = rule]
  <2>2. rules[i] = IF i = j THEN rule ELSE rtbh[i]
    BY <1>t DEF Rules
  <2>3. Evaluates(rules, cache, E, fresh)
    BY <2>1 DEF Reactivated
  <2> HIDE DEF rules
  <2> QED BY <2>2, <2>3, EvaluationOverlooks
<1>3. ASSUME NEW ids, rtbh' = RulesWithout(rtbh, ids)
      PROVE  FALSE
  BY <1>3, <1>t, <1>u DEF RulesWithout
<1>4. ASSUME NEW ids \in SUBSET Ids, NEW e \in Times, GroupUpdateSave(ids, e)
      PROVE  FALSE
  <2>1. rtbh'[i] = IF i \in ids
                   THEN [rtbh[i] EXCEPT !.expires = e, !.rstate = StateByTime(e)]
                   ELSE rtbh[i]
    BY <1>4, <1>t DEF GroupUpdateSave
  <2>2. rtbh'[i].rstate = StateByTime(e) /\ rtbh'[i].expires = e /\ e \in Nat
    BY <1>t, <1>u, <2>1 DEF Rule, Times
  <2> QED BY <1>t, <2>2 DEF Overlooked, StateByTime, Active, Withdrawn
<1>5. ASSUME NEW rules, NEW rows, NEW routes, NEW wl, NEW S, NEW fresh,
             rules[i] \in {rtbh[i], NoRule}, Listed(rules, rows, routes, wl, S, fresh)
      PROVE  FALSE
  <2>1. Evaluates(rules, rows, S \X {wl}, fresh)
    BY <1>5 DEF Listed
  <2> QED BY <1>5, <2>1, EvaluationOverlooks
<1>6. ASSUME NEW w \in WhitelistNets, NEW e \in Times, CreateOrUpdateWhitelist(w, e)
      PROVE  FALSE
  <2>1. w \in Net /\ Reduced(rtbh, cache)
    BY <1>t, NetAssumption DEF Reduced
  <2>2. PICK S, fresh : Listed(rtbh, cache, bgp, w, S, fresh)
    BY <1>6, <2>1, SaveWhitelistEvaluates DEF CreateOrUpdateWhitelist
  <2> QED BY <1>5, <2>2
<1>7. ASSUME NEW j \in Ids, NEW e \in Times, DeleteRtbhAndCreateWhitelist(j, e)
      PROVE  FALSE
  <2>1. PICK S, fresh : Listed(RulesWithout(rtbh, {j}), CacheWithoutRules(cache, {j}),
                               bgp \ {rtbh[j].net}, rtbh[j].net, S, fresh)
    BY <1>7, WhitelistingListed
  <2>2. RulesWithout(rtbh, {j})[i] \in {rtbh[i], NoRule}
    BY <1>t DEF RulesWithout
  <2> QED BY <1>5, <2>1, <2>2
<1>8. ASSUME NEW w \in Net, DeleteWhitelistEffect(w)
      PROVE  FALSE
  <2>1. rtbh'[i] = IF i \in CreatedBy(w) THEN NoRule
                   ELSE IF i \in RestoredBy(w)
                   THEN [rtbh[i] EXCEPT !.rstate = Active] ELSE rtbh[i]
    BY <1>8, <1>t DEF DeleteWhitelistEffect
  <2>2. rtbh'[i].expires = rtbh[i].expires
    BY <1>t, <2>1 DEF Rule
  <2> QED BY <2>2 DEF Overlooked
<1>9. CASE CronMark
  <2>1. rtbh'[i] = IF i \in call.ids THEN [rtbh[i] EXCEPT !.rstate = Withdrawn] ELSE rtbh[i]
    BY <1>9, <1>t DEF CronMark
  <2>2. rtbh'[i].expires = rtbh[i].expires
    BY <1>t, <2>1 DEF Rule
  <2> QED BY <2>2 DEF Overlooked
<1>10. CASE RuleRequest
  BY <1>1, <1>2, <1>3, <1>4, <1>u, <1>10
     DEF RuleRequest, DeleteRule, ApiDeleteRule, GroupDelete, GroupDeleteAborted, AnnounceAll
<1>11. CASE WhitelistRequest
  BY <1>6, <1>7, <1>8, <1>11 DEF WhitelistRequest, DeleteWhitelist
<1>12. CASE ClearRows
  BY <1>12, ClearedRules DEF Overlooked
<1>13. ASSUME NEW n \in Net, CronWithdraw(n)
       PROVE  FALSE
  BY <1>13, <1>u DEF CronWithdraw
<1>14. ASSUME NEW flow \in SUBSET FlowIds, CronPurgeRules(flow)
       PROVE  FALSE
  BY <1>3, <1>14 DEF CronPurgeRules
<1>15. CASE CallStart \/ CallStep
  BY <1>9, <1>12, <1>13, <1>14, <1>15, <1>u, CallForms DEF Quiet
<1>16. CASE Tick \/ UNCHANGED vars
  BY <1>u, <1>16 DEF Tick, vars
<1> QED BY <1>10, <1>11, <1>15, <1>16 DEF Next

\* NewTimeActivates is violated by reactivation alone: every other handler that
\* stores a future time for a rule sets its state too.
THEOREM OnlyReactivationKeepsWithdrawn ==
  Spec => [][\A i \in Ids : Overlooked(i) => \E e \in Times : ReactivateRtbh(i, e)]_vars
<1>1. TypeOK /\ [Next]_vars =>
        [\A i \in Ids : Overlooked(i) => \E e \in Times : ReactivateRtbh(i, e)]_vars
  BY StepOverlooks
<1> QED BY <1>1, TypeCorrect, PTL DEF Spec

=============================================================================
