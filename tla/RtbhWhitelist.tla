--------------------------- MODULE RtbhWhitelist ---------------------------
(***************************************************************************)
(* The RTBH rules of ExaFS, the whitelists that restrict them, the cache   *)
(* table that ties the two together and the prefixes ExaBGP announces.     *)
(*                                                                         *)
(* A web request is one action: it reads and writes the database, sends    *)
(* its ExaBGP commands and ends.  One call at a time is followed step by   *)
(* step, in another worker: the cleaning endpoint, which cron calls, or a  *)
(* user's deletion of a whitelist.  What it reads, each command it sends   *)
(* and each commit is an action, and requests run between them.  The       *)
(* commands reach ExaBGP (losing them is another module's subject); what   *)
(* is kept of ExaBGP is the set of prefixes it announces.  There is one    *)
(* clock: that of the application and that of the database agree.          *)
(***************************************************************************)
EXTENDS Naturals, FiniteSets

CONSTANTS
  Net,                 \* networks, each a set of addresses
  RuleNets,            \* networks for which users ask RTBH rules
  WhitelistNets,       \* networks for which users ask whitelists
  Ids,                 \* ids of the RTBH table; how many rules may coexist
  FlowIds,             \* ids the flowspec tables give to rules that get purged
  Community,           \* the communities a rule may carry
  AllowedCommunities,  \* config ALLOWED_COMMUNITIES: those whitelists apply to
  MaxTime,             \* bound of the expiration times
  MaxNow,              \* bound of the clock
  Retention,           \* config EXPIRATION_THRESHOLD
  MaxRows, MaxCopies,  \* bounds of the cache table: different rows, equal rows
  NoRule, NoWhitelist  \* a free id, an unlisted network, a row without one

(***************************************************************************)
(* Networks are CIDR blocks: two of them are nested or disjoint, and what  *)
(* remains of a block without an inner block is made of blocks.            *)
(***************************************************************************)
ASSUME NetAssumption ==
  /\ {} \notin Net
  /\ \A m, n \in Net : m \subseteq n \/ n \subseteq m \/ m \cap n = {}
  /\ RuleNets \subseteq Net /\ WhitelistNets \subseteq Net
\* Ids of flowspec rules that no RTBH rule can have concern no row.
ASSUME FlowAssumption == FlowIds \subseteq Ids
ASSUME CommunityAssumption == AllowedCommunities \subseteq Community
ASSUME BoundAssumption ==
  /\ MaxTime \in Nat /\ Retention \in Nat /\ MaxRows \in Nat /\ MaxCopies \in Nat
  /\ MaxNow \in 0 .. MaxTime

Times == 0 .. MaxTime

Active == 1
Withdrawn == 2
Whitelisted == 4

USER == "USER"
WHITELIST == "WHITELIST"

\* origin repeats what the cache row says of a rule when it is created; the
\* code has no such column and no action reads it.
Rule == [net : Net, community : Community,
         rstate : {Active, Withdrawn, Whitelisted},
         expires : Times, origin : {USER, WHITELIST}]

\* NoWhitelist in a row: its whitelist_id is NULL.
Rows == Ids \X (Net \cup {NoWhitelist}) \X {USER, WHITELIST}

ASSUME NoValueAssumption ==
  NoRule \notin Rule /\ NoWhitelist \notin Times /\ NoWhitelist \notin Net

VARIABLES
  rtbh,       \* table RTBH
  whitelist,  \* table Whitelist: the expiration time of each listed network
  cache,      \* table RuleWhitelistCache: how many rows <<rid, net, rorigin>>
  bgp,        \* the prefixes ExaBGP announces
  now,        \* the clock, in units of the expiration times
  call,       \* the call that is followed step by step
  disturbed,  \* history: prefixes that two rules shared, that an aborted group
              \* delete hit, or that the call and a request fought over
  strayed     \* history: ids a request wrote between a read and a write of the
              \* call that concerns them, or whose rows a flowspec purge took

vars == <<rtbh, whitelist, cache, bgp, now, call, disturbed, strayed>>

\* pc: what the call does next; user: it is a user's deletion; wls: listed
\* whitelists that exist; stale: one of them has gone; wl: the one in hand;
\* ids, drop: rules it read, to update and to delete; routes: commands to send.
Idle == [pc |-> "idle", user |-> FALSE, wls |-> {}, stale |-> FALSE,
         wl |-> NoWhitelist, ids |-> {}, drop |-> {}, routes |-> {}]

Init ==
  /\ rtbh = [i \in Ids |-> NoRule]
  /\ whitelist = [n \in Net |-> NoWhitelist]
  /\ cache = [row \in Rows |-> 0]
  /\ bgp = {}
  /\ now = 0
  /\ call = Idle
  /\ disturbed = {}
  /\ strayed = {}

-----------------------------------------------------------------------------
(* Whitelists against rules. *)

\* The whitelist is EQUAL to the rule, its SUPERNET, its SUBNET, or DIFFERENT.
Relation(rule, wl) ==
  IF wl = rule THEN "EQUAL"
  ELSE IF rule \subseteq wl THEN "SUPERNET"
  ELSE IF wl \subseteq rule THEN "SUBNET"
  ELSE "DIFFERENT"

\* Mutants: one block is forgotten; the block that holds wl is not left out.
SubtractOneSide(rule, wl) ==
  LET inside == {n \in Net : n \subseteq rule \ wl}
      blocks == {n \in inside : \A m \in inside : n \subseteq m => m = n}
  IN  {n \in blocks : \A m \in blocks : Cardinality(m) <= Cardinality(n)}

SubtractNothing(rule, wl) ==
  LET inside == {n \in Net : n \subseteq rule /\ n # rule}
  IN  {n \in inside : \A m \in inside : n \subseteq m => m = n}

\* The blocks that remain of rule when wl is taken out: the largest ones
\* that fit.
SubtractNetwork(rule, wl) ==
  LET inside == {n \in Net : n \subseteq rule \ wl}
  IN  {n \in inside : \A m \in inside : n \subseteq m => m = n}

Used(rules) == {i \in Ids : rules[i] # NoRule}

\* Ids of rules the call or the history refers to; at "flow" the call holds
\* ids of another table.
Claimed == (IF call.pc = "flow" THEN {} ELSE call.ids) \cup call.drop \cup strayed

\* ids the autoincrement may still hand out: no rule, cache row or running
\* call refers to them.
FreeIds ==
  {i \in Ids : /\ rtbh[i] = NoRule
               /\ i \notin Claimed
               /\ \A row \in Rows : row[1] = i => cache[row] = 0}

\* The rules to create for the matches E, a set of <<rule id, whitelist>>.
PartsOf(rules, E) ==
  UNION {{<<m[1], m[2], n>> : n \in SubtractNetwork(rules[m[1]].net, m[2])} :
           m \in {e \in E : Relation(rules[e[1]].net, e[2]) = "SUBNET"}}

\* The ways to give new ids to those parts.
NewIds(rules, E, free) ==
  LET parts == PartsOf(rules, E)
  IN  {f \in [parts -> free] : \A p, q \in parts : f[p] = f[q] => p = q}

\* Mutant: the parts are not announced.
PartsSilent(rules, E) == {}

PartNets(rules, E) == {p[3] : p \in PartsOf(rules, E)}

\* The rules after the matches E were evaluated: matched rules are
\* whitelisted, parts inherit community and expiration and are active.
EvaluatedRules(rules, E, fresh) ==
  [i \in Ids |->
     IF \E p \in DOMAIN fresh : fresh[p] = i
     THEN LET p == CHOOSE q \in DOMAIN fresh : fresh[q] = i
          IN  [net |-> p[3], community |-> rules[p[1]].community,
               rstate |-> Active, expires |-> rules[p[1]].expires,
               origin |-> WHITELIST]
     ELSE IF \E w \in Net : <<i, w>> \in E
     THEN [rules[i] EXCEPT !.rstate = Whitelisted]
     ELSE rules[i]]

\* Mutants: no rows for the parts, a row for one part only.
CacheNoParts(rows, E, fresh) ==
  [row \in Rows |-> IF row[3] = USER /\ <<row[1], row[2]>> \in E
                    THEN rows[row] + 1 ELSE rows[row]]

CacheOnePart(rows, E, fresh) ==
  [row \in Rows |->
     IF \/ row[3] = USER /\ <<row[1], row[2]>> \in E
        \/ /\ row[3] = WHITELIST /\ DOMAIN fresh # {}
           /\ LET p == CHOOSE q \in DOMAIN fresh : TRUE
              IN  row[1] = fresh[p] /\ row[2] = p[2]
     THEN rows[row] + 1
     ELSE rows[row]]

\* The rows of that evaluation: one for each match, one for each part.
EvaluatedCache(rows, E, fresh) ==
  [row \in Rows |->
     IF \/ row[3] = USER /\ <<row[1], row[2]>> \in E
        \/ /\ row[3] = WHITELIST
           /\ \E p \in DOMAIN fresh : p[2] = row[2] /\ fresh[p] = row[1]
     THEN rows[row] + 1
     ELSE rows[row]]

CacheWithoutRules(rows, ids) ==
  [row \in Rows |-> IF row[1] \in ids THEN 0 ELSE rows[row]]

RulesWithout(rules, ids) ==
  [i \in Ids |-> IF i \in ids THEN NoRule ELSE rules[i]]

NetsOf(rules, ids) == {rules[i].net : i \in ids}

\* Mutant: the state "deleted", which no rule in the table has.
StateDeleted(expires) == IF expires <= now THEN 3 ELSE Active

StateByTime(expires) == IF expires <= now THEN Withdrawn ELSE Active

SharedNets(rules) ==
  {n \in Net : \E i, j \in Used(rules) :
                 i # j /\ rules[i].net = n /\ rules[j].net = n}

\* The prefixes of the rules the call is about to make active.
BeingRestored ==
  IF call.pc = "restore" THEN NetsOf(rtbh, call.ids \cap Used(rtbh)) ELSE {}

\* The row was added after the call read the rows, and before it is done with
\* the whitelist or the rule.
AddedMeanwhile(row) ==
  /\ \/ call.pc \in {"restore", "drop"} /\ row[2] = call.wl /\ call.wl \in call.wls
     \/ call.pc = "restore" /\ row[1] \in call.ids
  /\ cache'[row] > cache[row]

\* The rule was written after the call read its id, and before it is deleted.
RenewedMeanwhile(i) ==
  /\ call.pc = "rows" /\ i \in call.drop
  /\ rtbh'[i] \notin {rtbh[i], NoRule}

\* The history follows the tables and the routes.
NoteHistory ==
  /\ disturbed' = disturbed \cup SharedNets(rtbh') \cup ((bgp \ bgp') \cap BeingRestored)
  /\ strayed' = strayed
       \cup {i \in Ids : \E row \in Rows : row[1] = i /\ AddedMeanwhile(row)}
       \cup {i \in Ids : RenewedMeanwhile(i)}

\* Rows that lost their whitelist count as copies.
RowsBounded ==
  /\ \A i \in Ids, w \in Net, origin \in {USER, WHITELIST} :
       cache'[<<i, w, origin>>] + cache'[<<i, NoWhitelist, origin>>] <= MaxCopies
  /\ Cardinality({row \in Rows : cache'[row] > 0}) <= MaxRows

-----------------------------------------------------------------------------
(* Requests on rules. *)

LiveWhitelists == {w \in Net : whitelist[w] # NoWhitelist /\ whitelist[w] > now}

\* check_rtbh_whitelisted: the matches of rule i among unexpired whitelists.
MatchingWhitelists(rules, i) ==
  {<<i, w>> : w \in {v \in LiveWhitelists :
                       /\ rules[i].community \in AllowedCommunities
                       /\ Relation(rules[i].net, v) # "DIFFERENT"}}

\* The rule is looked up by network and community in any state; a known one
\* gets the new time and the state of that time.
CreateOrUpdateRtbh(net, community, expires) ==
  LET same == {i \in Used(rtbh) :
                 rtbh[i].net = net /\ rtbh[i].community = community}
  IN  \E i \in IF same # {} THEN same ELSE FreeIds :
        LET saved == [rtbh EXCEPT ![i] =
                        [net |-> net, community |-> community,
                         rstate |-> StateByTime(expires), expires |-> expires,
                         origin |-> IF same # {} THEN rtbh[i].origin ELSE USER]]
            E == MatchingWhitelists(saved, i)
        IN  \E fresh \in NewIds(saved, E, FreeIds \ {i}) :
              /\ rtbh' = EvaluatedRules(saved, E, fresh)
              /\ cache' = EvaluatedCache(cache, E, fresh)
              /\ RowsBounded
              /\ bgp' = bgp \cup PartNets(saved, E)
                          \cup {n \in {net} : rtbh'[i].rstate = Active}
              /\ UNCHANGED <<whitelist, now, call>>
              /\ NoteHistory

\* The new time is stored; the state is set only by a matching whitelist.
ReactivateRtbh(i, expires) ==
  /\ rtbh[i] # NoRule
  /\ LET saved == [rtbh EXCEPT ![i].expires = expires]
         E == MatchingWhitelists(saved, i)
         net == rtbh[i].net
     IN  \E fresh \in NewIds(saved, E, FreeIds) :
           /\ rtbh' = EvaluatedRules(saved, E, fresh)
           /\ cache' = EvaluatedCache(cache, E, fresh)
           /\ RowsBounded
           /\ bgp' = IF rtbh'[i].rstate = Active
                     THEN bgp \cup PartNets(saved, E) \cup {net}
                     ELSE (bgp \cup PartNets(saved, E)) \ {net}
           /\ UNCHANGED <<whitelist, now, call>>
           /\ NoteHistory

\* Delete in the web interface.
DeleteRule(i) ==
  /\ rtbh[i] # NoRule
  /\ bgp' = bgp \ {rtbh[i].net}
  /\ cache' = CacheWithoutRules(cache, {i})
  /\ rtbh' = RulesWithout(rtbh, {i})
  /\ UNCHANGED <<whitelist, now, call>>
  /\ NoteHistory

\* Delete through the API: the cache rows stay.
ApiDeleteRule(i) ==
  /\ rtbh[i] # NoRule
  /\ bgp' = bgp \ {rtbh[i].net}
  /\ rtbh' = RulesWithout(rtbh, {i})
  /\ UNCHANGED <<whitelist, cache, now, call>>
  /\ NoteHistory

\* Group delete: every selected rule is withdrawn, then all are deleted; the
\* cache rows stay.
GroupDelete(ids) ==
  /\ ids # {} /\ ids \subseteq Used(rtbh)
  /\ bgp' = bgp \ NetsOf(rtbh, ids)
  /\ rtbh' = RulesWithout(rtbh, ids)
  /\ UNCHANGED <<whitelist, cache, now, call>>
  /\ NoteHistory

\* Group delete by an administrator whose page lists a rule deleted since:
\* the request fails at that rule, after the withdrawals of those before it.
GroupDeleteAborted(ids) ==
  /\ ids # {} /\ ids \subseteq Used(rtbh)
  /\ \E gone \in Ids : rtbh[gone] = NoRule
  /\ bgp' = bgp \ NetsOf(rtbh, ids)
  /\ disturbed' = disturbed \cup NetsOf(rtbh, ids)
  /\ UNCHANGED <<rtbh, whitelist, cache, now, call, strayed>>

\* Group update: time and state are set whatever the state was, whitelists
\* are not consulted.
GroupUpdateSave(ids, expires) ==
  /\ ids # {} /\ ids \subseteq Used(rtbh)
  /\ rtbh' = [i \in Ids |->
                IF i \in ids
                THEN [rtbh[i] EXCEPT !.expires = expires,
                                     !.rstate = StateByTime(expires)]
                ELSE rtbh[i]]
  /\ bgp' = IF StateByTime(expires) = Active
            THEN bgp \cup NetsOf(rtbh, ids)
            ELSE bgp \ NetsOf(rtbh, ids)
  /\ UNCHANGED <<whitelist, cache, now, call>>
  /\ NoteHistory

\* Re-announce what is active and not expired.
AnnounceAll ==
  /\ bgp' = bgp \cup NetsOf(rtbh, {i \in Used(rtbh) : /\ rtbh[i].rstate = Active
                                                      /\ rtbh[i].expires >= now})
  /\ UNCHANGED <<rtbh, whitelist, cache, now, call, disturbed, strayed>>

-----------------------------------------------------------------------------
(* Requests on whitelists. *)

\* Mutants: rules wider than the whitelist are missed, communities ignored.
CandidatesNarrow(rules, wl) ==
  {i \in Used(rules) : /\ rules[i].rstate \in {Active, Whitelisted}
                       /\ rules[i].community \in AllowedCommunities
                       /\ Relation(rules[i].net, wl) \in {"EQUAL", "SUPERNET"}}

CandidatesAnyCommunity(rules, wl) ==
  {i \in Used(rules) : /\ rules[i].rstate \in {Active, Whitelisted}
                       /\ Relation(rules[i].net, wl) # "DIFFERENT"}

\* The candidate rules, reduced to one for each network: the code collects
\* them in a dictionary under their text, the last one read stays.
Candidates(rules, wl) ==
  {i \in Used(rules) : /\ rules[i].rstate \in {Active, Whitelisted}
                       /\ rules[i].community \in AllowedCommunities
                       /\ Relation(rules[i].net, wl) # "DIFFERENT"}

OnePerNet(rules, ids) ==
  {S \in SUBSET ids :
     /\ \A i, j \in S : rules[i].net = rules[j].net => i = j
     /\ \A i \in ids : \E j \in S : rules[j].net = rules[i].net}

\* The rules that whitelisting withdraws: those the whitelist covers.
Covered(rules, S, wl) ==
  {i \in S : Relation(rules[i].net, wl) \in {"EQUAL", "SUPERNET"}}

\* Store a whitelist for wl and evaluate it, in the database left by what the
\* request did before: rules, rows and routes.
SaveWhitelist(rules, rows, routes, wl, expires) ==
  \E S \in OnePerNet(rules, Candidates(rules, wl)) :
    LET E == S \X {wl}
    IN  \E fresh \in NewIds(rules, E, FreeIds) :
          /\ whitelist' = [whitelist EXCEPT ![wl] = expires]
          /\ rtbh' = EvaluatedRules(rules, E, fresh)
          /\ cache' = EvaluatedCache(rows, E, fresh)
          /\ RowsBounded
          /\ bgp' = (routes \ NetsOf(rules, Covered(rules, S, wl)))
                      \cup PartNets(rules, E)
          /\ UNCHANGED <<now, call>>
          /\ NoteHistory

CreateOrUpdateWhitelist(wl, expires) ==
  SaveWhitelist(rtbh, cache, bgp, wl, expires)

DeleteRtbhAndCreateWhitelist(i, expires) ==
  /\ rtbh[i] # NoRule
  /\ expires > now
  /\ SaveWhitelist(RulesWithout(rtbh, {i}), CacheWithoutRules(cache, {i}),
                   bgp \ {rtbh[i].net}, rtbh[i].net, expires)

RowCount(i) == {row \in Rows : row[1] = i /\ cache[row] > 0}

\* Mutant: the number of rows is not looked at.
AnyRow(i) == RowCount(i) # {}

\* count_by_rule(i) = 1
SingleRow(i) ==
  \E row \in Rows : /\ RowCount(i) = {row}
                    /\ cache[row] = 1

\* Rules created by whitelist wl, and rules whose only row is that of wl.
CreatedBy(wl) == {i \in Used(rtbh) : cache[<<i, wl, WHITELIST>>] > 0}
RestoredBy(wl) ==
  {i \in Used(rtbh) : cache[<<i, wl, USER>>] > 0 /\ SingleRow(i)}

\* A deletion that nothing comes between: created rules are deleted, restored
\* ones are active and announced again.
DeleteWhitelistEffect(wl) ==
  /\ rtbh' = [i \in Ids |-> IF i \in CreatedBy(wl) THEN NoRule
                            ELSE IF i \in RestoredBy(wl)
                            THEN [rtbh[i] EXCEPT !.rstate = Active]
                            ELSE rtbh[i]]
  /\ bgp' = bgp \cup NetsOf(rtbh, RestoredBy(wl))
  /\ cache' = [row \in Rows |-> IF row[2] = wl THEN 0 ELSE cache[row]]
  /\ whitelist' = [whitelist EXCEPT ![wl] = NoWhitelist]
  /\ NoteHistory

\* Whitelist ids are not reused: a listing made by the call is stale from now on.
DeleteWhitelist(wl) ==
  /\ whitelist[wl] # NoWhitelist
  /\ DeleteWhitelistEffect(wl)
  /\ call' = [call EXCEPT !.wls = @ \ {wl}, !.stale = @ \/ wl \in call.wls]
  /\ UNCHANGED now

-----------------------------------------------------------------------------
(* Deleting a whitelist step by step, by a user or the cleaning endpoint. *)

\* Mutant: restored rules are not announced.
ReadSilently(listing, wl) ==
  call' = [listing EXCEPT !.pc = "restore", !.wl = wl,
                          !.ids = {i \in RestoredBy(wl) : rtbh[i].rstate # Active},
                          !.drop = CreatedBy(wl)]

\* The rows of the whitelist are read, with the number of rows of each rule.
\* Updates are sent for the rules that are not active when they are read.
ReadRows(listing, wl) ==
  call' = [listing EXCEPT !.pc = "restore", !.wl = wl,
                          !.ids = {i \in RestoredBy(wl) : rtbh[i].rstate # Active},
                          !.drop = CreatedBy(wl),
                          !.routes = NetsOf(rtbh, RestoredBy(wl))]

RequestReadWhitelist(wl) ==
  /\ call.pc = "idle"
  /\ whitelist[wl] # NoWhitelist
  /\ ReadRows([Idle EXCEPT !.user = TRUE, !.wls = {wl}], wl)
  /\ UNCHANGED <<rtbh, whitelist, cache, bgp, now, disturbed, strayed>>

CronReadWhitelist(wl) ==
  /\ call.pc = "whitelists"
  /\ wl \in call.wls
  /\ ReadRows(call, wl)
  /\ UNCHANGED <<rtbh, whitelist, cache, bgp, now, disturbed, strayed>>

\* Restored rules are announced before any commit ...
RestoreRoute(net) ==
  /\ call.pc = "restore"
  /\ net \in call.routes
  /\ bgp' = bgp \cup {net}
  /\ call' = [call EXCEPT !.routes = @ \ {net}]
  /\ UNCHANGED <<rtbh, whitelist, cache, now, disturbed, strayed>>

\* Mutant: the rows stay.
ClearNoRows ==
  /\ call.pc = "restore" /\ call.routes = {}
  /\ call.ids \subseteq Used(rtbh)
  /\ rtbh' = [i \in Ids |-> IF i \in call.drop THEN NoRule
                            ELSE IF i \in call.ids
                            THEN [rtbh[i] EXCEPT !.rstate = Active]
                            ELSE rtbh[i]]
  /\ call' = [call EXCEPT !.pc = "drop", !.ids = {}, !.drop = {}]
  /\ UNCHANGED <<whitelist, cache, bgp, now>>
  /\ NoteHistory

\* ... and stored, as far as they were counted, with the first commit, which
\* takes every row the whitelist has by then.
ClearRows ==
  /\ call.pc = "restore" /\ call.routes = {}
  /\ call.ids \subseteq Used(rtbh)
  /\ rtbh' = [i \in Ids |-> IF i \in call.drop THEN NoRule
                            ELSE IF i \in call.ids
                            THEN [rtbh[i] EXCEPT !.rstate = Active]
                            ELSE rtbh[i]]
  /\ cache' = [row \in Rows |-> IF row[2] = call.wl /\ call.wl \in call.wls
                                THEN 0 ELSE cache[row]]
  /\ call' = [call EXCEPT !.pc = "drop", !.ids = {}, !.drop = {}]
  /\ UNCHANGED <<whitelist, bgp, now>>
  /\ NoteHistory

\* A rule it was to update was deleted since: nothing is stored, the call
\* fails, and what it announced stays.
RestoredRuleGone ==
  /\ call.pc = "restore"
  /\ ~ (call.ids \subseteq Used(rtbh))
  /\ call' = Idle
  /\ UNCHANGED <<rtbh, whitelist, cache, bgp, now, disturbed, strayed>>

\* The second commit: the whitelist goes, rows it was given since stay without
\* a whitelist.
DropWhitelist ==
  /\ call.pc = "drop" /\ call.wl \in call.wls
  /\ whitelist' = [whitelist EXCEPT ![call.wl] = NoWhitelist]
  /\ cache' = [row \in Rows |->
                 IF row[2] = call.wl THEN 0
                 ELSE IF row[2] = NoWhitelist
                 THEN cache[row] + cache[<<row[1], call.wl, row[3]>>]
                 ELSE cache[row]]
  /\ call' = IF call.user THEN Idle
             ELSE [call EXCEPT !.pc = "whitelists", !.wls = @ \ {call.wl},
                               !.wl = NoWhitelist]
  /\ UNCHANGED <<rtbh, bgp, now, disturbed, strayed>>

\* The call fails when it meets a whitelist that was deleted since it was
\* listed: the row of the loaded object is missing.
WhitelistGone ==
  /\ \/ call.pc = "whitelists" /\ call.stale
     \/ call.pc = "drop" /\ call.wl \notin call.wls
  /\ call' = Idle
  /\ UNCHANGED <<rtbh, whitelist, cache, bgp, now, disturbed, strayed>>

-----------------------------------------------------------------------------
(* The cleaning endpoint. *)

\* Mutant: the comparison is the wrong way round.
CronStartReversed ==
  /\ call.pc = "idle"
  /\ call' = [Idle EXCEPT !.pc = "whitelists",
                          !.wls = {w \in Net : /\ whitelist[w] # NoWhitelist
                                               /\ whitelist[w] > now}]
  /\ UNCHANGED <<rtbh, whitelist, cache, bgp, now, disturbed, strayed>>

\* It lists the expired whitelists, deletes them one by one without looking at
\* the time again, ...
CronStart ==
  /\ call.pc = "idle"
  /\ call' = [Idle EXCEPT !.pc = "whitelists",
                          !.wls = {w \in Net : /\ whitelist[w] # NoWhitelist
                                               /\ whitelist[w] < now}]
  /\ UNCHANGED <<rtbh, whitelist, cache, bgp, now, disturbed, strayed>>

\* ... reads the expired active rules and the routes they have, ...
CronReadExpired ==
  LET expired == {i \in Used(rtbh) : /\ rtbh[i].rstate = Active
                                     /\ rtbh[i].expires < now}
  IN  /\ call.pc = "whitelists"
      /\ call.wls = {} /\ ~call.stale
      /\ call' = [Idle EXCEPT !.pc = "withdraw", !.ids = expired,
                              !.routes = NetsOf(rtbh, expired)]
      /\ UNCHANGED <<rtbh, whitelist, cache, bgp, now, disturbed, strayed>>

\* ... withdraws these routes one by one, whoever has them by now, ...
CronWithdraw(net) ==
  /\ call.pc = "withdraw"
  /\ net \in call.routes
  /\ bgp' = bgp \ {net}
  /\ call' = [call EXCEPT !.routes = @ \ {net}]
  /\ disturbed' = disturbed \cup
       {rtbh[i].net : i \in {j \in Used(rtbh) : /\ rtbh[j].net = net
                                               /\ rtbh[j].rstate = Active
                                               /\ rtbh[j].expires >= now}}
  /\ UNCHANGED <<rtbh, whitelist, cache, now, strayed>>

\* Mutant: the marks are not committed.
CronMarkLost ==
  /\ call.pc = "withdraw" /\ call.routes = {}
  /\ call.ids \subseteq Used(rtbh)
  /\ call' = [Idle EXCEPT !.pc = "purge"]
  /\ UNCHANGED <<rtbh, whitelist, cache, bgp, now, disturbed, strayed>>

\* ... marks the rules it read, whatever happened to them since, ...
CronMark ==
  /\ call.pc = "withdraw" /\ call.routes = {}
  /\ call.ids \subseteq Used(rtbh)
  /\ rtbh' = [i \in Ids |-> IF i \in call.ids
                            THEN [rtbh[i] EXCEPT !.rstate = Withdrawn]
                            ELSE rtbh[i]]
  /\ call' = [Idle EXCEPT !.pc = "purge"]
  /\ UNCHANGED <<whitelist, cache, bgp, now, disturbed, strayed>>

\* ... or marks none and fails when one was deleted since, ...
CronMarkGone ==
  /\ call.pc = "withdraw" /\ call.routes = {}
  /\ ~ (call.ids \subseteq Used(rtbh))
  /\ call' = Idle
  /\ UNCHANGED <<rtbh, whitelist, cache, bgp, now, disturbed, strayed>>

\* Mutant: active rules are read too.
CronReadOldActive ==
  LET old == {i \in Used(rtbh) : rtbh[i].expires + Retention < now}
  IN  /\ call.pc = "purge"
      /\ call' = [Idle EXCEPT !.pc = "rows", !.ids = old, !.drop = old]
      /\ UNCHANGED <<rtbh, whitelist, cache, bgp, now, disturbed, strayed>>

\* ... reads the ids of what was withdrawn long ago, ...
CronReadOld ==
  LET old == {i \in Used(rtbh) : /\ rtbh[i].rstate = Withdrawn
                                 /\ rtbh[i].expires + Retention < now}
  IN  /\ call.pc = "purge"
      /\ call' = [Idle EXCEPT !.pc = "rows", !.ids = old, !.drop = old]
      /\ UNCHANGED <<rtbh, whitelist, cache, bgp, now, disturbed, strayed>>

\* ... removes every cache row that carries such an id, one id for a commit, ...
CronPurgeRows(i) ==
  /\ call.pc \in {"rows", "flow"} /\ i \in call.ids
  /\ cache' = CacheWithoutRules(cache, {i})
  /\ call' = [call EXCEPT !.ids = @ \ {i}]
  /\ strayed' = strayed \cup {j \in {i} : call.pc = "flow" /\ cache' # cache}
  /\ UNCHANGED <<rtbh, whitelist, bgp, now, disturbed>>

\* ... then the rules, by their ids alone, and goes on with the ids (flow) of
\* old rules in the flowspec tables, which the cache rows are searched for too.
CronPurgeRules(flow) ==
  /\ call.pc = "rows" /\ call.ids = {}
  /\ rtbh' = RulesWithout(rtbh, call.drop)
  /\ call' = [Idle EXCEPT !.pc = "flow", !.ids = flow]
  /\ UNCHANGED <<whitelist, cache, bgp, now>>
  /\ NoteHistory

CronEnd ==
  /\ call.pc = "flow" /\ call.ids = {}
  /\ call' = Idle
  /\ UNCHANGED <<rtbh, whitelist, cache, bgp, now, disturbed, strayed>>

\* Time passes.
Tick ==
  /\ now < MaxNow
  /\ now' = now + 1
  /\ UNCHANGED <<rtbh, whitelist, cache, bgp, call, disturbed, strayed>>

-----------------------------------------------------------------------------

RuleRequest ==
  \/ \E n \in RuleNets, c \in Community, e \in Times : CreateOrUpdateRtbh(n, c, e)
  \/ \E i \in Ids, e \in Times : ReactivateRtbh(i, e)
  \/ \E i \in Ids : DeleteRule(i)
  \/ \E i \in Ids : ApiDeleteRule(i)
  \/ \E ids \in SUBSET Ids : GroupDelete(ids)
  \/ \E ids \in SUBSET Ids : GroupDeleteAborted(ids)
  \/ \E ids \in SUBSET Ids, e \in Times : GroupUpdateSave(ids, e)
  \/ AnnounceAll

WhitelistRequest ==
  \/ \E w \in WhitelistNets, e \in Times : CreateOrUpdateWhitelist(w, e)
  \/ \E i \in Ids, e \in Times : DeleteRtbhAndCreateWhitelist(i, e)
  \/ \E w \in Net : DeleteWhitelist(w)

\* The running call goes on.
CallStep ==
  \/ \E w \in Net : CronReadWhitelist(w)
  \/ \E n \in Net : RestoreRoute(n)
  \/ ClearRows
  \/ RestoredRuleGone
  \/ DropWhitelist
  \/ WhitelistGone
  \/ CronReadExpired
  \/ \E n \in Net : CronWithdraw(n)
  \/ CronMark
  \/ CronMarkGone
  \/ CronReadOld
  \/ \E i \in Ids : CronPurgeRows(i)
  \/ \E flow \in SUBSET FlowIds : CronPurgeRules(flow)
  \/ CronEnd

CallStart == CronStart \/ \E w \in Net : RequestReadWhitelist(w)

Next == RuleRequest \/ WhitelistRequest \/ CallStart \/ CallStep \/ Tick

Spec == Init /\ [][Next]_vars

(***************************************************************************)
(* Cron calls the cleaning endpoint for ever and a call goes on until it   *)
(* ends or fails.  That it is not failed for ever by users who delete,     *)
(* within the same second, one of the rows it is about to write is an      *)
(* assumption: of the calls that have n whitelists left and none missing,  *)
(* some come to the end of the next one in time.                           *)
(***************************************************************************)
WhitelistsLeft(n) == /\ call.pc = "whitelists" /\ ~call.stale
                     /\ Cardinality(call.wls) = n

DropsOneOf(n) == /\ ~call.user /\ ~call.stale /\ Cardinality(call.wls) = n
                 /\ DropWhitelist

Fairness ==
  /\ WF_vars(CallStep)
  /\ SF_vars(CronStart)
  /\ SF_vars(CronMark)
  /\ \A n \in 1 .. Cardinality(Net) : []<>WhitelistsLeft(n) => []<><<DropsOneOf(n)>>_vars

FairSpec == Spec /\ Fairness

-----------------------------------------------------------------------------
(* Properties. *)

TypeOK ==
  /\ rtbh \in [Ids -> Rule \cup {NoRule}]
  /\ whitelist \in [Net -> Times \cup {NoWhitelist}]
  /\ cache \in [Rows -> Nat]
  /\ bgp \subseteq Net
  /\ now \in 0 .. MaxNow
  /\ call \in [pc : {"idle", "whitelists", "restore", "drop", "withdraw", "purge",
                     "rows", "flow"},
               user : BOOLEAN, wls : SUBSET Net, stale : BOOLEAN,
               wl : Net \cup {NoWhitelist},
               ids : SUBSET Ids, drop : SUBSET Ids, routes : SUBSET Net]
  /\ disturbed \subseteq Net /\ strayed \subseteq Ids

\* An active rule whose time has not passed is announced, whatever requests
\* and the call did, unless its prefix was shared with another rule, hit by an
\* aborted group delete, or withdrawn while the call was between its read and
\* its write of the rule: no other handler loses the route.
ActiveIsAnnounced ==
  \A i \in Used(rtbh) :
    (/\ rtbh[i].rstate = Active
     /\ rtbh[i].expires >= now
     /\ rtbh[i].net \notin disturbed) => rtbh[i].net \in bgp

\* Cache rows refer to whitelists that exist; only those a request added
\* while their whitelist was being deleted lose it ...
RowsHaveWhitelist ==
  \A row \in Rows : cache[row] > 0 =>
    IF row[2] = NoWhitelist THEN row[1] \in strayed
    ELSE whitelist[row[2]] # NoWhitelist

\* ... and join a rule to a whitelist it overlaps, a part to the whitelist it
\* avoids: deleting a whitelist reactivates and deletes the right rules even
\* when rules were deleted with their rows left behind.
RowsFitRule ==
  \A row \in Rows :
    cache[row] > 0 /\ rtbh[row[1]] # NoRule /\ row[2] # NoWhitelist =>
      IF row[3] = USER THEN Relation(rtbh[row[1]].net, row[2]) # "DIFFERENT"
      ELSE rtbh[row[1]].net \cap row[2] = {}

CacheSound == RowsHaveWhitelist /\ RowsFitRule

\* Every rule a whitelist created has the row by which deleting the whitelist
\* finds it.  Two things may take it: the purge of a flowspec rule with the
\* same id, and a whitelist deleted while a request extends it.  A part that
\* is being purged loses it before it goes.
PartsAreTracked ==
  \A i \in Used(rtbh) : rtbh[i].origin = WHITELIST =>
    \/ \E w \in Net : cache[<<i, w, WHITELIST>>] > 0
    \/ i \in strayed
    \/ call.pc = "rows" /\ i \in call.drop

\* Whitelists touch only the communities they are configured for.
OnlyAllowedAreWhitelisted ==
  \A i \in Used(rtbh) :
    rtbh[i].rstate = Whitelisted \/ rtbh[i].origin = WHITELIST =>
      rtbh[i].community \in AllowedCommunities

\* Deleting one of two whitelists of a rule, by a user or by the cleaning
\* endpoint, does not put the rule back on the network, unless the other one
\* was stored after the rows were counted.
OtherWhitelistStillHolds ==
  [][\A i \in Used(rtbh) \cap Used(rtbh'), w, v \in Net :
       (/\ rtbh[i].rstate = Whitelisted /\ i \notin strayed
        /\ w # v /\ cache[<<i, w, USER>>] > 0 /\ cache'[<<i, w, USER>>] = 0
        /\ cache'[<<i, v, USER>>] > 0)
       => rtbh'[i].rstate = Whitelisted]_vars

\* When a whitelist appears, no active rule of its communities overlaps it
\* any more, the parts just created included; only a rule that shares its
\* prefix with another one may escape.
NewWhitelistSilencesRules ==
  [][\A w \in {n \in Net : whitelist[n] = NoWhitelist /\ whitelist'[n] # NoWhitelist} :
       \A i \in Used(rtbh') :
         (/\ rtbh'[i].rstate = Active
          /\ rtbh'[i].community \in AllowedCommunities
          /\ Relation(rtbh'[i].net, w) # "DIFFERENT")
         => rtbh'[i].net \in disturbed']_vars

\* When a rule gets whitelisted, every address of it that its whitelists do
\* not name stays in an announced prefix: splitting leaves no gap.
SplitLeavesNoGap ==
  [][\A i \in Used(rtbh') :
       LET named == UNION {w \in Net : cache'[<<i, w, USER>>] > 0}
       IN  (/\ rtbh'[i].rstate = Whitelisted
            /\ ~ (rtbh[i] # NoRule /\ rtbh[i].rstate = Whitelisted))
           => rtbh'[i].net \ named \subseteq UNION bgp']_vars

\* No handler drops an active rule a user made and leaves its route, but for
\* the purge of a rule renewed after its id was read.
DeletedRuleIsWithdrawn ==
  [][\A i \in Used(rtbh) \ Used(rtbh') :
       rtbh[i].rstate = Active /\ rtbh[i].origin = USER
         => \/ rtbh[i].net \notin bgp'
            \/ call.pc = "rows" /\ call'.pc = "flow" /\ i \in strayed]_vars

\* An active rule whose time has passed is withdrawn, extended or deleted in
\* the end, also one that deleting its whitelist has just reactivated.
ExpiredRuleIsWithdrawn ==
  \A i \in Ids :
    LET overdue == /\ rtbh[i] # NoRule /\ rtbh[i].rstate = Active
                   /\ rtbh[i].expires < now
    IN  overdue ~> ~overdue

\* An expired whitelist is deleted or extended in the end.
ExpiredWhitelistIsDeleted ==
  \A w \in Net :
    LET overdue == whitelist[w] # NoWhitelist /\ whitelist[w] < now
    IN  overdue ~> ~overdue

(***************************************************************************)
(* What the documentation, comments or tests say and the code does not do. *)
(***************************************************************************)

\* A rule that gets a future time is active or whitelisted after the request
\* (rule_service.reactivate_rule: "Set again the active state").
NewTimeActivates ==
  [][\A i \in Used(rtbh) \cap Used(rtbh') :
       rtbh'[i].expires # rtbh[i].expires /\ rtbh'[i].expires > now
         => rtbh'[i].rstate # Withdrawn]_vars

\* A whitelisted rule is not announced (whitelist_rtbh_rule: "whitelisted
\* rule, do not announce later").
WhitelistedIsNotAnnounced ==
  \A i \in Used(rtbh) :
    rtbh[i].rstate = Whitelisted /\ rtbh[i].net \notin disturbed =>
      rtbh[i].net \notin bgp

\* The cleaning call withdraws expired rules only.
CleaningSparesUnexpired ==
  [][\A i \in call.ids :
       (/\ call.pc = "withdraw" /\ call'.pc = "purge"
        /\ rtbh[i].rstate = Active) => rtbh[i].expires < now]_vars
=============================================================================
