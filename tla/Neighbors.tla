----------------------------- MODULE Neighbors ------------------------------
(***************************************************************************)
(* What the BGP neighbors are told of an RTBH rule.                        *)
(*                                                                         *)
(* A command is made from the rule and from rows the administrator edits:  *)
(* the rule's community decides the neighbors the command is for and the   *)
(* attributes of the route, an AS path may be added.  Nothing is sent when *)
(* these rows change, and a withdraw is made from them as they are by then.*)
(*                                                                         *)
(* Commands go to ExaBGP directly, where a failed post is logged, or       *)
(* through RabbitMQ, where a failed publish ends the request.  Requests    *)
(* run one at a time here and there are no whitelists: FlowspecRoutes has  *)
(* the interleavings and RtbhWhitelist the whitelists.                     *)
(***************************************************************************)
EXTENDS Naturals, FiniteSets

CONSTANTS
  Net,           \* the addresses of rules
  Ids,           \* ids of table RTBH
  CommunityIds,  \* ids of table Community
  Comm,          \* values of the column comm, one of them NoComm
  Rows,          \* rows the administrator may enter in table Community
  NoComm,        \* the empty value: the community has only large or extended ones
  Path,          \* AS paths
  NoPath,        \* no row of ASPath has the prefix
  Neighbor,      \* the neighbors ExaBGP has
  Keyed,         \* config MULTI_NEIGHBOR: the values of comm that have an entry,
  NeighborsOf,   \*   the neighbors of each,
  Primary,       \*   and those of the others
  NoRule, NoCommunity, NoRoute

ASSUME IdsAssumption == IsFiniteSet(Ids)

ASSUME ConfigAssumption ==
  /\ NoComm \in Comm /\ Keyed \subseteq Comm \ {NoComm}
  /\ NeighborsOf \in [Keyed -> SUBSET Neighbor] /\ Primary \subseteq Neighbor

Active == 1
Withdrawn == 2

Community == [comm : Comm, as_path : BOOLEAN]

ASSUME RowsAssumption == Rows \subseteq Community

Rule == [net : Net, community : CommunityIds, rstate : {Active, Withdrawn},
         expired : BOOLEAN]
Attributes == [comm : Comm, path : Path \cup {NoPath}]

ASSUME NoneAssumption ==
  /\ NoRule \notin Rule /\ NoCommunity \notin Community /\ NoRoute \notin Attributes
  /\ NoPath \notin Path

VARIABLES
  rules,        \* table RTBH; expired: the time is past
  communities,  \* table Community
  as_path,      \* table ASPath, of each prefix
  exa_api,      \* config EXA_API, which never changes
  table,        \* what each neighbor is told: a route with attributes, or none
  up,           \* ExaBGP runs
  guarda,       \* ExaBGP was started and announce_all was not called yet
  loose         \* history: nets whose routes may differ from the database since
                \* ExaBGP was started

vars == <<rules, communities, as_path, exa_api, table, up, guarda, loose>>

Init ==
  /\ rules = [i \in Ids |-> NoRule]
  /\ communities \in [CommunityIds -> Rows \cup {NoCommunity}]
  /\ as_path = [x \in Net |-> NoPath]
  /\ exa_api \in {"HTTP", "RABBIT"}
  /\ table = [n \in Neighbor |-> [x \in Net |-> NoRoute]]
  /\ up = TRUE /\ guarda = FALSE
  /\ loose = {}

-----------------------------------------------------------------------------
(* Commands. *)

Used == {i \in Ids : rules[i] # NoRule}
Saved == {c \in CommunityIds : communities[c] # NoCommunity}
ActiveRules == {i \in Used : rules[i].rstate = Active}

\* The neighbors a command for the rule names; one that names none is for all.
Targets(rule) ==
  LET comm == communities[rule.community].comm
  IN  IF comm = NoComm THEN Neighbor
      ELSE IF comm \in Keyed THEN NeighborsOf[comm] ELSE Primary

AttributesOf(rule) ==
  [comm |-> communities[rule.community].comm,
   path |-> IF communities[rule.community].as_path THEN as_path[rule.net] ELSE NoPath]

\* Commands are lost while ExaBGP is down, but wait in RabbitMQ's queue.
Delivered == up \/ exa_api = "RABBIT"

\* Commands are sent one after the other; of two routes of one net a neighbor
\* keeps the last, and the order is the query's.
Announce(ids) ==
  \E rank \in [ids -> 1 .. Cardinality(ids)] :
    /\ \A i, j \in ids : rank[i] = rank[j] => i = j
    /\ table' = [n \in Neighbor |-> [x \in Net |->
         LET told == {i \in ids : rules'[i].net = x /\ n \in Targets(rules'[i])}
         IN  IF ~Delivered \/ told = {} THEN table[n][x]
             ELSE AttributesOf(rules'[CHOOSE i \in told :
                                        \A j \in told : rank[j] <= rank[i]])]]

\* Mutant: withdraws go to the primary neighbors.
WithdrawFromPrimary(ids) ==
  table' = [n \in Neighbor |-> [x \in Net |->
    IF Delivered /\ n \in Primary /\ \E i \in ids : rules[i].net = x
    THEN NoRoute ELSE table[n][x]]]

Withdraw(ids) ==
  table' = [n \in Neighbor |-> [x \in Net |->
    IF Delivered /\ \E i \in ids : rules[i].net = x /\ n \in Targets(rules[i])
    THEN NoRoute ELSE table[n][x]]]

\* The rules whose commands are sent, of those a request wants to send: all of
\* them, or those before a publish failed.
Sent(ids) == IF exa_api = "RABBIT" THEN SUBSET ids ELSE {ids}

NetsOf(ids) == {rules[i].net : i \in ids}

\* Nets of which there are two rules: what is sent for one concerns the other.
Shared(rs) ==
  {x \in Net : \E i, j \in Ids : /\ i # j /\ rs[i] # NoRule /\ rs[j] # NoRule
                                 /\ rs[i].net = x /\ rs[j].net = x}

Loosen(nets) == loose' = loose \cup nets \cup Shared(rules')

-----------------------------------------------------------------------------
(* Requests for rules. *)

\* Mutant: the state "deleted", which no rule in the table has.
StateDeleted(past) == IF past THEN 3 ELSE Active

StateByTime(past) == IF past THEN Withdrawn ELSE Active

Known(x, c) == {i \in Used : rules[i].net = x /\ rules[i].community = c}

\* A rule like the form's is found in whatever state, and gets the new time and
\* state; only when it is active now is anything sent.
CreateOrUpdateRtbh(i, x, c, past, sent) ==
  /\ c \in Saved
  /\ IF Known(x, c) = {} THEN i \notin Used ELSE i \in Known(x, c)
  /\ rules' = [rules EXCEPT ![i] = [net |-> x, community |-> c, expired |-> past,
                                    rstate |-> StateByTime(past)]]
  /\ past => sent = {}
  /\ ~past => sent \in Sent({i})
  /\ Announce(sent)
  /\ Loosen(IF sent = {} /\ (i \in ActiveRules \/ ~past) THEN {x} ELSE {})
  /\ UNCHANGED <<communities, as_path, exa_api, up, guarda>>

\* Reactivation stores the time and sends a command; it keeps the state.
Reactivate(i, past, sent) ==
  /\ i \in Used /\ sent \in Sent({i})
  /\ rules' = [rules EXCEPT ![i].expired = past]
  /\ IF rules[i].rstate = Active THEN Announce(sent) ELSE Withdraw(sent)
  /\ Loosen(IF sent = {} THEN NetsOf({i}) ELSE {})
  /\ UNCHANGED <<communities, as_path, exa_api, up, guarda>>

\* Each rule of a group update gets the state of its time, too.
GroupUpdateSave(i, past, sent) ==
  /\ i \in Used /\ sent \in Sent({i})
  /\ rules' = [rules EXCEPT ![i].rstate = StateByTime(past), ![i].expired = past]
  /\ IF past THEN Withdraw(sent) ELSE Announce(sent)
  /\ Loosen(IF sent = {} THEN NetsOf({i}) ELSE {})
  /\ UNCHANGED <<communities, as_path, exa_api, up, guarda>>

\* Mutant: the rules are deleted before the commands are sent.
DeleteFirst(ids, sent) ==
  /\ ids # {} /\ ids \subseteq Used /\ sent \in Sent(ids)
  /\ rules' = [i \in Ids |-> IF i \in ids THEN NoRule ELSE rules[i]]
  /\ Withdraw(sent)
  /\ Loosen(IF sent = ids THEN {} ELSE NetsOf(ids))
  /\ UNCHANGED <<communities, as_path, exa_api, up, guarda>>

\* Delete, group delete and delete through the API: withdraws first.
Delete(ids, sent) ==
  /\ ids # {} /\ ids \subseteq Used /\ sent \in Sent(ids)
  /\ rules' = IF sent = ids THEN [i \in Ids |-> IF i \in ids THEN NoRule ELSE rules[i]]
              ELSE rules
  /\ Withdraw(sent)
  /\ Loosen(IF sent = ids THEN {} ELSE NetsOf(sent))
  /\ UNCHANGED <<communities, as_path, exa_api, up, guarda>>

\* The cleaning call withdraws what has expired and then marks it.
WithdrawExpired(sent) ==
  LET expired == {i \in ActiveRules : rules[i].expired}
  IN  /\ sent \in Sent(expired)
      /\ rules' = IF sent = expired
                  THEN [i \in Ids |-> IF i \in expired
                                      THEN [rules[i] EXCEPT !.rstate = Withdrawn]
                                      ELSE rules[i]]
                  ELSE rules
      /\ Withdraw(sent)
      /\ Loosen({})
      /\ UNCHANGED <<communities, as_path, exa_api, up, guarda>>

\* Rules withdrawn long ago are deleted without a command.
DeleteExpired(ids) ==
  /\ ids # {} /\ \A i \in ids : i \in Used /\ rules[i].rstate = Withdrawn
  /\ rules' = [i \in Ids |-> IF i \in ids THEN NoRule ELSE rules[i]]
  /\ UNCHANGED <<communities, as_path, exa_api, table, up, guarda, loose>>

AnnounceAll(sent) ==
  LET valid == {i \in ActiveRules : ~rules[i].expired}
  IN  /\ guarda /\ guarda' = FALSE
      /\ sent \in Sent(valid)
      /\ UNCHANGED rules
      /\ Announce(sent)
      /\ Loosen(NetsOf(valid \ sent))
      /\ UNCHANGED <<communities, as_path, exa_api, up>>

-----------------------------------------------------------------------------
(* The administrator's rows. *)

AddCommunity(c, row) ==
  /\ c \notin Saved
  /\ communities' = [communities EXCEPT ![c] = row]
  /\ UNCHANGED <<rules, as_path, exa_api, table, up, guarda, loose>>

EditCommunity(c, row) ==
  /\ c \in Saved /\ row # communities[c]
  /\ communities' = [communities EXCEPT ![c] = row]
  /\ loose' = loose \cup NetsOf({i \in ActiveRules : rules[i].community = c})
  /\ UNCHANGED <<rules, as_path, exa_api, table, up, guarda>>

\* Mutant: whether rules have the community is not looked at.
DeleteUsedCommunity(c) ==
  /\ c \in Saved
  /\ communities' = [communities EXCEPT ![c] = NoCommunity]
  /\ UNCHANGED <<rules, as_path, exa_api, table, up, guarda, loose>>

\* The commit fails while a rule, in whatever state, has the community.
DeleteCommunity(c) ==
  /\ c \in Saved /\ \A i \in Used : rules[i].community # c
  /\ communities' = [communities EXCEPT ![c] = NoCommunity]
  /\ UNCHANGED <<rules, as_path, exa_api, table, up, guarda, loose>>

\* A row of ASPath is added, edited or deleted.
ChangeAsPath(x, path) ==
  /\ path # as_path[x]
  /\ as_path' = [as_path EXCEPT ![x] = path]
  /\ loose' = loose \cup (NetsOf({i \in ActiveRules :
                                    communities[rules[i].community].as_path}) \cap {x})
  /\ UNCHANGED <<rules, communities, exa_api, table, up, guarda>>

-----------------------------------------------------------------------------
(* Time and ExaBGP. *)

Expire(i) ==
  /\ i \in ActiveRules /\ ~rules[i].expired
  /\ rules' = [rules EXCEPT ![i].expired = TRUE]
  /\ UNCHANGED <<communities, as_path, exa_api, table, up, guarda, loose>>

Crash ==
  /\ up /\ up' = FALSE /\ guarda' = FALSE
  /\ table' = [n \in Neighbor |-> [x \in Net |-> NoRoute]]
  /\ UNCHANGED <<rules, communities, as_path, exa_api, loose>>

\* ExaBGP starts with no routes; only commands of the queue may have come.
Restart ==
  /\ ~up /\ up' = TRUE /\ guarda' = TRUE
  /\ loose' = IF exa_api = "HTTP" THEN Shared(rules) ELSE loose
  /\ UNCHANGED <<rules, communities, as_path, exa_api, table>>

-----------------------------------------------------------------------------

Request ==
  \/ \E i \in Ids, x \in Net, c \in CommunityIds, past \in BOOLEAN, sent \in SUBSET Ids :
       CreateOrUpdateRtbh(i, x, c, past, sent)
  \/ \E i \in Ids, past \in BOOLEAN, sent \in SUBSET Ids : Reactivate(i, past, sent)
  \/ \E i \in Ids, past \in BOOLEAN, sent \in SUBSET Ids : GroupUpdateSave(i, past, sent)
  \/ \E ids, sent \in SUBSET Ids : Delete(ids, sent)
  \/ \E sent \in SUBSET Ids : WithdrawExpired(sent) \/ AnnounceAll(sent)
  \/ \E ids \in SUBSET Ids : DeleteExpired(ids)

Administer ==
  \/ \E c \in CommunityIds, row \in Rows : AddCommunity(c, row) \/ EditCommunity(c, row)
  \/ \E c \in CommunityIds : DeleteCommunity(c)
  \/ \E x \in Net, path \in Path \cup {NoPath} : ChangeAsPath(x, path)

Next ==
  \/ Request
  \/ Administer
  \/ \E i \in Ids : Expire(i)
  \/ Crash
  \/ Restart

Spec == Init /\ [][Next]_vars

-----------------------------------------------------------------------------
(* Properties. *)

\* Tables, routes and history have the form they should.
TypeOK ==
  /\ rules \in [Ids -> Rule \cup {NoRule}]
  /\ communities \in [CommunityIds -> Rows \cup {NoCommunity}]
  /\ as_path \in [Net -> Path \cup {NoPath}]
  /\ exa_api \in {"HTTP", "RABBIT"}
  /\ table \in [Neighbor -> [Net -> Attributes \cup {NoRoute}]]
  /\ up \in BOOLEAN /\ guarda \in BOOLEAN
  /\ loose \subseteq Net

\* The rules that decide what neighbor n is told of x.
Deciding(n, x) == {i \in ActiveRules : rules[i].net = x /\ n \in Targets(rules[i])}

\* No neighbor keeps a route, or its old attributes, that the database does not
\* have, and none misses one: except of nets whose community or AS path was
\* edited under an active rule, that two rules have, whose rule was saved with a
\* past time, or whose command RabbitMQ did not take (messages.py:93,
\* rule_service.py:297, output.py:87).
NeighborsKnowTheRules ==
  up /\ ~guarda =>
    \A n \in Neighbor, x \in Net \ loose :
      /\ Deciding(n, x) = {} => table[n][x] = NoRoute
      /\ \A i \in Deciding(n, x) : \/ table[n][x] = AttributesOf(rules[i])
                                   \/ rules[i].expired

\* A rule has its community, so that a command can be made (admin.py:640).
RulesHaveCommunity == \A i \in Used : rules[i].community \in Saved

\* A rule is deleted only when no neighbor its community names keeps its route;
\* with RabbitMQ, when the commands were taken (rule_service.py:417).
DeletedIsWithdrawn ==
  [][\A i \in Used : rules'[i] = NoRule /\ rules[i].net \notin loose
       => \A n \in Targets(rules[i]) : table'[n][rules[i].net] = NoRoute]_vars

=============================================================================
