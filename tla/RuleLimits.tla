----------------------------- MODULE RuleLimits -----------------------------
(***************************************************************************)
(* The limits of active rules, and the twins a form may leave.             *)
(*                                                                         *)
(* A request that creates a rule counts the active rules, then counts its  *)
(* organization's, then looks for an active rule like the one in the form, *)
(* then stores.  Each of these is a query of its own and nothing is locked *)
(* between them: what a worker has read may be stale when it stores.       *)
(* Reactivation and the group update ask the same questions, with the      *)
(* number of the rule type instead of the type.                            *)
(*                                                                         *)
(* The table is that of the IPv4 rules; the IPv6 rules have their own      *)
(* table, limits and handlers of the same form, and the checks never mix   *)
(* the two.  Expiration is abstracted to what it decides here: whether a   *)
(* stored rule is active, and that an active rule may become withdrawn.    *)
(***************************************************************************)
EXTENDS Naturals, FiniteSets

CONSTANTS
  Org,          \* the organizations
  Key,          \* what a rule is looked up by
  Ids,          \* ids of the rule table; how many rules may coexist
  Worker,       \* the processes that serve requests
  GlobalLimit,  \* config FLOWSPEC4_MAX_RULES
  Limits,       \* the limits an organization may be given; 0 is no limit
  NoRule        \* what a free id maps to

ASSUME LimitAssumption ==
  /\ GlobalLimit \in Nat
  /\ 0 \in Limits /\ Limits \subseteq Nat

ASSUME FiniteAssumption ==
  IsFiniteSet(Ids) /\ IsFiniteSet(Worker) /\ Worker # {}

Active == 1
Withdrawn == 2
States == {Active, Withdrawn}

\* checked is history: the rule is active because a create request, having
\* passed both checks and found no rule like it, stored it so.
Rule == [org : Org, key : Key, rstate : States, checked : BOOLEAN]

ASSUME NoRuleAssumption == NoRule \notin Rule

VARIABLES
  rules,   \* table Flowspec4
  limit,   \* column limit_flowspec4 of the organizations
  worker,  \* how far each process is with its request
  peak     \* history: the highest limit an organization had, 0 once it had none

vars == <<rules, limit, worker, peak>>

Idle == [pc |-> "idle"]

\* global: the global check has passed.  org: so has the organization's.
\* looked: no active rule like the form's was found.  group: a group update that
\* sets st has still to treat rest.
Task ==
  {Idle} \cup [pc : {"global"}] \cup [pc : {"org"}, org : Org]
    \cup [pc : {"looked"}, org : Org, key : Key]
    \cup [pc : {"group"}, st : States, rest : SUBSET Ids]

Init ==
  /\ rules = [i \in Ids |-> NoRule]
  /\ limit \in [Org -> Limits]
  /\ worker = [w \in Worker |-> Idle]
  /\ peak = limit

-----------------------------------------------------------------------------

Used == {i \in Ids : rules[i] # NoRule}
ActiveRules == {i \in Used : rules[i].rstate = Active}
ActiveOf(o) == {i \in ActiveRules : rules[i].org = o}

\* What the checks are asked with: create requests pass a member of RuleTypes,
\* reactivation and group update its number, which is equal to no member.
Member == "RuleTypes.IPv4"
Number == "4"

GlobalLimitReached(ruleType) ==
  ruleType = Member /\ Cardinality(ActiveRules) >= GlobalLimit

\* Mutant: one rule more than the limit.
OrgLimitPassed(o, ruleType) ==
  /\ ruleType = Member /\ limit[o] > 0
  /\ \/ Cardinality(ActiveOf(o)) > limit[o]
     \/ Cardinality(ActiveRules) >= GlobalLimit

OrgLimitReached(o, ruleType) ==
  /\ ruleType = Member /\ limit[o] > 0
  /\ \/ Cardinality(ActiveOf(o)) >= limit[o]
     \/ Cardinality(ActiveRules) >= GlobalLimit

\* Mutant: the rules of other organizations are not looked at.
KnownOf(o, key) == {i \in ActiveOf(o) : rules[i].key = key}

\* The rules a form may mean: the active ones, of whatever organization.
Known(o, key) == {i \in ActiveRules : rules[i].key = key}

At(w, pc) == worker[w].pc = pc
Go(w, task) == worker' = [worker EXCEPT ![w] = task]

-----------------------------------------------------------------------------
(* A create request; when a limit is reached it ends. *)

CheckGlobal(w) ==
  /\ At(w, "idle")
  /\ ~GlobalLimitReached(Member)
  /\ Go(w, [pc |-> "global"])
  /\ UNCHANGED <<rules, limit, peak>>

CheckOrg(w, o) ==
  /\ At(w, "global")
  /\ Go(w, IF OrgLimitReached(o, Member) THEN Idle ELSE [pc |-> "org", org |-> o])
  /\ UNCHANGED <<rules, limit, peak>>

\* The request was for the empty form, or the form is not valid.
NotStored(w) ==
  /\ At(w, "org")
  /\ Go(w, Idle)
  /\ UNCHANGED <<rules, limit, peak>>

\* A known rule gets the new time and keeps its state: here nothing changes.
LookUp(w, key) ==
  /\ At(w, "org")
  /\ Go(w, IF Known(worker[w].org, key) # {} THEN Idle
           ELSE [pc |-> "looked", org |-> worker[w].org, key |-> key])
  /\ UNCHANGED <<rules, limit, peak>>

\* Mutant: the state "deleted", which no rule in the table has.
StateDeleted(expired) == IF expired THEN 3 ELSE Active

StateByTime(expired) == IF expired THEN Withdrawn ELSE Active

Store(w, i, expired) ==
  /\ At(w, "looked")
  /\ i \notin Used
  /\ rules' = [rules EXCEPT ![i] = [org |-> worker[w].org, key |-> worker[w].key,
                                    rstate |-> StateByTime(expired),
                                    checked |-> ~expired]]
  /\ Go(w, Idle)
  /\ UNCHANGED <<limit, peak>>

-----------------------------------------------------------------------------
(* Requests that change the state of rules that exist. *)

\* A rule that was active and stays so is still one that passed the checks.
WithState(rule, st) ==
  [rule EXCEPT !.rstate = st,
               !.checked = rule.checked /\ rule.rstate = Active /\ st = Active]

SetState(i, st) == rules' = [rules EXCEPT ![i] = WithState(rules[i], st)]

\* By a user of organization o, who need not be the rule's.
Reactivate(w, i, o, expired) ==
  /\ At(w, "idle") /\ i \in Used
  /\ ~expired => /\ ~GlobalLimitReached(Number)
                 /\ ~OrgLimitReached(o, Number)
  /\ SetState(i, StateByTime(expired))
  /\ UNCHANGED <<limit, worker, peak>>

GroupUpdateSave(w, ids, expired) ==
  /\ At(w, "idle") /\ ids # {} /\ ids \subseteq Used
  /\ Go(w, [pc |-> "group", st |-> StateByTime(expired), rest |-> ids])
  /\ UNCHANGED <<rules, limit, peak>>

\* The rules are treated one by one; the limits are asked for each, and for a
\* rule that was deleted the request fails: it ends where it is.
GroupUpdateNext(w, i, o) ==
  /\ At(w, "group") /\ i \in worker[w].rest \cap Used
  /\ worker[w].st = Active => /\ ~GlobalLimitReached(Number)
                              /\ ~OrgLimitReached(o, Number)
  /\ SetState(i, worker[w].st)
  /\ Go(w, IF worker[w].rest = {i} THEN Idle
           ELSE [worker[w] EXCEPT !.rest = @ \ {i}])
  /\ UNCHANGED <<limit, peak>>

GroupUpdateFails(w) ==
  /\ At(w, "group")
  /\ ~(worker[w].rest \subseteq Used)
  /\ Go(w, Idle)
  /\ UNCHANGED <<rules, limit, peak>>

-----------------------------------------------------------------------------
(* Steps of other requests, each one transaction of this table. *)

\* Single and group deletes, and the cleaning call's last part.
Delete(i) ==
  /\ i \in Used
  /\ rules' = [rules EXCEPT ![i] = NoRule]
  /\ UNCHANGED <<limit, worker, peak>>

\* The cleaning call marks what has expired.
Expire(i) ==
  /\ i \in ActiveRules
  /\ SetState(i, Withdrawn)
  /\ UNCHANGED <<limit, worker, peak>>

\* The administrator changes the limit; the rules there are stay.
EditOrganization(o, l) ==
  /\ limit' = [limit EXCEPT ![o] = l]
  /\ peak' = [peak EXCEPT ![o] = IF l = 0 \/ @ = 0 THEN 0
                                 ELSE IF l > @ THEN l ELSE @]
  /\ UNCHANGED <<rules, worker>>

-----------------------------------------------------------------------------

Create(w) ==
  \/ CheckGlobal(w)
  \/ \E o \in Org : CheckOrg(w, o)
  \/ NotStored(w)
  \/ \E k \in Key : LookUp(w, k)
  \/ \E i \in Ids, expired \in BOOLEAN : Store(w, i, expired)

Change(w) ==
  \/ \E i \in Ids, o \in Org, expired \in BOOLEAN : Reactivate(w, i, o, expired)
  \/ \E ids \in SUBSET Ids, expired \in BOOLEAN : GroupUpdateSave(w, ids, expired)
  \/ \E i \in Ids, o \in Org : GroupUpdateNext(w, i, o)
  \/ GroupUpdateFails(w)

Next ==
  \/ \E w \in Worker : Create(w) \/ Change(w)
  \/ \E i \in Ids : Delete(i) \/ Expire(i)
  \/ \E o \in Org, l \in Limits : EditOrganization(o, l)

Spec == Init /\ [][Next]_vars

-----------------------------------------------------------------------------
(* Properties. *)

\* Tables, requests and history have the form they should.
TypeOK ==
  /\ rules \in [Ids -> Rule \cup {NoRule}]
  /\ limit \in [Org -> Limits]
  /\ worker \in [Worker -> Task]
  /\ peak \in [Org -> Nat]

\* The active rules that create requests stored as such.
CheckedActive == {i \in ActiveRules : rules[i].checked}

\* However the workers meet, create requests exceed an organization's limit by
\* less than the number of workers: each of them may have counted before the
\* others stored (views/rules.py:607, models/utils.py:33).
OrgOverrunBounded ==
  \A o \in Org : peak[o] # 0 =>
    Cardinality(CheckedActive \cap ActiveOf(o)) < peak[o] + Cardinality(Worker)

\* The same of the limit for the whole table.
GlobalOverrunBounded ==
  Cardinality(CheckedActive) < GlobalLimit + Cardinality(Worker)

\* Two requests for one rule may both find none and store two; there are never
\* more such twins than workers, however often the form is sent
\* (rule_service.py:142).
TwinsBounded ==
  \A k \in Key :
    Cardinality({i \in CheckedActive : rules[i].key = k}) <= Cardinality(Worker)

\* A rule that exists is made active only while fewer rules are active than the
\* limit for the table.  Not so: reactivation and group update ask with a number.
ReactivationObeysGlobalLimit ==
  [][\A i \in Used : rules[i].rstate # Active /\ rules'[i] # NoRule
                       /\ rules'[i].rstate = Active
       => Cardinality(ActiveRules) < GlobalLimit]_vars

=============================================================================
