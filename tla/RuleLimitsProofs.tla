-------------------------- MODULE RuleLimitsProofs --------------------------
(***************************************************************************)
(* How far create requests can exceed the limits, for every number of      *)
(* workers, organizations, rules and limits.                               *)
(*                                                                         *)
(* A bound on the stored rules is not inductive: what counts is who may    *)
(* still store.  The inductive invariant adds the workers that have passed *)
(* a check to the rules stored after it; when a check passes, the rules    *)
(* are below the limit and the workers are at most all of them; a store    *)
(* makes one rule more and one worker less.                                *)
(***************************************************************************)
EXTENDS RuleLimits, FiniteSetTheorems, TLAPS

CheckedOf(o) == {i \in CheckedActive : rules[i].org = o}
CheckedLike(k) == {i \in CheckedActive : rules[i].key = k}

Passed == {w \in Worker : worker[w].pc \in {"global", "org", "looked"}}
PassedOrg(o) == {w \in Worker : worker[w].pc \in {"org", "looked"} /\ worker[w].org = o}
Looked(k) == {w \in Worker : worker[w].pc = "looked" /\ worker[w].key = k}

PeakInv == \A o \in Org : peak[o] # 0 => limit[o] > 0 /\ limit[o] <= peak[o]

OrgInv ==
  \A o \in Org : peak[o] # 0 =>
    Cardinality(CheckedOf(o)) + Cardinality(PassedOrg(o)) < peak[o] + Cardinality(Worker)

GlobalInv ==
  Cardinality(CheckedActive) + Cardinality(Passed) < GlobalLimit + Cardinality(Worker)

KeyInv ==
  \A k \in Key : Cardinality(CheckedLike(k)) + Cardinality(Looked(k)) <= Cardinality(Worker)

IInv == TypeOK /\ PeakInv /\ OrgInv /\ GlobalInv /\ KeyInv

-----------------------------------------------------------------------------
(* Types. *)

LEMMA TaskTypes ==
  /\ Idle \in Task
  /\ [pc |-> "global"] \in Task
  /\ \A o \in Org : [pc |-> "org", org |-> o] \in Task
  /\ \A o \in Org, k \in Key : [pc |-> "looked", org |-> o, key |-> k] \in Task
  /\ \A st \in States, ids \in SUBSET Ids :
       [pc |-> "group", st |-> st, rest |-> ids] \in Task
BY DEF Task

LEMMA TaskFields ==
  ASSUME NEW t \in Task
  PROVE  /\ t.pc \in {"idle", "global", "org", "looked", "group"}
         /\ t.pc \in {"org", "looked"} => t.org \in Org
         /\ t.pc = "looked" => t.key \in Key
         /\ t.pc = "group" => /\ t.st \in States /\ t.rest \in SUBSET Ids
                              /\ t = [pc |-> "group", st |-> t.st, rest |-> t.rest]
BY DEF Task, Idle

LEMMA StateType ==
  ASSUME NEW expired \in BOOLEAN
  PROVE  StateByTime(expired) \in States
BY DEF StateByTime, States

LEMMA UsedIsRule ==
  ASSUME TypeOK, NEW i \in Used
  PROVE  i \in Ids /\ rules[i] \in Rule
BY DEF TypeOK, Used

LEMMA SetStateType ==
  ASSUME TypeOK, NEW i \in Used, NEW st \in States, SetState(i, st)
  PROVE  rules' \in [Ids -> Rule \cup {NoRule}]
<1>1. i \in Ids /\ rules[i] \in Rule
  BY UsedIsRule
<1>2. WithState(rules[i], st) \in Rule
  BY <1>1 DEF Rule, WithState
<1> QED BY <1>1, <1>2 DEF TypeOK, SetState

-----------------------------------------------------------------------------
(* Cardinalities. *)

LEMMA FiniteParts ==
  /\ \A S \in SUBSET Ids : IsFiniteSet(S) /\ Cardinality(S) \in Nat
  /\ \A S \in SUBSET Worker : /\ IsFiniteSet(S) /\ Cardinality(S) \in Nat
                              /\ Cardinality(S) <= Cardinality(Worker)
  /\ Cardinality(Worker) \in Nat /\ Cardinality(Worker) > 0
<1>1. ASSUME NEW T, IsFiniteSet(T), NEW S \in SUBSET T
      PROVE  IsFiniteSet(S) /\ Cardinality(S) \in Nat /\ Cardinality(S) <= Cardinality(T)
  BY <1>1, FS_Subset, FS_CardinalityType
<1>2. Cardinality(Worker) \in Nat /\ Cardinality(Worker) # 0
  BY FiniteAssumption, FS_CardinalityType, FS_EmptySet
<1> QED BY <1>1, <1>2, FiniteAssumption

LEMMA Smaller ==
  ASSUME NEW R \in SUBSET Ids, NEW S \in SUBSET R,
         NEW V \in SUBSET Worker, NEW W \in SUBSET V
  PROVE  Cardinality(S) + Cardinality(W) <= Cardinality(R) + Cardinality(V)
<1>1. Cardinality(S) <= Cardinality(R) /\ Cardinality(W) <= Cardinality(V)
  BY FiniteParts, FS_Subset
<1> QED BY <1>1, FiniteParts

\* One rule more, one worker less.
LEMMA Exchanged ==
  ASSUME NEW S \in SUBSET Ids, NEW i \in Ids,
         NEW V \in SUBSET Worker, NEW w \in V
  PROVE  Cardinality(S \cup {i}) + Cardinality(V \ {w}) <= Cardinality(S) + Cardinality(V)
<1>1. Cardinality(S \cup {i}) <= Cardinality(S) + 1
  BY FiniteParts, FS_AddElement
<1>2. Cardinality(V \ {w}) = Cardinality(V) - 1
  BY FiniteParts, FS_RemoveElement
<1> QED BY <1>1, <1>2, FiniteParts

-----------------------------------------------------------------------------
(* Type correctness. *)

LEMMA CreateType ==
  ASSUME TypeOK, NEW w \in Worker, Create(w)
  PROVE  TypeOK'
<1> USE TaskTypes DEF TypeOK, Go
<1>t. worker[w] \in Task
  OBVIOUS
<1>1. CASE CheckGlobal(w)
  BY <1>1 DEF CheckGlobal
<1>2. ASSUME NEW o \in Org, CheckOrg(w, o)
      PROVE  TypeOK'
  BY <1>2 DEF CheckOrg
<1>3. CASE NotStored(w)
  BY <1>3 DEF NotStored
<1>4. ASSUME NEW k \in Key, LookUp(w, k)
      PROVE  TypeOK'
  <2>1. worker[w].org \in Org
    BY <1>4, <1>t, TaskFields DEF LookUp, At
  <2> QED BY <1>4, <2>1 DEF LookUp
<1>5. ASSUME NEW i \in Ids, NEW expired \in BOOLEAN, Store(w, i, expired)
      PROVE  TypeOK'
  <2>1. worker[w].org \in Org /\ worker[w].key \in Key
    BY <1>5, <1>t, TaskFields DEF Store, At
  <2>2. [org |-> worker[w].org, key |-> worker[w].key,
         rstate |-> StateByTime(expired), checked |-> ~expired] \in Rule
    BY <2>1, StateType DEF Rule
  <2> QED BY <1>5, <2>2 DEF Store
<1> QED BY <1>1, <1>2, <1>3, <1>4, <1>5 DEF Create

LEMMA ChangeType ==
  ASSUME TypeOK, NEW w \in Worker, Change(w)
  PROVE  TypeOK'
<1> USE TaskTypes DEF Go
<1>t. worker[w] \in Task /\ worker \in [Worker -> Task]
  BY DEF TypeOK
<1>1. ASSUME NEW i \in Ids, NEW o \in Org, NEW expired \in BOOLEAN,
             Reactivate(w, i, o, expired)
      PROVE  TypeOK'
  BY <1>1, SetStateType, StateType DEF Reactivate, TypeOK
<1>2. ASSUME NEW ids \in SUBSET Ids, NEW expired \in BOOLEAN,
             GroupUpdateSave(w, ids, expired)
      PROVE  TypeOK'
  BY <1>2, StateType DEF GroupUpdateSave, TypeOK
<1>3. ASSUME NEW i \in Ids, NEW o \in Org, GroupUpdateNext(w, i, o)
      PROVE  TypeOK'
  <2>1. i \in Used /\ worker[w].st \in States
    BY <1>3, <1>t, TaskFields DEF GroupUpdateNext, At
  <2>2. PICK st \in States, ids \in SUBSET Ids :
          worker[w] = [pc |-> "group", st |-> st, rest |-> ids]
    BY <1>3, <1>t, TaskFields DEF GroupUpdateNext, At
  <2>3. [worker[w] EXCEPT !.rest = @ \ {i}] \in Task
    BY <2>2
  <2>4. worker' \in [Worker -> Task]
    BY <1>3, <1>t, <2>3 DEF GroupUpdateNext
  <2>5. rules' \in [Ids -> Rule \cup {NoRule}]
    BY <1>3, <2>1, SetStateType DEF GroupUpdateNext
  <2> QED BY <1>3, <2>4, <2>5 DEF GroupUpdateNext, TypeOK
<1>4. CASE GroupUpdateFails(w)
  BY <1>4 DEF GroupUpdateFails, TypeOK
<1> QED BY <1>1, <1>2, <1>3, <1>4 DEF Change

LEMMA NextType ==
  ASSUME TypeOK, [Next]_vars
  PROVE  TypeOK'
<1>1. ASSUME NEW i \in Ids, Delete(i)
      PROVE  TypeOK'
  BY <1>1 DEF Delete, TypeOK
<1>2. ASSUME NEW i \in Ids, Expire(i)
      PROVE  TypeOK'
  BY <1>2, SetStateType DEF Expire, TypeOK, ActiveRules, States
<1>3. ASSUME NEW o \in Org, NEW l \in Limits, EditOrganization(o, l)
      PROVE  TypeOK'
  BY <1>3, LimitAssumption DEF EditOrganization, TypeOK
<1>4. CASE UNCHANGED vars
  BY <1>4 DEF vars, TypeOK
<1> QED BY <1>1, <1>2, <1>3, <1>4, CreateType, ChangeType DEF Next

LEMMA InitType == Init => TypeOK
BY TaskTypes, LimitAssumption DEF Init, TypeOK

\* Every reachable state is well formed.
THEOREM TypeCorrect == Spec => []TypeOK
BY InitType, NextType, PTL DEF Spec

-----------------------------------------------------------------------------
(* What a step does to the sets that are counted. *)

\* Rules leave the checked ones, and keep organization and key.
RulesShrink ==
  \A i \in CheckedActive' : /\ i \in CheckedActive
                            /\ rules'[i].org = rules[i].org
                            /\ rules'[i].key = rules[i].key

\* Workers stay where they are or leave the create requests.
WorkersShrink ==
  \A w \in Worker : worker'[w] = worker[w] \/ worker'[w].pc \in {"idle", "group"}

\* The promise of an organization's limit only becomes weaker.
PeaksGrow == \A o \in Org : peak'[o] # 0 => peak[o] # 0 /\ peak[o] <= peak'[o]

LEMMA SetStateShrinks ==
  ASSUME TypeOK, NEW i \in Used, NEW st \in States, SetState(i, st)
  PROVE  RulesShrink
<1>1. i \in Ids /\ rules[i] \in Rule
  BY UsedIsRule
<1>2. /\ WithState(rules[i], st).org = rules[i].org
      /\ WithState(rules[i], st).key = rules[i].key
      /\ WithState(rules[i], st).rstate = st
      /\ WithState(rules[i], st).checked
           => rules[i].checked /\ rules[i].rstate = Active
  BY <1>1 DEF WithState, Rule
<1>3. /\ rules'[i] = WithState(rules[i], st)
      /\ \A j \in Ids \ {i} : rules'[j] = rules[j]
  BY <1>1 DEF SetState, TypeOK
<1>4. SUFFICES ASSUME NEW j \in CheckedActive'
               PROVE  /\ j \in CheckedActive
                      /\ rules'[j].org = rules[j].org /\ rules'[j].key = rules[j].key
  BY DEF RulesShrink
<1>5. j \in Ids /\ rules'[j] # NoRule /\ rules'[j].rstate = Active /\ rules'[j].checked
  BY DEF CheckedActive, ActiveRules, Used
<1>6. CASE j = i
  BY <1>1, <1>2, <1>3, <1>5, <1>6, NoRuleAssumption DEF CheckedActive, ActiveRules, Used
<1>7. CASE j # i
  BY <1>3, <1>5, <1>7 DEF CheckedActive, ActiveRules, Used
<1> QED BY <1>6, <1>7

LEMMA SameRules ==
  ASSUME UNCHANGED rules
  PROVE  RulesShrink
BY DEF RulesShrink, CheckedActive, ActiveRules, Used

\* A step is one of the four that advance a create request, or shrinks all.
LEMMA StepKinds ==
  ASSUME TypeOK, PeakInv, [Next]_vars
  PROVE  \/ \E w \in Worker : CheckGlobal(w)
         \/ \E w \in Worker, o \in Org : CheckOrg(w, o)
         \/ \E w \in Worker, k \in Key : LookUp(w, k)
         \/ \E w \in Worker, i \in Ids : Store(w, i, FALSE)
         \/ RulesShrink /\ WorkersShrink /\ PeaksGrow
<1>g. \A w \in Worker : worker[w] \in Task
  BY DEF TypeOK
<1>p. UNCHANGED peak => PeaksGrow
  BY DEF PeaksGrow, TypeOK
<1>w. ASSUME NEW w \in Worker, NEW t, t.pc \in {"idle", "group"}, Go(w, t)
      PROVE  WorkersShrink
  BY <1>w DEF WorkersShrink, Go, TypeOK
<1>s. UNCHANGED worker => WorkersShrink
  BY DEF WorkersShrink
<1>i. Idle.pc = "idle"
  BY DEF Idle
<1>1. ASSUME NEW w \in Worker, NotStored(w)
      PROVE  RulesShrink /\ WorkersShrink /\ PeaksGrow
  BY <1>1, <1>p, <1>w, <1>i, SameRules DEF NotStored
<1>2. ASSUME NEW w \in Worker, NEW i \in Ids, Store(w, i, TRUE)
      PROVE  RulesShrink /\ WorkersShrink /\ PeaksGrow
  <2>1. rules'[i].rstate = Withdrawn /\ \A j \in Ids \ {i} : rules'[j] = rules[j]
    BY <1>2 DEF Store, StateByTime, TypeOK
  <2>2. i \notin CheckedActive'
    BY <2>1 DEF CheckedActive, ActiveRules, Active, Withdrawn
  <2>3. RulesShrink
    BY <2>1, <2>2 DEF RulesShrink, CheckedActive, ActiveRules, Used
  <2> QED BY <1>2, <2>3, <1>p, <1>w, <1>i DEF Store
<1>3. ASSUME NEW w \in Worker, NEW i \in Ids, NEW o \in Org, NEW expired \in BOOLEAN,
             Reactivate(w, i, o, expired)
      PROVE  RulesShrink /\ WorkersShrink /\ PeaksGrow
  BY <1>3, <1>p, <1>s, StateType, SetStateShrinks DEF Reactivate
<1>4. ASSUME NEW w \in Worker, NEW ids \in SUBSET Ids, NEW expired \in BOOLEAN,
             GroupUpdateSave(w, ids, expired)
      PROVE  RulesShrink /\ WorkersShrink /\ PeaksGrow
  BY <1>4, <1>p, <1>w, SameRules DEF GroupUpdateSave
<1>5. ASSUME NEW w \in Worker, NEW i \in Ids, NEW o \in Org, GroupUpdateNext(w, i, o)
      PROVE  RulesShrink /\ WorkersShrink /\ PeaksGrow
  <2>1. worker[w].st \in States /\ i \in Used
    BY <1>5, <1>g, TaskFields DEF GroupUpdateNext, At
  <2>2. RulesShrink
    BY <1>5, <2>1, SetStateShrinks DEF GroupUpdateNext
  <2>3. PICK st \in States, ids \in SUBSET Ids :
          worker[w] = [pc |-> "group", st |-> st, rest |-> ids]
    BY <1>5, <1>g, TaskFields DEF GroupUpdateNext, At
  <2>4. [worker[w] EXCEPT !.rest = @ \ {i}].pc = "group"
    BY <2>3
  <2>5. WorkersShrink
    <3>1. CASE worker[w].rest = {i}
      BY <1>5, <3>1, <1>w, <1>i DEF GroupUpdateNext
    <3>2. CASE worker[w].rest # {i}
      <4> DEFINE t == [worker[w] EXCEPT !.rest = @ \ {i}]
      <4>1. Go(w, t) /\ t.pc \in {"idle", "group"}
        BY <1>5, <2>4, <3>2 DEF GroupUpdateNext
      <4> HIDE DEF t
      <4> QED BY <4>1, <1>w
    <3> QED BY <3>1, <3>2
  <2> QED BY <1>5, <2>2, <2>5, <1>p DEF GroupUpdateNext
<1>6. ASSUME NEW w \in Worker, GroupUpdateFails(w)
      PROVE  RulesShrink /\ WorkersShrink /\ PeaksGrow
  BY <1>6, <1>p, <1>w, <1>i, SameRules DEF GroupUpdateFails
<1>7. ASSUME NEW i \in Ids, Delete(i)
      PROVE  RulesShrink /\ WorkersShrink /\ PeaksGrow
  <2>1. rules'[i] = NoRule /\ \A j \in Ids \ {i} : rules'[j] = rules[j]
    BY <1>7 DEF Delete, TypeOK
  <2>2. RulesShrink
    BY <2>1 DEF RulesShrink, CheckedActive, ActiveRules, Used
  <2> QED BY <1>7, <2>2, <1>p, <1>s DEF Delete
<1>8. ASSUME NEW i \in Ids, Expire(i)
      PROVE  RulesShrink /\ WorkersShrink /\ PeaksGrow
  BY <1>8, <1>p, <1>s, SetStateShrinks DEF Expire, ActiveRules, States
<1>9. ASSUME NEW o \in Org, NEW l \in Limits, EditOrganization(o, l)
      PROVE  RulesShrink /\ WorkersShrink /\ PeaksGrow
  <2>1. l \in Nat
    BY LimitAssumption
  <2>2. PeaksGrow
    BY <1>9, <2>1 DEF EditOrganization, PeaksGrow, TypeOK
  <2> QED BY <1>9, <2>2, <1>s, SameRules DEF EditOrganization
<1>10. CASE UNCHANGED vars
  BY <1>10, <1>p, <1>s, SameRules DEF vars
<1>11. \A w \in Worker, i \in Ids, expired \in BOOLEAN :
         Store(w, i, expired) => Store(w, i, TRUE) \/ Store(w, i, FALSE)
  OBVIOUS
<1> QED BY <1>1, <1>2, <1>3, <1>4, <1>5, <1>6, <1>7, <1>8, <1>9, <1>10, <1>11
        DEF Next, Create, Change

-----------------------------------------------------------------------------
(* The invariants are inductive. *)

LEMMA CountedSets ==
  /\ CheckedActive \in SUBSET Ids /\ CheckedActive' \in SUBSET Ids
  /\ Passed \in SUBSET Worker /\ Passed' \in SUBSET Worker
  /\ \A o \in Org : /\ CheckedOf(o) \in SUBSET Ids /\ CheckedOf(o)' \in SUBSET Ids
                   /\ PassedOrg(o) \in SUBSET Worker /\ PassedOrg(o)' \in SUBSET Worker
                   /\ ActiveOf(o) \in SUBSET Ids /\ CheckedOf(o) \subseteq ActiveOf(o)
  /\ \A k \in Key : /\ CheckedLike(k) \in SUBSET Ids /\ CheckedLike(k)' \in SUBSET Ids
                   /\ Looked(k) \in SUBSET Worker /\ Looked(k)' \in SUBSET Worker
  /\ ActiveRules \in SUBSET Ids /\ CheckedActive \subseteq ActiveRules
BY DEF CheckedActive, ActiveRules, ActiveOf, Used, Passed, CheckedOf, PassedOrg,
       CheckedLike, Looked

LEMMA SameCounted ==
  ASSUME UNCHANGED rules
  PROVE  /\ CheckedActive' = CheckedActive
         /\ \A o \in Org : CheckedOf(o)' = CheckedOf(o)
         /\ \A k \in Key : CheckedLike(k)' = CheckedLike(k)
BY DEF CheckedActive, ActiveRules, Used, CheckedOf, CheckedLike

\* A worker is idle after a store, and what it stored is new.
LEMMA StoreCounts ==
  ASSUME TypeOK, NEW w \in Worker, NEW i \in Ids, Store(w, i, FALSE)
  PROVE  /\ worker[w].pc = "looked" /\ worker'[w].pc = "idle"
         /\ \A v \in Worker \ {w} : worker'[v] = worker[v]
         /\ rules'[i].org = worker[w].org /\ rules'[i].key = worker[w].key
         /\ \A j \in Ids \ {i} : rules'[j] = rules[j]
         /\ \A j \in CheckedActive' : j = i \/ j \in CheckedActive
<1>1. \A j \in Ids \ {i} : rules'[j] = rules[j]
  BY DEF Store, TypeOK
<1>2. \A j \in CheckedActive' : j = i \/ j \in CheckedActive
  BY <1>1 DEF CheckedActive, ActiveRules, Used
<1>3. /\ worker[w].pc = "looked" /\ worker'[w].pc = "idle"
      /\ \A v \in Worker \ {w} : worker'[v] = worker[v]
  BY DEF Store, At, Go, Idle, TypeOK
<1>4. rules'[i].org = worker[w].org /\ rules'[i].key = worker[w].key
  BY DEF Store, TypeOK
<1> QED BY <1>1, <1>2, <1>3, <1>4

LEMMA CheckOrgCounts ==
  ASSUME TypeOK, NEW w \in Worker, NEW o \in Org, CheckOrg(w, o)
  PROVE  /\ worker[w].pc = "global"
         /\ \A v \in Worker \ {w} : worker'[v] = worker[v]
         /\ \/ worker'[w].pc = "idle"
            \/ /\ worker'[w].pc = "org" /\ worker'[w].org = o
               /\ ~OrgLimitReached(o, Member)
         /\ UNCHANGED <<rules, limit, peak>>
BY DEF CheckOrg, At, Go, Idle, TypeOK

LEMMA LookUpCounts ==
  ASSUME TypeOK, NEW w \in Worker, NEW k \in Key, LookUp(w, k)
  PROVE  /\ worker[w].pc = "org"
         /\ \A v \in Worker \ {w} : worker'[v] = worker[v]
         /\ \/ worker'[w].pc = "idle"
            \/ /\ worker'[w].pc = "looked" /\ worker'[w].key = k
               /\ worker'[w].org = worker[w].org
               /\ Known(worker[w].org, k) = {}
         /\ UNCHANGED <<rules, limit, peak>>
BY DEF LookUp, At, Go, Idle, TypeOK

LEMMA CheckGlobalCounts ==
  ASSUME TypeOK, NEW w \in Worker, CheckGlobal(w)
  PROVE  /\ \A v \in Worker \ {w} : worker'[v] = worker[v]
         /\ worker'[w].pc = "global"
         /\ Cardinality(ActiveRules) < GlobalLimit
         /\ UNCHANGED <<rules, limit, peak>>
<1>1. ~(Cardinality(ActiveRules) >= GlobalLimit)
  BY DEF CheckGlobal, GlobalLimitReached
<1>2. Cardinality(ActiveRules) \in Nat
  BY CountedSets, FiniteParts
<1>3. Cardinality(ActiveRules) < GlobalLimit
  BY <1>1, <1>2, LimitAssumption
<1> QED BY <1>3 DEF CheckGlobal, Go, TypeOK

LEMMA OrgStep ==
  ASSUME IInv, [Next]_vars
  PROVE  OrgInv'
<1> USE DEF IInv
<1> SUFFICES ASSUME NEW o \in Org, peak'[o] # 0
             PROVE  Cardinality(CheckedOf(o)') + Cardinality(PassedOrg(o)')
                      < peak'[o] + Cardinality(Worker)
  BY DEF OrgInv
<1>n. /\ Cardinality(Worker) \in Nat /\ peak[o] \in Nat /\ limit[o] \in Nat
      /\ Cardinality(CheckedOf(o)) \in Nat /\ Cardinality(PassedOrg(o)) \in Nat
      /\ Cardinality(CheckedOf(o)') \in Nat /\ Cardinality(PassedOrg(o)') \in Nat
      /\ Cardinality(PassedOrg(o)') <= Cardinality(Worker)
      /\ Cardinality(ActiveOf(o)) \in Nat
      /\ Cardinality(CheckedOf(o)) <= Cardinality(ActiveOf(o))
  <2>1. Cardinality(CheckedOf(o)) <= Cardinality(ActiveOf(o))
    BY CountedSets, FiniteParts, FS_Subset
  <2> QED BY <2>1, CountedSets, FiniteParts, LimitAssumption DEF TypeOK
<1>b. ASSUME peak[o] # 0, peak[o] <= peak'[o], peak'[o] \in Nat,
             \/ /\ CheckedOf(o)' \subseteq CheckedOf(o)
                /\ PassedOrg(o)' \subseteq PassedOrg(o)
             \/ \E w \in PassedOrg(o), i \in Ids :
                  /\ CheckedOf(o)' \subseteq CheckedOf(o) \cup {i}
                  /\ PassedOrg(o)' \subseteq PassedOrg(o) \ {w}
      PROVE  Cardinality(CheckedOf(o)') + Cardinality(PassedOrg(o)')
               < peak'[o] + Cardinality(Worker)
  <2>1. Cardinality(CheckedOf(o)) + Cardinality(PassedOrg(o)) < peak[o] + Cardinality(Worker)
    BY <1>b DEF OrgInv
  <2>2. CASE /\ CheckedOf(o)' \subseteq CheckedOf(o)
             /\ PassedOrg(o)' \subseteq PassedOrg(o)
    <3>1. Cardinality(CheckedOf(o)') + Cardinality(PassedOrg(o)')
            <= Cardinality(CheckedOf(o)) + Cardinality(PassedOrg(o))
      BY <2>2, CountedSets, Smaller
    <3> QED BY <2>1, <3>1, <1>n, <1>b
  <2>3. ASSUME NEW w \in PassedOrg(o), NEW i \in Ids,
               CheckedOf(o)' \subseteq CheckedOf(o) \cup {i},
               PassedOrg(o)' \subseteq PassedOrg(o) \ {w}
        PROVE  Cardinality(CheckedOf(o)') + Cardinality(PassedOrg(o)')
                 <= Cardinality(CheckedOf(o)) + Cardinality(PassedOrg(o))
    <3> DEFINE R == CheckedOf(o) \cup {i}
               V == PassedOrg(o) \ {w}
    <3>1. Cardinality(CheckedOf(o)') + Cardinality(PassedOrg(o)')
            <= Cardinality(R) + Cardinality(V)
      BY <2>3, CountedSets, Smaller
    <3>2. Cardinality(R) + Cardinality(V) <= Cardinality(CheckedOf(o)) + Cardinality(PassedOrg(o))
      BY CountedSets, Exchanged
    <3>3. Cardinality(R) \in Nat /\ Cardinality(V) \in Nat
      BY CountedSets, FiniteParts
    <3> QED BY <3>1, <3>2, <3>3, <1>n
  <2> QED BY <1>b, <1>n, <2>1, <2>2, <2>3
<1>1. ASSUME NEW w \in Worker, CheckGlobal(w)
      PROVE  Cardinality(CheckedOf(o)') + Cardinality(PassedOrg(o)')
               < peak'[o] + Cardinality(Worker)
  <2>1. PassedOrg(o)' \subseteq PassedOrg(o)
    BY <1>1, CheckGlobalCounts DEF PassedOrg
  <2> QED BY <1>1, <2>1, <1>b, <1>n, CheckGlobalCounts, SameCounted
<1>2. ASSUME NEW w \in Worker, NEW p \in Org, CheckOrg(w, p)
      PROVE  Cardinality(CheckedOf(o)') + Cardinality(PassedOrg(o)')
               < peak'[o] + Cardinality(Worker)
  <2>1. CASE worker'[w].pc = "org" /\ p = o
    <3>1. ~OrgLimitReached(o, Member) /\ UNCHANGED <<rules, limit, peak>>
      BY <1>2, <2>1, CheckOrgCounts
    <3>2. limit[o] > 0 /\ limit[o] <= peak[o]
      BY <3>1 DEF PeakInv
    <3>3. Cardinality(ActiveOf(o)) < limit[o]
      BY <3>1, <3>2, <1>n DEF OrgLimitReached
    <3>4. Cardinality(CheckedOf(o)') = Cardinality(CheckedOf(o))
      BY <3>1, SameCounted
    <3> QED BY <3>1, <3>2, <3>3, <3>4, <1>n
  <2>2. CASE ~(worker'[w].pc = "org" /\ p = o)
    <3>1. PassedOrg(o)' \subseteq PassedOrg(o)
      BY <1>2, <2>2, CheckOrgCounts DEF PassedOrg
    <3> QED BY <1>2, <3>1, <1>b, <1>n, CheckOrgCounts, SameCounted
  <2> QED BY <2>1, <2>2
<1>3. ASSUME NEW w \in Worker, NEW k \in Key, LookUp(w, k)
      PROVE  Cardinality(CheckedOf(o)') + Cardinality(PassedOrg(o)')
               < peak'[o] + Cardinality(Worker)
  <2>1. PassedOrg(o)' \subseteq PassedOrg(o)
    BY <1>3, LookUpCounts DEF PassedOrg
  <2> QED BY <1>3, <2>1, <1>b, <1>n, LookUpCounts, SameCounted
<1>4. ASSUME NEW w \in Worker, NEW i \in Ids, Store(w, i, FALSE)
      PROVE  Cardinality(CheckedOf(o)') + Cardinality(PassedOrg(o)')
               < peak'[o] + Cardinality(Worker)
  <2>1. UNCHANGED peak
    BY <1>4 DEF Store
  <2>2. CASE worker[w].org = o
    <3>1. w \in PassedOrg(o) /\ PassedOrg(o)' \subseteq PassedOrg(o) \ {w}
      BY <1>4, <2>2, StoreCounts DEF PassedOrg
    <3>2. CheckedOf(o)' \subseteq CheckedOf(o) \cup {i}
      BY <1>4, StoreCounts, CountedSets DEF CheckedOf
    <3> QED BY <2>1, <3>1, <3>2, <1>b, <1>n
  <2>3. CASE worker[w].org # o
    <3>1. PassedOrg(o)' \subseteq PassedOrg(o)
      BY <1>4, StoreCounts DEF PassedOrg
    <3>2. CheckedOf(o)' \subseteq CheckedOf(o)
      BY <1>4, <2>3, StoreCounts, CountedSets DEF CheckedOf
    <3> QED BY <2>1, <3>1, <3>2, <1>b, <1>n
  <2> QED BY <2>2, <2>3
<1>5. CASE RulesShrink /\ WorkersShrink /\ PeaksGrow
  <2>1. peak[o] # 0 /\ peak[o] <= peak'[o] /\ peak'[o] \in Nat
    BY <1>5, NextType DEF PeaksGrow, TypeOK
  <2>2. CheckedOf(o)' \subseteq CheckedOf(o)
    BY <1>5 DEF RulesShrink, CheckedOf
  <2>3. PassedOrg(o)' \subseteq PassedOrg(o)
    BY <1>5 DEF WorkersShrink, PassedOrg
  <2> QED BY <2>1, <2>2, <2>3, <1>b
<1> QED BY <1>1, <1>2, <1>3, <1>4, <1>5, StepKinds

LEMMA PeakStep ==
  ASSUME IInv, [Next]_vars
  PROVE  PeakInv'
<1> USE DEF IInv, TypeOK
<1>1. ASSUME NEW o \in Org, NEW l \in Limits, EditOrganization(o, l)
      PROVE  PeakInv'
  <2>1. l \in Nat /\ \A p \in Org : limit[p] \in Nat
    BY LimitAssumption
  <2> QED BY <1>1, <2>1 DEF EditOrganization, PeakInv
<1>2. CASE UNCHANGED <<limit, peak>>
  BY <1>2 DEF PeakInv
<1> QED BY <1>1, <1>2 DEF Next, Create, Change, vars, CheckGlobal, CheckOrg, NotStored,
           LookUp, Store, Reactivate, GroupUpdateSave, GroupUpdateNext, GroupUpdateFails,
           Delete, Expire

LEMMA GlobalStep ==
  ASSUME IInv, [Next]_vars
  PROVE  GlobalInv'
<1> USE DEF IInv
<1>n. /\ Cardinality(Worker) \in Nat
      /\ Cardinality(CheckedActive) \in Nat /\ Cardinality(Passed) \in Nat
      /\ Cardinality(CheckedActive') \in Nat /\ Cardinality(Passed') \in Nat
      /\ Cardinality(Passed') <= Cardinality(Worker)
      /\ Cardinality(ActiveRules) \in Nat
      /\ Cardinality(CheckedActive) <= Cardinality(ActiveRules)
  <2>1. Cardinality(CheckedActive) <= Cardinality(ActiveRules)
    BY CountedSets, FiniteParts, FS_Subset
  <2> QED BY <2>1, CountedSets, FiniteParts
<1>b. ASSUME CheckedActive' \subseteq CheckedActive, Passed' \subseteq Passed
      PROVE  GlobalInv'
  <2>1. Cardinality(CheckedActive') + Cardinality(Passed')
          <= Cardinality(CheckedActive) + Cardinality(Passed)
    BY <1>b, CountedSets, Smaller
  <2> QED BY <2>1, <1>n, LimitAssumption DEF GlobalInv
<1>1. ASSUME NEW w \in Worker, CheckGlobal(w)
      PROVE  GlobalInv'
  <2>1. Cardinality(CheckedActive') < GlobalLimit
    BY <1>1, <1>n, CheckGlobalCounts, SameCounted, LimitAssumption
  <2> QED BY <2>1, <1>n, LimitAssumption DEF GlobalInv
<1>2. ASSUME NEW w \in Worker, NEW o \in Org, CheckOrg(w, o)
      PROVE  GlobalInv'
  <2>1. Passed' \subseteq Passed
    BY <1>2, CheckOrgCounts DEF Passed
  <2> QED BY <1>2, <2>1, <1>b, CheckOrgCounts, SameCounted
<1>3. ASSUME NEW w \in Worker, NEW k \in Key, LookUp(w, k)
      PROVE  GlobalInv'
  <2>1. Passed' \subseteq Passed
    BY <1>3, LookUpCounts DEF Passed
  <2> QED BY <1>3, <2>1, <1>b, LookUpCounts, SameCounted
<1>4. ASSUME NEW w \in Worker, NEW i \in Ids, Store(w, i, FALSE)
      PROVE  GlobalInv'
  <2> DEFINE R == CheckedActive \cup {i}
             V == Passed \ {w}
  <2>1. w \in Passed /\ Passed' \subseteq V
    BY <1>4, StoreCounts DEF Passed
  <2>2. CheckedActive' \subseteq R
    BY <1>4, StoreCounts
  <2>3. Cardinality(CheckedActive') + Cardinality(Passed') <= Cardinality(R) + Cardinality(V)
    BY <2>1, <2>2, CountedSets, Smaller
  <2>4. Cardinality(R) + Cardinality(V) <= Cardinality(CheckedActive) + Cardinality(Passed)
    BY <2>1, CountedSets, Exchanged
  <2>5. Cardinality(R) \in Nat /\ Cardinality(V) \in Nat
    BY CountedSets, FiniteParts
  <2> QED BY <2>3, <2>4, <2>5, <1>n, LimitAssumption DEF GlobalInv
<1>5. CASE RulesShrink /\ WorkersShrink /\ PeaksGrow
  <2>1. CheckedActive' \subseteq CheckedActive /\ Passed' \subseteq Passed
    BY <1>5 DEF RulesShrink, WorkersShrink, Passed
  <2> QED BY <2>1, <1>b
<1> QED BY <1>1, <1>2, <1>3, <1>4, <1>5, StepKinds

LEMMA KeyStep ==
  ASSUME IInv, [Next]_vars
  PROVE  KeyInv'
<1> USE DEF IInv
<1> SUFFICES ASSUME NEW k \in Key
             PROVE  Cardinality(CheckedLike(k)') + Cardinality(Looked(k)')
                      <= Cardinality(Worker)
  BY DEF KeyInv
<1>n. /\ Cardinality(Worker) \in Nat
      /\ Cardinality(CheckedLike(k)) \in Nat /\ Cardinality(Looked(k)) \in Nat
      /\ Cardinality(CheckedLike(k)') \in Nat /\ Cardinality(Looked(k)') \in Nat
      /\ Cardinality(Looked(k)') <= Cardinality(Worker)
      /\ Cardinality(CheckedLike(k)) + Cardinality(Looked(k)) <= Cardinality(Worker)
  BY CountedSets, FiniteParts DEF KeyInv
<1>b. ASSUME CheckedLike(k)' \subseteq CheckedLike(k), Looked(k)' \subseteq Looked(k)
      PROVE  Cardinality(CheckedLike(k)') + Cardinality(Looked(k)') <= Cardinality(Worker)
  <2>1. Cardinality(CheckedLike(k)') + Cardinality(Looked(k)')
          <= Cardinality(CheckedLike(k)) + Cardinality(Looked(k))
    BY <1>b, CountedSets, Smaller
  <2> QED BY <2>1, <1>n
<1>1. ASSUME NEW w \in Worker, CheckGlobal(w)
      PROVE  Cardinality(CheckedLike(k)') + Cardinality(Looked(k)') <= Cardinality(Worker)
  <2>1. Looked(k)' \subseteq Looked(k)
    BY <1>1, CheckGlobalCounts DEF Looked
  <2> QED BY <1>1, <2>1, <1>b, CheckGlobalCounts, SameCounted
<1>2. ASSUME NEW w \in Worker, NEW o \in Org, CheckOrg(w, o)
      PROVE  Cardinality(CheckedLike(k)') + Cardinality(Looked(k)') <= Cardinality(Worker)
  <2>1. Looked(k)' \subseteq Looked(k)
    BY <1>2, CheckOrgCounts DEF Looked
  <2> QED BY <1>2, <2>1, <1>b, CheckOrgCounts, SameCounted
<1>3. ASSUME NEW w \in Worker, NEW l \in Key, LookUp(w, l)
      PROVE  Cardinality(CheckedLike(k)') + Cardinality(Looked(k)') <= Cardinality(Worker)
  <2>1. CASE worker'[w].pc = "looked" /\ l = k
    <3>1. CheckedLike(k) = {}
      BY <1>3, <2>1, LookUpCounts DEF CheckedLike, CheckedActive, Known
    <3>2. Cardinality(CheckedLike(k)') = 0
      BY <1>3, <3>1, LookUpCounts, SameCounted, FS_EmptySet
    <3> QED BY <3>2, <1>n
  <2>2. CASE ~(worker'[w].pc = "looked" /\ l = k)
    <3>1. Looked(k)' \subseteq Looked(k)
      BY <1>3, <2>2, LookUpCounts DEF Looked
    <3> QED BY <1>3, <3>1, <1>b, LookUpCounts, SameCounted
  <2> QED BY <2>1, <2>2
<1>4. ASSUME NEW w \in Worker, NEW i \in Ids, Store(w, i, FALSE)
      PROVE  Cardinality(CheckedLike(k)') + Cardinality(Looked(k)') <= Cardinality(Worker)
  <2>1. CASE worker[w].key = k
    <3> DEFINE R == CheckedLike(k) \cup {i}
               V == Looked(k) \ {w}
    <3>1. w \in Looked(k) /\ Looked(k)' \subseteq V
      BY <1>4, <2>1, StoreCounts DEF Looked
    <3>2. CheckedLike(k)' \subseteq R
      BY <1>4, StoreCounts, CountedSets DEF CheckedLike
    <3>3. Cardinality(CheckedLike(k)') + Cardinality(Looked(k)')
            <= Cardinality(R) + Cardinality(V)
      BY <3>1, <3>2, CountedSets, Smaller
    <3>4. Cardinality(R) + Cardinality(V) <= Cardinality(CheckedLike(k)) + Cardinality(Looked(k))
      BY <3>1, CountedSets, Exchanged
    <3>5. Cardinality(R) \in Nat /\ Cardinality(V) \in Nat
      BY CountedSets, FiniteParts
    <3> QED BY <3>3, <3>4, <3>5, <1>n
  <2>2. CASE worker[w].key # k
    <3>1. Looked(k)' \subseteq Looked(k)
      BY <1>4, StoreCounts DEF Looked
    <3>2. CheckedLike(k)' \subseteq CheckedLike(k)
      BY <1>4, <2>2, StoreCounts, CountedSets DEF CheckedLike
    <3> QED BY <3>1, <3>2, <1>b
  <2> QED BY <2>1, <2>2
<1>5. CASE RulesShrink /\ WorkersShrink /\ PeaksGrow
  <2>1. CheckedLike(k)' \subseteq CheckedLike(k) /\ Looked(k)' \subseteq Looked(k)
    BY <1>5 DEF RulesShrink, WorkersShrink, CheckedLike, Looked
  <2> QED BY <2>1, <1>b
<1> QED BY <1>1, <1>2, <1>3, <1>4, <1>5, StepKinds

LEMMA InitInv == Init => IInv
<1> SUFFICES ASSUME Init
             PROVE  IInv
  OBVIOUS
<1>1. \A w \in Worker : worker[w].pc = "idle"
  BY DEF Init, Idle
<1>2. CheckedActive = {}
  BY DEF Init, CheckedActive, ActiveRules, Used
<1>3. /\ Passed = {}
      /\ \A o \in Org : CheckedOf(o) = {} /\ PassedOrg(o) = {}
      /\ \A k \in Key : CheckedLike(k) = {} /\ Looked(k) = {}
  BY <1>1, <1>2 DEF Passed, CheckedOf, PassedOrg, CheckedLike, Looked
<1>4. Cardinality({}) = 0 /\ Cardinality(Worker) \in Nat /\ Cardinality(Worker) > 0
  BY FS_EmptySet, FiniteParts
<1>5. TypeOK
  BY InitType
<1>6. PeakInv
  <2>1. \A o \in Org : limit[o] \in Nat /\ peak[o] = limit[o]
    BY LimitAssumption DEF Init
  <2> QED BY <2>1 DEF PeakInv
<1>7. OrgInv
  <2> SUFFICES ASSUME NEW o \in Org
               PROVE  Cardinality(CheckedOf(o)) + Cardinality(PassedOrg(o))
                        < peak[o] + Cardinality(Worker)
    BY DEF OrgInv
  <2>1. Cardinality(CheckedOf(o)) = 0 /\ Cardinality(PassedOrg(o)) = 0
    BY <1>3, <1>4
  <2>2. peak[o] \in Nat
    BY <1>5 DEF TypeOK
  <2> QED BY <1>4, <2>1, <2>2
<1>8. GlobalInv /\ KeyInv
  BY <1>2, <1>3, <1>4, LimitAssumption DEF GlobalInv, KeyInv
<1> QED BY <1>5, <1>6, <1>7, <1>8 DEF IInv

LEMMA NextInv ==
  ASSUME IInv, [Next]_vars
  PROVE  IInv'
<1>1. TypeOK'
  BY NextType DEF IInv
<1> QED BY <1>1, PeakStep, OrgStep, GlobalStep, KeyStep DEF IInv

LEMMA Invariance == Spec => []IInv
BY InitInv, NextInv, PTL DEF Spec

\* Whatever the number of workers, create requests exceed the limit of an
\* organization by less than it (models/utils.py:33).
THEOREM OrgOverrun == Spec => []OrgOverrunBounded
<1>1. ASSUME IInv
      PROVE  OrgOverrunBounded
  <2> SUFFICES ASSUME NEW o \in Org, peak[o] # 0
               PROVE  Cardinality(CheckedActive \cap ActiveOf(o))
                        < peak[o] + Cardinality(Worker)
    BY DEF OrgOverrunBounded
  <2>1. CheckedActive \cap ActiveOf(o) = CheckedOf(o)
    BY DEF CheckedOf, ActiveOf, CheckedActive
  <2>2. /\ Cardinality(CheckedOf(o)) \in Nat /\ Cardinality(PassedOrg(o)) \in Nat
        /\ peak[o] \in Nat /\ Cardinality(Worker) \in Nat
    BY <1>1, CountedSets, FiniteParts DEF IInv, TypeOK
  <2>3. Cardinality(CheckedOf(o)) + Cardinality(PassedOrg(o)) < peak[o] + Cardinality(Worker)
    BY <1>1 DEF IInv, OrgInv
  <2>4. Cardinality(CheckedOf(o)) < peak[o] + Cardinality(Worker)
    BY <2>2, <2>3
  <2> QED BY <2>1, <2>4
<1> QED BY <1>1, Invariance, PTL

\* The same of the limit for all rules of the type (models/utils.py:49).
THEOREM GlobalOverrun == Spec => []GlobalOverrunBounded
<1>1. ASSUME IInv
      PROVE  GlobalOverrunBounded
  <2>1. /\ Cardinality(CheckedActive) \in Nat /\ Cardinality(Passed) \in Nat
        /\ Cardinality(Worker) \in Nat
    BY CountedSets, FiniteParts
  <2> QED BY <1>1, <2>1, LimitAssumption DEF IInv, GlobalInv, GlobalOverrunBounded
<1> QED BY <1>1, Invariance, PTL

\* Of rules a form cannot tell apart, create requests never store more than
\* there are workers (rule_service.py:142).
THEOREM Twins == Spec => []TwinsBounded
<1>1. ASSUME IInv
      PROVE  TwinsBounded
  <2> SUFFICES ASSUME NEW k \in Key
               PROVE  Cardinality(CheckedLike(k)) <= Cardinality(Worker)
    BY DEF TwinsBounded, CheckedLike
  <2>1. /\ Cardinality(CheckedLike(k)) \in Nat /\ Cardinality(Looked(k)) \in Nat
        /\ Cardinality(Worker) \in Nat
    BY CountedSets, FiniteParts
  <2> QED BY <1>1, <2>1 DEF IInv, KeyInv
<1> QED BY <1>1, Invariance, PTL

=============================================================================
