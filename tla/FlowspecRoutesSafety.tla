------------------------ MODULE FlowspecRoutesSafety ------------------------
(***************************************************************************)
(* The type and route invariants of FlowspecRoutes, for every value of its *)
(* constants.                                                              *)
(*                                                                         *)
(* A route that is not disturbed belongs to one rule at most and concerns  *)
(* one worker at most.  RouteInv says how the table and the rule of such a *)
(* route are related at each stage of that worker's request; a step either *)
(* leaves all this alone (Untouched) or is a step of that worker (Alone).  *)
(***************************************************************************)
EXTENDS FlowspecRoutes, TLAPS

-----------------------------------------------------------------------------
(* Types. *)

Table == [Ids -> Rule \cup {NoRule}]

LEMMA IdleIsTask == Idle \in Task
BY BoundAssumption DEF Idle, Task, Times

\* The tasks with which requests begin.
LEMMA BeginTasks ==
  ASSUME NEW ids \in SUBSET Ids, NEW todo \in SUBSET Command, NEW touch \in SUBSET Route,
         NEW after \in {"delete", "mark"}
  PROVE  /\ [Idle EXCEPT !.pc = "send", !.touch = touch, !.todo = todo] \in Task
         /\ [Idle EXCEPT !.pc = "send", !.todo = todo, !.ids = ids,
                         !.after = after, !.touch = touch] \in Task
         /\ [Idle EXCEPT !.pc = "send", !.ids = ids, !.after = after,
                         !.touch = touch] \in Task
BY IdleIsTask DEF Task

\* The routes of used ids are routes, and commands can be made of them.
LEMMA RoutesOfUsed ==
  ASSUME rules \in Table, NEW ids \in SUBSET Used(rules), NEW kind \in {"announce", "withdraw"}
  PROVE  /\ RoutesOf(ids) \subseteq Route
         /\ Sends(kind, RoutesOf(ids)) \subseteq Command
<1>1. RoutesOf(ids) \subseteq Route
  BY NoRuleAssumption DEF Table, RoutesOf, Used, Rule
<1> QED BY <1>1 DEF Sends, Command

LEMMA UsedIsRule ==
  ASSUME NEW rs \in Table, NEW i \in Used(rs)
  PROVE  i \in Ids /\ rs[i] \in Rule
BY DEF Table, Used

LEMMA StateType ==
  ASSUME NEW expires
  PROVE  StateByTime(expires) \in {Active, Withdrawn}
BY DEF StateByTime

LEMMA RenewedType ==
  ASSUME rules \in Table, NEW i \in Used(rules), NEW expires \in Times
  PROVE  Renewed(i, expires) \in Table
<1>1. rules[i] \in Rule /\ i \in Ids
  BY UsedIsRule
<1>2. [rules[i] EXCEPT !.expires = expires, !.rstate = StateByTime(expires)] \in Rule
  BY <1>1, StateType DEF Rule
<1> QED BY <1>1, <1>2 DEF Renewed, Table

\* What a look-up leaves: a rule it found, or a free id it will use.
LEMMA LookUpBegins ==
  ASSUME TypeOK, NEW w \in Worker, NEW key \in Key, NEW fragment \in Fragment,
         NEW expires \in Times, LookUp(w, key, fragment, expires)
  PROVE  \E ids \in SUBSET Used(rules), rest \in SUBSET FreeIds, touch \in SUBSET Route :
           /\ Begin(w, Looked(ids, rest, expires, touch))
           /\ RoutesOf(ids) \subseteq touch
           /\ \/ rest = {} /\ \E i \in Ids : ids = {i}
              \/ ids = {}
<1>1. ASSUME NEW i \in Known(key)
      PROVE  {i} \in SUBSET Used(rules) /\ i \in Ids /\ RoutesOf({i}) \in SUBSET Route
  <2>1. {i} \in SUBSET Used(rules) /\ i \in Ids
    BY DEF Known, Used
  <2> QED BY <2>1, RoutesOfUsed DEF TypeOK, Table
<1>2. {<<key, fragment>>} \in SUBSET Route /\ RoutesOf({}) = {}
  BY DEF Route, RoutesOf
<1> QED BY <1>1, <1>2 DEF LookUp

LEMMA LookUpType ==
  ASSUME TypeOK, NEW w \in Worker, NEW key \in Key, NEW fragment \in Fragment,
         NEW expires \in Times, LookUp(w, key, fragment, expires)
  PROVE  rules' \in Table /\ worker' \in [Worker -> Task]
<1>1. PICK ids \in SUBSET Used(rules), rest \in SUBSET FreeIds, touch \in SUBSET Route :
        Begin(w, Looked(ids, rest, expires, touch))
  BY LookUpBegins
<1>2. ids \in SUBSET Ids /\ rest \in SUBSET Ids
  BY DEF Used, FreeIds
<1>3. Looked(ids, rest, expires, touch) \in Task
  BY <1>2, IdleIsTask DEF Looked, Task
<1>4. rules' = rules
  BY DEF LookUp
<1> QED BY <1>1, <1>3, <1>4 DEF TypeOK, Table, Begin

\* Every step of a worker leaves rules and tasks of their types.
LEMMA RequestType ==
  ASSUME TypeOK, NEW w \in Worker, Request(w)
  PROVE  rules' \in Table /\ worker' \in [Worker -> Task]
<1> USE BoundAssumption DEF TypeOK, Table, Times
<1> Idle \in Task
  BY IdleIsTask
<1>1. CASE \E k \in Key, f \in Fragment, e \in Times : LookUp(w, k, f, e)
  BY <1>1, LookUpType
<1>2. ASSUME NEW i \in Ids, NEW e \in Times, Reactivate(w, i, e)
      PROVE  rules' \in Table /\ worker' \in [Worker -> Task]
  <2>1. i \in Used(rules) /\ RoutesOf({i}) \subseteq Route
    BY <1>2, RoutesOfUsed DEF Reactivate
  <2>2. [Idle EXCEPT !.pc = "saved", !.ids = {i}, !.withdraws = TRUE,
                     !.touch = RoutesOf({i})] \in Task
    BY <2>1 DEF Idle, Task
  <2> QED BY <1>2, <2>1, <2>2, RenewedType DEF Reactivate, Begin
<1>3. ASSUME NEW i \in Ids, Delete(w, i)
      PROVE  rules' \in Table /\ worker' \in [Worker -> Task]
  <2>1. /\ i \in Used(rules) /\ RoutesOf({i}) \subseteq Route
        /\ Sends("withdraw", RoutesOf({i})) \subseteq Command
    BY <1>3, RoutesOfUsed DEF Delete
  <2>2. [Idle EXCEPT !.pc = "send", !.todo = Sends("withdraw", RoutesOf({i})),
                     !.ids = {i}, !.after = "delete", !.touch = RoutesOf({i})] \in Task
    BY <2>1 DEF Idle, Task
  <2> QED BY <1>3, <2>2 DEF Delete, Begin
<1>4. ASSUME NEW ids \in SUBSET Ids, GroupDelete(w, ids)
      PROVE  rules' \in Table /\ worker' \in [Worker -> Task]
  <2>1. RoutesOf(ids) \subseteq Route
    BY <1>4, RoutesOfUsed DEF GroupDelete
  <2>2. [Idle EXCEPT !.pc = "send", !.rest = ids, !.ids = ids,
                     !.after = "delete", !.touch = RoutesOf(ids)] \in Task
    BY <2>1 DEF Idle, Task
  <2> QED BY <1>4, <2>2 DEF GroupDelete, Begin
<1>5. ASSUME NEW ids \in SUBSET Ids, NEW e \in Times, GroupUpdateSave(w, ids, e)
      PROVE  rules' \in Table /\ worker' \in [Worker -> Task]
  <2>1. RoutesOf(ids) \subseteq Route
    BY <1>5, RoutesOfUsed DEF GroupUpdateSave
  <2>2. [Idle EXCEPT !.pc = "send", !.rest = ids, !.expires = e,
                     !.withdraws = TRUE, !.touch = RoutesOf(ids)] \in Task
    BY <2>1 DEF Idle, Task
  <2> QED BY <1>5, <2>2 DEF GroupUpdateSave, Begin
<1> QED BY <1>1, <1>2, <1>3, <1>4, <1>5 DEF Request

LEMMA CallType ==
  ASSUME TypeOK, NEW w \in Worker, AnnounceAll(w) \/ AnnounceAgain(w) \/ WithdrawExpired(w)
  PROVE  rules' \in Table /\ worker' \in [Worker -> Task]
<1> USE BoundAssumption DEF TypeOK, Table, Times
<1>1. CASE AnnounceAll(w) \/ AnnounceAgain(w)
  <2> DEFINE valid == ValidIds
             routes == RoutesOf(valid)
             todo == Sends("announce", routes)
             task == [Idle EXCEPT !.pc = "send", !.touch = routes, !.todo = todo]
  <2>1. routes \subseteq Route /\ todo \subseteq Command
    BY RoutesOfUsed DEF ValidIds
  <2>2. rules' = rules /\ Begin(w, task)
    BY <1>1 DEF AnnounceAll, AnnounceAgain, AnnounceRules
  <2> HIDE DEF valid, routes, todo
  <2>3. task \in Task
    BY <2>1, BeginTasks
  <2> HIDE DEF task
  <2> QED BY <2>2, <2>3 DEF Begin
<1>2. CASE WithdrawExpired(w)
  <2> DEFINE expired == {i \in Used(rules) : /\ rules[i].rstate = Active
                                             /\ rules[i].expires < now}
             routes == RoutesOf(expired)
             todo == Sends("withdraw", routes)
             task == [Idle EXCEPT !.pc = "send", !.todo = todo, !.ids = expired,
                                  !.after = "mark", !.touch = routes]
  <2>1. routes \subseteq Route /\ todo \subseteq Command /\ expired \subseteq Ids
    BY RoutesOfUsed DEF Used
  <2>2. rules' = rules /\ Begin(w, task)
    BY <1>2 DEF WithdrawExpired
  <2> HIDE DEF expired, routes, todo
  <2>3. task \in Task
    BY <2>1, BeginTasks
  <2> HIDE DEF task
  <2> QED BY <2>2, <2>3 DEF Begin
<1> QED BY <1>1, <1>2

LEMMA ContinueType ==
  ASSUME TypeOK, NEW w \in Worker, Continue(w)
  PROVE  rules' \in Table /\ worker' \in [Worker -> Task]
<1> USE DEF TypeOK, Table
<1> Idle \in Task
  BY IdleIsTask
<1>1. CASE Build(w)
  <2> DEFINE active == {i \in worker[w].ids : rules[i].rstate = Active}
             others == IF worker[w].withdraws THEN worker[w].ids \ active ELSE {}
             todo == Sends("announce", RoutesOf(active)) \cup Sends("withdraw", RoutesOf(others))
  <2>1. active \subseteq Used(rules) /\ others \subseteq Used(rules)
    BY <1>1 DEF Build
  <2>2. todo \subseteq Command
    BY <2>1, RoutesOfUsed
  <2>3. rules' = rules
        /\ worker' = [worker EXCEPT ![w] = [@ EXCEPT !.pc = "send", !.todo = todo]]
    BY <1>1 DEF Build
  <2> HIDE DEF todo
  <2> QED BY <2>2, <2>3 DEF Task
<1>2. CASE BuildGone(w)
  BY <1>2 DEF BuildGone
<1>3. ASSUME NEW c \in Command, Send(w, c)
      PROVE  rules' \in Table /\ worker' \in [Worker -> Task]
  BY <1>3 DEF Send, Task
<1>4. ASSUME NEW i \in Ids, GroupDeleteNext(w, i)
      PROVE  rules' \in Table /\ worker' \in [Worker -> Task]
  <2>1. Sends("withdraw", RoutesOf({i})) \subseteq Command
    BY <1>4, RoutesOfUsed DEF GroupDeleteNext
  <2> QED BY <1>4, <2>1 DEF GroupDeleteNext, Task
<1>5. ASSUME NEW i \in Ids, GroupUpdateNext(w, i)
      PROVE  rules' \in Table /\ worker' \in [Worker -> Task]
  <2>1. i \in Used(rules) /\ worker[w].expires \in Times
    BY <1>5 DEF GroupUpdateNext, Task
  <2>2. rules' \in Table
    BY <1>5, <2>1, RenewedType DEF GroupUpdateNext
  <2> QED BY <1>5, <2>2 DEF GroupUpdateNext, Task
<1>6. CASE GroupGone(w)
  BY <1>6 DEF GroupGone
<1>7. CASE FinishDelete(w)
  BY <1>7 DEF FinishDelete, RulesWithout
<1>8. CASE Finish(w)
  BY <1>8 DEF Finish
<1>9. CASE Mark(w)
  <2>1. [Idle EXCEPT !.pc = "purge"] \in Task
    BY DEF Task, Idle
  <2>2. ASSUME NEW i \in worker[w].ids
        PROVE  [rules[i] EXCEPT !.rstate = Withdrawn] \in Rule
    BY <1>9 DEF Mark, Used, Rule
  <2> QED BY <1>9, <2>1, <2>2 DEF Mark
<1>10. CASE MarkGone(w)
  BY <1>10 DEF MarkGone
<1>11. CASE PurgeRead(w)
  <2> DEFINE old == {i \in Used(rules) : /\ rules[i].rstate = Withdrawn
                                         /\ rules[i].expires + Retention < now}
             routes == RoutesOf(old)
             task == [Idle EXCEPT !.pc = "send", !.ids = old, !.after = "delete",
                                  !.touch = routes]
  <2>1. routes \subseteq Route /\ old \subseteq Ids
    BY RoutesOfUsed DEF Used
  <2>2. rules' = rules /\ worker' = [worker EXCEPT ![w] = task]
    BY <1>11 DEF PurgeRead
  <2> HIDE DEF old, routes
  <2>3. task \in Task
    BY <2>1, BeginTasks
  <2> HIDE DEF task
  <2> QED BY <2>2, <2>3
<1>12. ASSUME NEW i \in Ids, UpdateKnown(w, i)
       PROVE  rules' \in Table /\ worker' \in [Worker -> Task]
  <2>1. i \in Used(rules) /\ worker[w].expires \in Times
    BY <1>12 DEF UpdateKnown, Task
  <2>2. [rules[i] EXCEPT !.expires = worker[w].expires] \in Rule
    BY <2>1, UsedIsRule DEF Rule
  <2>3. rules' \in Table
    BY <1>12, <2>2 DEF UpdateKnown
  <2> QED BY <1>12, <2>3 DEF UpdateKnown, Task
<1>13. ASSUME NEW i \in Ids, NEW r \in Route, Store(w, i, r)
       PROVE  rules' \in Table /\ worker' \in [Worker -> Task]
  <2> DEFINE new == [route |-> r, rstate |-> StateByTime(worker[w].expires),
                     expires |-> worker[w].expires]
  <2>1. new \in Rule
    BY StateType DEF Rule, Task
  <2>2. rules' = [rules EXCEPT ![i] = new]
    BY <1>13 DEF Store
  <2> HIDE DEF new
  <2>3. rules' \in Table
    BY <2>1, <2>2
  <2> QED BY <1>13, <2>3 DEF Store, Task
<1> QED BY <1>1, <1>2, <1>3, <1>4, <1>5, <1>6, <1>7, <1>8, <1>9, <1>10, <1>11, <1>12, <1>13
        DEF Continue

\* The other variables in a step of a worker.
LEMMA WorkerStepOther ==
  ASSUME TypeOK, NEW w \in Worker,
         Request(w) \/ Continue(w) \/ AnnounceAll(w) \/ AnnounceAgain(w)
           \/ WithdrawExpired(w)
  PROVE  /\ table' \subseteq Route
         /\ guarda' \in BOOLEAN
         /\ UNCHANGED <<up, crashes, now>>
         /\ disturbed \subseteq disturbed' /\ disturbed' \subseteq Route
<1> USE DEF TypeOK, NoteDisturbed, Contention
<1>1. CASE Request(w)
  BY <1>1 DEF Request, LookUp, Reactivate, Delete, GroupDelete, GroupUpdateSave
<1>2. CASE AnnounceAll(w) \/ AnnounceAgain(w) \/ WithdrawExpired(w)
  BY <1>2 DEF AnnounceAll, AnnounceAgain, AnnounceRules, WithdrawExpired
<1>3. CASE \E c \in Command : Send(w, c)
  BY <1>3 DEF Send, Command
<1>4. CASE GroupGone(w)
  BY <1>4 DEF GroupGone, Task
<1>5. CASE PurgeRead(w)
  BY <1>5 DEF PurgeRead
<1>6. CASE \E i \in Ids, r \in Route : Store(w, i, r)
  BY <1>6 DEF Store
<1>7. ASSUME Continue(w), ~ (\E c \in Command : Send(w, c)), ~GroupGone(w), ~PurgeRead(w),
             ~ (\E i \in Ids, r \in Route : Store(w, i, r))
      PROVE  UNCHANGED <<table, up, guarda, crashes, now, disturbed>>
  BY <1>7 DEF Continue, UpdateKnown, Build, BuildGone, GroupDeleteNext, GroupUpdateNext, FinishDelete,
              Finish, Mark, MarkGone
<1> QED BY <1>1, <1>2, <1>3, <1>4, <1>5, <1>6, <1>7

LEMMA TypeStep ==
  ASSUME TypeOK, [Next]_vars
  PROVE  TypeOK'
<1>1. ASSUME NEW w \in Worker,
             Request(w) \/ Continue(w) \/ AnnounceAll(w) \/ AnnounceAgain(w)
               \/ WithdrawExpired(w)
      PROVE  TypeOK'
  <2>1. rules' \in Table /\ worker' \in [Worker -> Task]
    BY <1>1, RequestType, CallType, ContinueType
  <2> QED BY <1>1, <2>1, WorkerStepOther DEF TypeOK, Table
<1>2. CASE Crash
  <2>1. crashes' \in 0 .. MaxCrashes
    BY <1>2, BoundAssumption DEF Crash, TypeOK
  <2> QED BY <1>2, <2>1 DEF Crash, TypeOK
<1>3. CASE Restart
  BY <1>3 DEF Restart, TypeOK
<1>4. CASE Tick
  BY <1>4, BoundAssumption DEF Tick, TypeOK
<1>5. CASE UNCHANGED vars
  BY <1>5 DEF TypeOK, vars
<1> QED BY <1>1, <1>2, <1>3, <1>4, <1>5 DEF Next

\* Tables, tasks and routes keep their types, for any number of keys, rules,
\* workers, crashes and for any clock.
THEOREM TypeCorrect == Spec => []TypeOK
<1>1. Init => TypeOK
  <2>1. 0 \in 0 .. MaxCrashes /\ 0 \in 0 .. MaxNow
    BY BoundAssumption
  <2> QED BY <2>1, IdleIsTask DEF Init, TypeOK
<1>2. TypeOK /\ [Next]_vars => TypeOK'
  BY TypeStep
<1> QED BY <1>1, <1>2, PTL DEF Spec

-----------------------------------------------------------------------------
(* The invariant. *)

\* What the fields of a task say of each other and of the rules.
TaskShape(t) ==
  /\ t.pc = "idle" => t = Idle
  /\ t.pc = "saved" => \E i \in Ids : t.ids = {i}
  /\ t.pc # "send" => t.todo = {} /\ t.after = "nothing"
  /\ t.after = "delete" => t.rest \subseteq t.ids
  /\ t.after = "mark" => t.rest = {}
  /\ t.pc = "looked" => /\ t.rest \cap Used(rules) = {}
                        /\ t.ids = {} \/ (t.rest = {} /\ \E i \in Ids : t.ids = {i})
  /\ t.pc # "looked" /\ t.after = "nothing" /\ t.rest # {} => t.withdraws
  /\ t.after # "nothing" => \A c \in t.todo : c[1] = "withdraw"
  /\ \A c \in t.todo : c[2] \in t.touch
  /\ \A i \in t.ids \cup t.rest : i \in Used(rules) => rules[i].route \in t.touch

Shape == \A w \in Worker : TaskShape(worker[w])

Refers(t, i) == i \in t.ids \cup t.rest

\* The id that a look-up reserved is no other worker's.
Reserved ==
  \A w \in Worker : worker[w].pc = "looked" =>
    \A v \in Worker \ {w}, i \in worker[w].rest : ~ Refers(worker[v], i)

\* The history misses nothing.
Noted == Contention(rules, worker) \subseteq disturbed

DownIsEmpty == ~up => table = {}

Has(i, r) == i \in Used(rules) /\ rules[i].route = r

Announces(t, r) == <<"announce", r>> \in t.todo
Withdraws(t, r) == <<"withdraw", r>> \in t.todo

\* What is going to be announced is the route of an active rule.
AnnouncesActive(t, r) ==
  Announces(t, r) => \E i \in Ids : Has(i, r) /\ rules[i].rstate = Active

\* What is going to be withdrawn is not the route of a valid rule, or its rule
\* is going to be deleted.
WithdrawsInvalid(t, r) ==
  \A i \in Ids : Withdraws(t, r) /\ Has(i, r) =>
    ~ Valid(rules[i]) \/ (t.after = "delete" /\ i \in t.ids)

\* A rule that is going to be deleted or marked loses its route first.
EndsWithdrawn(t, r) ==
  \A i \in t.ids \ t.rest :
    t.after # "nothing" /\ Has(i, r) /\ ~ Withdraws(t, r) => r \notin table

MarksExpired(t, r) ==
  \A i \in t.ids : t.after = "mark" /\ Has(i, r) => ~ Valid(rules[i])

\* The request is going to withdraw a route without an active rule, ...
WillWithdraw(t, r) ==
  \/ Withdraws(t, r)
  \/ t.pc = "saved" /\ t.withdraws /\ \E i \in t.ids : Has(i, r)

\* ... or to announce the route of rule i, or to delete the rule.
WillAnnounce(t, i, r) ==
  \/ Announces(t, r)
  \/ i \in t.ids /\ (t.pc = "saved" \/ t.after = "delete")

HasActive(r) == \E i \in Ids : Has(i, r) /\ rules[i].rstate = Active

TaskInv(t, r) ==
  /\ AnnouncesActive(t, r)
  /\ WithdrawsInvalid(t, r)
  /\ EndsWithdrawn(t, r)
  /\ MarksExpired(t, r)

RouteInv(r) ==
  /\ \A w \in Worker : TaskInv(worker[w], r)
  /\ r \in table => HasActive(r) \/ \E w \in Worker : WillWithdraw(worker[w], r)
  /\ up /\ ~guarda =>
       \A i \in Ids : Has(i, r) /\ Valid(rules[i]) =>
         r \in table \/ \E w \in Worker : WillAnnounce(worker[w], i, r)

RoutesInv ==
  /\ Shape
  /\ Reserved
  /\ Noted
  /\ DownIsEmpty
  /\ \A r \in Route \ disturbed : RouteInv(r)

\* The same for a route that concerns one worker, with task t.
OneInv(t, r) ==
  /\ TaskInv(t, r)
  /\ r \in table => HasActive(r) \/ WillWithdraw(t, r)
  /\ up /\ ~guarda =>
       \A i \in Ids : Has(i, r) /\ Valid(rules[i]) =>
         r \in table \/ WillAnnounce(t, i, r)

-----------------------------------------------------------------------------
(* Steps of one worker. *)

Others(w) == \A v \in Worker \ {w} : worker'[v] = worker[v]

Concerns(w, r) == r \in worker[w].touch \cup worker'[w].touch

\* A step of w changes nothing but what its routes have to do with.
Local(w) ==
  /\ Others(w)
  /\ \A i \in Used(rules') : \/ i \in Used(rules) /\ rules'[i].route = rules[i].route
                             \/ \A v \in Worker \ {w} : ~ Refers(worker[v], i)
  /\ \A i \in Ids : rules'[i] # rules[i] =>
       /\ i \in Used(rules) => Concerns(w, rules[i].route)
       /\ i \in Used(rules') => Concerns(w, rules'[i].route)
  /\ \A r \in Route : ~ Concerns(w, r) => (r \in table' <=> r \in table)
  /\ up' = up /\ now' = now
  /\ \/ guarda' = guarda
     \/ \A i \in Used(rules) : Valid(rules[i]) => Concerns(w, rules[i].route)
  /\ disturbed \subseteq disturbed'

\* A step that leaves alone a route, its rules and the tasks that concern it
\* leaves the invariant of the route.
LEMMA Untouched ==
  ASSUME Shape, Shape', NEW r \in Route, RouteInv(r),
         \A i \in Ids : (Has(i, r) \/ Has(i, r)') => rules'[i] = rules[i],
         r \in table' <=> r \in table,
         \A i \in Ids : Has(i, r) /\ Valid(rules[i])' => Valid(rules[i]),
         (up' /\ ~guarda') => (up /\ ~guarda) \/ \A i \in Ids : ~ (Has(i, r) /\ Valid(rules[i])),
         \A v \in Worker : \/ worker'[v] = worker[v]
                           \/ r \notin worker[v].touch \cup worker'[v].touch
  PROVE  RouteInv(r)'
<1>1. \A i \in Ids : Has(i, r)' <=> Has(i, r)
  BY DEF Has, Used
<1>2. ASSUME NEW v \in Worker,
             \/ \E kind \in {"announce", "withdraw"} : <<kind, r>> \in worker[v].todo \cup worker'[v].todo
             \/ \E i \in Ids : /\ i \in worker[v].ids \cup worker'[v].ids
                               /\ Has(i, r)
      PROVE  worker'[v] = worker[v]
  <2>1. CASE \E kind \in {"announce", "withdraw"} : <<kind, r>> \in worker[v].todo \cup worker'[v].todo
    BY <2>1 DEF Shape, TaskShape
  <2>2. CASE \E i \in Ids : i \in worker[v].ids \cup worker'[v].ids /\ Has(i, r)
    BY <2>2, <1>1 DEF Shape, TaskShape, Has
  <2> QED BY <1>2, <2>1, <2>2
<1>3. ASSUME NEW v \in Worker
      PROVE  TaskInv(worker[v], r)'
  <2>1. TaskInv(worker[v], r)
    BY DEF RouteInv
  <2>2. AnnouncesActive(worker[v], r)'
    BY <1>1, <1>2, <2>1 DEF TaskInv, AnnouncesActive, Announces
  <2>3. WithdrawsInvalid(worker[v], r)'
    BY <1>1, <1>2, <2>1 DEF TaskInv, WithdrawsInvalid, Withdraws
  <2>4. EndsWithdrawn(worker[v], r)'
    BY <1>1, <1>2, <2>1 DEF TaskInv, EndsWithdrawn, Withdraws, Has, Used
  <2>5. MarksExpired(worker[v], r)'
    BY <1>1, <1>2, <2>1 DEF TaskInv, MarksExpired, Has, Used
  <2> QED BY <2>2, <2>3, <2>4, <2>5 DEF TaskInv
<1>4. ASSUME r \in table'
      PROVE  HasActive(r)' \/ \E w \in Worker : WillWithdraw(worker[w], r)'
  <2>1. CASE HasActive(r)
    BY <2>1, <1>1 DEF HasActive
  <2>2. ASSUME NEW w \in Worker, WillWithdraw(worker[w], r)
        PROVE  WillWithdraw(worker[w], r)'
    BY <1>1, <1>2, <2>2 DEF WillWithdraw, Withdraws, Has, Used
  <2> QED BY <1>4, <2>1, <2>2 DEF RouteInv
<1>5. ASSUME up', ~guarda', NEW i \in Ids, Has(i, r)', Valid(rules[i])'
      PROVE  r \in table' \/ \E w \in Worker : WillAnnounce(worker[w], i, r)'
  <2>1. up /\ ~guarda /\ Has(i, r) /\ Valid(rules[i])
    BY <1>1, <1>5
  <2>2. ASSUME NEW w \in Worker, WillAnnounce(worker[w], i, r)
        PROVE  WillAnnounce(worker[w], i, r)'
    BY <1>2, <2>1, <2>2 DEF WillAnnounce, Announces
  <2> QED BY <2>1, <2>2 DEF RouteInv
<1> QED BY <1>3, <1>4, <1>5 DEF RouteInv

\* A route that concerns one worker only.
Alone(w, r) == \A v \in Worker \ {w} : r \notin worker[v].touch

\* Then no other task has to do with it.
LEMMA AloneTask ==
  ASSUME Shape, NEW w \in Worker, NEW r \in Route, Alone(w, r), NEW v \in Worker \ {w}
  PROVE  /\ TaskInv(worker[v], r)
         /\ ~ WillWithdraw(worker[v], r)
         /\ \A i \in Ids : Has(i, r) => ~ WillAnnounce(worker[v], i, r)
<1>1. ~ Announces(worker[v], r) /\ ~ Withdraws(worker[v], r)
  BY DEF Alone, Shape, TaskShape, Announces, Withdraws
<1>2. \A i \in worker[v].ids : ~ Has(i, r)
  BY DEF Alone, Shape, TaskShape, Has
<1> QED BY <1>1, <1>2 DEF TaskInv, AnnouncesActive, WithdrawsInvalid, EndsWithdrawn,
              MarksExpired, WillWithdraw, WillAnnounce

LEMMA RouteIsOne ==
  ASSUME Shape, NEW w \in Worker, NEW r \in Route, Alone(w, r), RouteInv(r)
  PROVE  OneInv(worker[w], r)
<1>1. \A v \in Worker : WillWithdraw(worker[v], r) => v = w
  BY AloneTask
<1>2. \A v \in Worker, i \in Ids : Has(i, r) /\ WillAnnounce(worker[v], i, r) => v = w
  BY AloneTask
<1> QED BY <1>1, <1>2 DEF RouteInv, OneInv

OneIsRoute ==
  \A w \in Worker, r \in Route :
    Shape /\ Alone(w, r) /\ OneInv(worker[w], r) => RouteInv(r)

LEMMA OneIsRouteNext == OneIsRoute'
<1>1. OneIsRoute
  BY AloneTask DEF OneIsRoute, RouteInv, OneInv
<1> QED BY <1>1, PTL

-----------------------------------------------------------------------------
(* The steps of a route's only worker. *)

Unique(r) == \A i, j \in Ids : Has(i, r) /\ Has(j, r) => i = j

\* What is known of such a step.
Setting(w, r) ==
  /\ TypeOK /\ TypeOK'
  /\ Shape /\ Shape'
  /\ DownIsEmpty
  /\ Unique(r) /\ Unique(r)'
  /\ Concerns(w, r)
  /\ r \notin disturbed'
  /\ OneInv(worker[w], r)

\* No task, no plan.
LEMMA IdleInv ==
  ASSUME NEW r \in Route, OneInv(Idle, r)
  PROVE  /\ r \in table => HasActive(r)
         /\ up /\ ~guarda => \A i \in Ids : Has(i, r) /\ Valid(rules[i]) => r \in table
BY DEF OneInv, WillWithdraw, WillAnnounce, Withdraws, Announces, Idle

\* A renewed rule keeps its route.
LEMMA RenewedHas ==
  ASSUME TypeOK, NEW i \in Used(rules), NEW expires \in Times, rules' = Renewed(i, expires)
  PROVE  /\ \A j \in Ids, r \in Route : Has(j, r)' <=> Has(j, r)
         /\ \A j \in Ids \ {i} : rules'[j] = rules[j]
<1>1. i \in Ids /\ rules[i] \in Rule
  BY UsedIsRule DEF TypeOK, Table
<1>2. rules'[i] \in Rule /\ rules'[i].route = rules[i].route
  BY <1>1, StateType DEF Renewed, Rule, TypeOK
<1>3. \A j \in Ids \ {i} : rules'[j] = rules[j]
  BY DEF Renewed, TypeOK
<1>4. rules'[i] # NoRule /\ rules[i] # NoRule
  BY <1>1, <1>2, NoRuleAssumption
<1> QED BY <1>2, <1>3, <1>4 DEF Has, Used

LEMMA ReactivateOne ==
  ASSUME NEW w \in Worker, NEW r \in Route, Setting(w, r),
         NEW i \in Ids, NEW expires \in Times, Reactivate(w, i, expires)
  PROVE  OneInv(worker[w], r)'
<1>1. worker[w] = Idle
  BY DEF Reactivate, Begin, Setting, Shape, TaskShape
<1>2. worker'[w] = [Idle EXCEPT !.pc = "saved", !.ids = {i}, !.withdraws = TRUE,
                                !.touch = RoutesOf({i})]
  BY DEF Reactivate, Begin, Setting, TypeOK
<1>3. /\ worker'[w].pc = "saved" /\ worker'[w].ids = {i} /\ worker'[w].todo = {}
      /\ worker'[w].after = "nothing" /\ worker'[w].touch = {rules[i].route}
      /\ worker'[w].withdraws
  BY <1>2 DEF Idle, RoutesOf
<1>4. Has(i, r)'
  <2>1. Has(i, r)
    BY <1>1, <1>3 DEF Setting, Concerns, Idle, Has, Reactivate
  <2> QED BY <2>1, RenewedHas DEF Reactivate, Setting
<1>5. TaskInv(worker[w], r)'
  BY <1>3 DEF TaskInv, AnnouncesActive, WithdrawsInvalid, EndsWithdrawn, MarksExpired,
              Announces, Withdraws
<1>6. WillWithdraw(worker[w], r)'
  BY <1>3, <1>4 DEF WillWithdraw
<1>7. \A j \in Ids : Has(j, r)' => WillAnnounce(worker[w], j, r)'
  BY <1>3, <1>4 DEF Setting, Unique, WillAnnounce
<1> QED BY <1>5, <1>6, <1>7 DEF OneInv

\* A request that begins finds an idle worker and leaves its task.
LEMMA BeginOne ==
  ASSUME NEW w \in Worker, NEW task, TypeOK, Shape, Begin(w, task)
  PROVE  worker[w] = Idle /\ worker'[w] = task
BY DEF Begin, TypeOK, Shape, TaskShape

LEMMA SameRules ==
  ASSUME rules' = rules
  PROVE  /\ \A i, r : Has(i, r)' <=> Has(i, r)
         /\ \A r : HasActive(r)' <=> HasActive(r)
BY DEF Has, Used, HasActive

\* So does a rule that gets a new time only.
LEMMA ExtendedHas ==
  ASSUME TypeOK, NEW i \in Used(rules), NEW expires \in Times,
         rules' = [rules EXCEPT ![i].expires = expires]
  PROVE  /\ \A j \in Ids, r \in Route : Has(j, r)' <=> Has(j, r)
         /\ \A j \in Ids \ {i} : rules'[j] = rules[j]
         /\ rules'[i].route = rules[i].route /\ rules'[i].rstate = rules[i].rstate
<1>1. i \in Ids /\ rules[i] \in Rule
  BY UsedIsRule DEF TypeOK, Table
<1>2. rules'[i] \in Rule /\ rules'[i].route = rules[i].route /\ rules'[i].rstate = rules[i].rstate
  BY <1>1 DEF Rule, TypeOK
<1>3. \A j \in Ids \ {i} : rules'[j] = rules[j]
  BY DEF TypeOK
<1>4. rules'[i] # NoRule /\ rules[i] # NoRule
  BY <1>1, <1>2, NoRuleAssumption
<1> QED BY <1>2, <1>3, <1>4 DEF Has, Used

\* A look-up only begins.
LEMMA LookUpOne ==
  ASSUME NEW w \in Worker, NEW r \in Route, Setting(w, r),
         NEW key \in Key, NEW fragment \in Fragment, NEW expires \in Times,
         LookUp(w, key, fragment, expires)
  PROVE  OneInv(worker[w], r)'
<1>1. PICK ids \in SUBSET Used(rules), rest \in SUBSET FreeIds, touch \in SUBSET Route :
        Begin(w, Looked(ids, rest, expires, touch))
  BY LookUpBegins DEF Setting
<1>2. worker[w] = Idle /\ worker'[w] = Looked(ids, rest, expires, touch)
  BY <1>1, BeginOne DEF Setting
<1>3. worker'[w].todo = {} /\ worker'[w].after = "nothing"
  BY <1>2 DEF Looked, Idle
<1>4. UNCHANGED <<rules, table, up, guarda, now>>
  BY DEF LookUp
<1>5. TaskInv(worker[w], r)'
  BY <1>3 DEF TaskInv, AnnouncesActive, WithdrawsInvalid, EndsWithdrawn, MarksExpired,
              Announces, Withdraws
<1> QED BY <1>2, <1>4, <1>5, IdleInv, SameRules DEF OneInv, Setting, Valid

\* Until a looked up rule is stored, no command is on its way.
LEMMA LookedInv ==
  ASSUME NEW w \in Worker, NEW r \in Route, Setting(w, r), worker[w].pc = "looked"
  PROVE  /\ r \in table => HasActive(r)
         /\ up /\ ~guarda => \A i \in Ids : Has(i, r) /\ Valid(rules[i]) => r \in table
<1>1. worker[w].todo = {} /\ worker[w].after = "nothing"
  BY DEF Setting, Shape, TaskShape
<1> QED BY <1>1 DEF Setting, OneInv, WillWithdraw, WillAnnounce, Withdraws, Announces

LEMMA UpdateKnownOne ==
  ASSUME NEW w \in Worker, NEW r \in Route, Setting(w, r), NEW i \in Ids, UpdateKnown(w, i)
  PROVE  OneInv(worker[w], r)'
<1>1. /\ worker'[w].pc = "saved" /\ worker'[w].ids = {i} /\ worker'[w].todo = {}
      /\ worker'[w].after = "nothing" /\ i \in Used(rules)
  BY DEF UpdateKnown, Setting, TypeOK, Task, Shape, TaskShape
<1>2. UNCHANGED <<table, up, guarda, now>> /\ worker[w].pc = "looked"
  BY DEF UpdateKnown
<1>3. /\ \A j \in Ids : Has(j, r)' <=> Has(j, r)
      /\ \A j \in Ids \ {i} : rules'[j] = rules[j]
      /\ rules'[i].rstate = rules[i].rstate
  BY <1>1, ExtendedHas DEF UpdateKnown, Setting, TypeOK, Task
<1>4. TaskInv(worker[w], r)'
  BY <1>1 DEF TaskInv, AnnouncesActive, WithdrawsInvalid, EndsWithdrawn, MarksExpired,
              Announces, Withdraws
<1>5. HasActive(r) => HasActive(r)'
  BY <1>3 DEF HasActive
<1>6. CASE Has(i, r)
  <2>1. \A j \in Ids : Has(j, r)' => WillAnnounce(worker[w], j, r)'
    BY <1>1, <1>3, <1>6 DEF WillAnnounce, Setting, Unique
  <2> QED BY <1>2, <1>4, <1>5, <2>1, LookedInv DEF OneInv
<1>7. CASE ~ Has(i, r)
  <2>1. \A j \in Ids : Has(j, r)' => Has(j, r) /\ rules'[j] = rules[j]
    BY <1>3, <1>7
  <2> QED BY <1>2, <1>4, <1>5, <2>1, LookedInv DEF OneInv, Valid
<1> QED BY <1>6, <1>7

LEMMA StoreOne ==
  ASSUME NEW w \in Worker, NEW r \in Route, Setting(w, r), NEW i \in Ids,
         NEW route \in Route, Store(w, i, route)
  PROVE  OneInv(worker[w], r)'
<1>1. /\ worker'[w].pc = "saved" /\ worker'[w].ids = {i} /\ worker'[w].todo = {}
      /\ worker'[w].after = "nothing" /\ i \notin Used(rules)
  BY DEF Store, Setting, TypeOK, Task, Shape, TaskShape
<1>2. UNCHANGED <<table, up, guarda, now>> /\ worker[w].pc = "looked"
  BY DEF Store
<1>3. \A j \in Ids \ {i} : rules'[j] = rules[j] /\ (Has(j, r)' <=> Has(j, r))
  BY DEF Store, Setting, TypeOK, Has, Used
<1>4. TaskInv(worker[w], r)'
  BY <1>1 DEF TaskInv, AnnouncesActive, WithdrawsInvalid, EndsWithdrawn, MarksExpired,
              Announces, Withdraws
<1>5. ~ Has(i, r)
  BY <1>1 DEF Has
<1>6. HasActive(r) => HasActive(r)'
  BY <1>3, <1>5 DEF HasActive
<1>7. \A j \in Ids : Has(j, r)' => j = i \/ (Has(j, r) /\ rules'[j] = rules[j])
  BY <1>3
<1>8. i \in worker'[w].ids /\ worker'[w].pc = "saved"
  BY <1>1
<1> QED BY <1>2, <1>4, <1>6, <1>7, <1>8, LookedInv DEF OneInv, WillAnnounce, Valid

LEMMA DeleteOne ==
  ASSUME NEW w \in Worker, NEW r \in Route, Setting(w, r), NEW i \in Ids, Delete(w, i)
  PROVE  OneInv(worker[w], r)'
<1>1. /\ worker[w] = Idle
      /\ worker'[w] = [Idle EXCEPT !.pc = "send", !.todo = Sends("withdraw", RoutesOf({i})),
                           !.ids = {i}, !.after = "delete", !.touch = RoutesOf({i})]
  BY BeginOne DEF Delete, Setting
<1>2. /\ worker'[w].ids = {i} /\ worker'[w].todo = {<<"withdraw", rules[i].route>>}
      /\ worker'[w].after = "delete" /\ worker'[w].touch = {rules[i].route}
  BY <1>1 DEF Idle, RoutesOf, Sends
<1>3. rules[i].route = r
  BY <1>1, <1>2 DEF Setting, Concerns, Idle
<1>4. \A j \in Ids : Has(j, r)' => j = i
  BY <1>3, SameRules DEF Setting, Unique, Delete, Has
<1>5. TaskInv(worker[w], r)'
  BY <1>2, <1>3, <1>4 DEF TaskInv, AnnouncesActive, WithdrawsInvalid, EndsWithdrawn,
              MarksExpired, Announces, Withdraws
<1>6. WillWithdraw(worker[w], r)'
  BY <1>2, <1>3 DEF WillWithdraw, Withdraws
<1>7. \A j \in Ids : Has(j, r)' => WillAnnounce(worker[w], j, r)'
  BY <1>2, <1>4 DEF WillAnnounce
<1> QED BY <1>5, <1>6, <1>7 DEF OneInv

\* A group request begins by doing nothing.
LEMMA GroupOne ==
  ASSUME NEW w \in Worker, NEW r \in Route, Setting(w, r), NEW ids \in SUBSET Ids,
         NEW expires \in Times, GroupDelete(w, ids) \/ GroupUpdateSave(w, ids, expires)
  PROVE  OneInv(worker[w], r)'
<1>1. /\ worker[w] = Idle
      /\ \/ worker'[w] = [Idle EXCEPT !.pc = "send", !.rest = ids, !.ids = ids,
                                      !.after = "delete", !.touch = RoutesOf(ids)]
         \/ worker'[w] = [Idle EXCEPT !.pc = "send", !.rest = ids, !.expires = expires,
                                      !.withdraws = TRUE, !.touch = RoutesOf(ids)]
  BY BeginOne DEF GroupDelete, GroupUpdateSave, Setting
<1>2. /\ worker'[w].todo = {}
      /\ \/ worker'[w].after = "delete" /\ worker'[w].ids = worker'[w].rest
         \/ worker'[w].after = "nothing"
  BY <1>1 DEF Idle
<1>3. UNCHANGED <<rules, table, up, guarda, now>>
  BY DEF GroupDelete, GroupUpdateSave
<1>4. TaskInv(worker[w], r)'
  BY <1>2 DEF TaskInv, AnnouncesActive, WithdrawsInvalid, EndsWithdrawn, MarksExpired,
              Announces, Withdraws
<1> QED BY <1>1, <1>3, <1>4, IdleInv, SameRules DEF OneInv, Setting, Valid

LEMMA AnnounceAllOne ==
  ASSUME NEW w \in Worker, NEW r \in Route, Setting(w, r),
         AnnounceAll(w) \/ AnnounceAgain(w)
  PROVE  OneInv(worker[w], r)'
<1> DEFINE valid == ValidIds
<1>1. /\ worker[w] = Idle
      /\ worker'[w] = [Idle EXCEPT !.pc = "send", !.touch = RoutesOf(valid),
                                   !.todo = Sends("announce", RoutesOf(valid))]
  BY BeginOne DEF AnnounceAll, AnnounceAgain, AnnounceRules, Setting
<1>2. UNCHANGED <<rules, table, up, now>>
  BY DEF AnnounceAll, AnnounceAgain, AnnounceRules
<1>3. /\ worker'[w].todo = Sends("announce", RoutesOf(valid))
      /\ worker'[w].touch = RoutesOf(valid) /\ worker'[w].after = "nothing"
  BY <1>1 DEF Idle
<1>4. r \in RoutesOf(valid)
  BY <1>1, <1>3 DEF Setting, Concerns, Idle
<1>5. HasActive(r)'
  BY <1>4, <1>2, SameRules DEF RoutesOf, HasActive, Has, Valid, Used, ValidIds
<1>6. Announces(worker[w], r)' /\ ~ Withdraws(worker[w], r)'
  BY <1>3, <1>4 DEF Announces, Withdraws, Sends
<1>7. TaskInv(worker[w], r)'
  BY <1>3, <1>5, <1>6 DEF TaskInv, AnnouncesActive, WithdrawsInvalid, EndsWithdrawn,
              MarksExpired, HasActive
<1> QED BY <1>5, <1>6, <1>7 DEF OneInv, WillAnnounce

LEMMA WithdrawExpiredOne ==
  ASSUME NEW w \in Worker, NEW r \in Route, Setting(w, r), WithdrawExpired(w)
  PROVE  OneInv(worker[w], r)'
<1> DEFINE expired == {i \in Used(rules) : /\ rules[i].rstate = Active
                                           /\ rules[i].expires < now}
<1>1. /\ worker[w] = Idle
      /\ worker'[w] = [Idle EXCEPT !.pc = "send", !.todo = Sends("withdraw", RoutesOf(expired)),
                                   !.ids = expired, !.after = "mark",
                                   !.touch = RoutesOf(expired)]
  BY BeginOne DEF WithdrawExpired, Setting
<1>2. UNCHANGED <<rules, table, up, guarda, now>>
  BY DEF WithdrawExpired
<1>3. /\ worker'[w].todo = Sends("withdraw", RoutesOf(expired)) /\ worker'[w].ids = expired
      /\ worker'[w].touch = RoutesOf(expired) /\ worker'[w].after = "mark"
  BY <1>1 DEF Idle
<1>4. PICK i \in expired : rules[i].route = r
  BY <1>1, <1>3 DEF Setting, Concerns, Idle, RoutesOf
<1>5. \A j \in Ids : Has(j, r)' => ~ Valid(rules[j])'
  <2>1. Has(i, r) /\ i \in Ids
    BY <1>4 DEF Has, Used
  <2>2. ~ (rules[i].expires >= now)
    BY <1>4, UsedIsRule DEF Setting, TypeOK, Table, Rule, Times
  <2> QED BY <1>2, <2>1, <2>2, SameRules DEF Setting, Unique, Valid
<1>6. ~ Announces(worker[w], r)' /\ Withdraws(worker[w], r)'
  BY <1>3, <1>4 DEF Announces, Withdraws, Sends, RoutesOf
<1>7. TaskInv(worker[w], r)'
  BY <1>3, <1>5, <1>6 DEF TaskInv, AnnouncesActive, WithdrawsInvalid, EndsWithdrawn,
              MarksExpired, Has, Used
<1> QED BY <1>5, <1>6, <1>7 DEF OneInv, WillWithdraw

LEMMA BuildOne ==
  ASSUME NEW w \in Worker, NEW r \in Route, Setting(w, r), Build(w)
  PROVE  OneInv(worker[w], r)'
<1> DEFINE active == {i \in worker[w].ids : rules[i].rstate = Active}
           others == IF worker[w].withdraws THEN worker[w].ids \ active ELSE {}
           todo == Sends("announce", RoutesOf(active)) \cup Sends("withdraw", RoutesOf(others))
<1>1. /\ worker'[w].todo = todo
      /\ worker'[w].after = worker[w].after /\ worker'[w].ids = worker[w].ids
  <2>1. worker' = [worker EXCEPT ![w] = [@ EXCEPT !.pc = "send", !.todo = todo]]
    BY DEF Build
  <2> HIDE DEF todo
  <2> QED BY <2>1 DEF Setting, TypeOK, Task
<1>2. /\ worker[w].pc = "saved" /\ worker[w].after = "nothing" /\ worker[w].todo = {}
      /\ worker[w].ids \subseteq Used(rules)
  BY DEF Build, Setting, Shape, TaskShape
<1>3. UNCHANGED <<rules, table, up, guarda, now>>
  BY DEF Build
<1>4. /\ Announces(worker[w], r)' <=> \E i \in active : rules[i].route = r
      /\ Withdraws(worker[w], r)' <=> \E i \in others : rules[i].route = r
  BY <1>1 DEF Announces, Withdraws, Sends, RoutesOf
<1>5. Announces(worker[w], r)' => HasActive(r)'
  BY <1>2, <1>3, <1>4, SameRules DEF HasActive, Has, Used
<1>6. \A i \in Ids : Withdraws(worker[w], r)' /\ Has(i, r)' => ~ Valid(rules[i])'
  BY <1>2, <1>3, <1>4, SameRules DEF Setting, Unique, Has, Used, Valid
<1>7. TaskInv(worker[w], r)'
  BY <1>1, <1>2, <1>5, <1>6 DEF TaskInv, AnnouncesActive, WithdrawsInvalid, EndsWithdrawn,
              MarksExpired, HasActive
<1>8. ASSUME r \in table'
      PROVE  HasActive(r)' \/ WillWithdraw(worker[w], r)'
  <2>1. CASE HasActive(r)
    BY <1>3, <2>1, SameRules
  <2>2. CASE WillWithdraw(worker[w], r)
    <3>1. PICK i \in worker[w].ids : Has(i, r) /\ worker[w].withdraws
      BY <1>2, <2>2 DEF WillWithdraw, Withdraws
    <3>2. CASE rules[i].rstate = Active
      BY <1>2, <1>3, <3>1, <3>2, SameRules DEF HasActive, Used
    <3>3. CASE rules[i].rstate # Active
      BY <1>4, <3>1, <3>3 DEF WillWithdraw, Has
    <3> QED BY <3>2, <3>3
  <2> QED BY <1>3, <1>8, <2>1, <2>2 DEF Setting, OneInv
<1>9. ASSUME up', ~guarda', NEW i \in Ids, Has(i, r)', Valid(rules[i])'
      PROVE  r \in table' \/ WillAnnounce(worker[w], i, r)'
  <2>1. Has(i, r) /\ Valid(rules[i]) /\ up /\ ~guarda
    BY <1>3, <1>9, SameRules DEF Valid
  <2>2. CASE r \in table
    BY <1>3, <2>2
  <2>3. CASE WillAnnounce(worker[w], i, r)
    <3>1. i \in active
      BY <1>2, <2>1, <2>3 DEF WillAnnounce, Announces, Valid
    <3> QED BY <1>4, <2>1, <3>1 DEF WillAnnounce, Has
  <2> QED BY <2>1, <2>2, <2>3 DEF Setting, OneInv
<1> QED BY <1>7, <1>8, <1>9 DEF OneInv

\* A worker that has only commands behind it plans nothing any more.
LEMMA SentInv ==
  ASSUME NEW w \in Worker, NEW r \in Route, Setting(w, r), AllSent(w)
  PROVE  /\ ~ Announces(worker[w], r) /\ ~ Withdraws(worker[w], r)
         /\ r \in table => HasActive(r)
         /\ up /\ ~guarda => \A i \in Ids : Has(i, r) /\ Valid(rules[i]) =>
              r \in table \/ (i \in worker[w].ids /\ worker[w].after = "delete")
         /\ \A i \in worker[w].ids \ worker[w].rest :
              worker[w].after # "nothing" /\ Has(i, r) => r \notin table
BY DEF AllSent, Setting, OneInv, TaskInv, EndsWithdrawn, WillWithdraw, WillAnnounce,
       Withdraws, Announces

\* Requests that end, or fail, without changing a rule.
LEMMA EndOne ==
  ASSUME NEW w \in Worker, NEW r \in Route, Setting(w, r), Noted',
         BuildGone(w) \/ GroupGone(w) \/ Finish(w) \/ MarkGone(w)
  PROVE  OneInv(worker[w], r)'
<1>1. /\ worker'[w] = Idle
      /\ UNCHANGED <<rules, table, up, guarda, now>>
  BY DEF BuildGone, GroupGone, Finish, MarkGone, Setting, TypeOK
<1>2. worker'[w].todo = {} /\ worker'[w].after = "nothing"
  BY <1>1 DEF Idle
<1>3. TaskInv(worker[w], r)'
  BY <1>2 DEF TaskInv, AnnouncesActive, WithdrawsInvalid, EndsWithdrawn, MarksExpired,
              Announces, Withdraws
<1>4. /\ r \in table => HasActive(r)
      /\ up /\ ~guarda => \A i \in Ids : Has(i, r) /\ Valid(rules[i]) => r \in table
  <2>1. CASE BuildGone(w)
    <3>1. /\ worker[w].todo = {} /\ worker[w].after = "nothing"
          /\ \A i \in worker[w].ids : ~ Has(i, r)
      BY <2>1 DEF BuildGone, Setting, Shape, TaskShape, Has
    <3> QED BY <3>1 DEF Setting, OneInv, WillWithdraw, WillAnnounce, Withdraws, Announces
  <2>2. CASE GroupGone(w)
    <3>1. worker[w].after # "delete"
      BY <2>2, <1>1 DEF GroupGone, Setting, Concerns, Idle
    <3> QED BY <2>2, <3>1, SentInv DEF GroupGone
  <2>3. CASE Finish(w) \/ MarkGone(w)
    BY <2>3, SentInv DEF Finish, MarkGone
  <2> QED BY <2>1, <2>2, <2>3
<1> QED BY <1>1, <1>3, <1>4, SameRules DEF OneInv, Valid

LEMMA SendOne ==
  ASSUME NEW w \in Worker, NEW r \in Route, Setting(w, r), NEW c \in Command, Send(w, c)
  PROVE  OneInv(worker[w], r)'
<1>1. /\ worker'[w].todo = worker[w].todo \ {c}
      /\ worker'[w].after = worker[w].after /\ worker'[w].ids = worker[w].ids
      /\ worker'[w].rest = worker[w].rest /\ worker'[w].pc = "send" /\ worker[w].pc = "send"
  BY DEF Send, Setting, TypeOK, Task
<1>2. UNCHANGED <<rules, up, guarda, now>>
  BY DEF Send
<1>3. /\ Announces(worker[w], r)' => Announces(worker[w], r)
      /\ Withdraws(worker[w], r)' => Withdraws(worker[w], r)
      /\ Announces(worker[w], r) => Announces(worker[w], r)' \/ c = <<"announce", r>>
      /\ Withdraws(worker[w], r) => Withdraws(worker[w], r)' \/ c = <<"withdraw", r>>
  BY <1>1 DEF Announces, Withdraws
<1>4. /\ c = <<"announce", r>> => (r \in table' <=> up)
      /\ c = <<"withdraw", r>> => r \notin table'
      /\ c # <<"announce", r>> /\ c # <<"withdraw", r>> => (r \in table' <=> r \in table)
  <2>1. /\ ~ up => table' = {} /\ table = {}
        /\ up => table' = IF c[1] = "announce" THEN table \cup {c[2]} ELSE table \ {c[2]}
    BY DEF Send, Setting, DownIsEmpty
  <2>2. c = <<c[1], c[2]>> /\ c[1] \in {"announce", "withdraw"}
    BY DEF Command
  <2>3. ASSUME c[2] # r PROVE r \in table' <=> r \in table
    BY <2>1, <2>3
  <2> QED BY <2>1, <2>2, <2>3
<1>5. AnnouncesActive(worker[w], r)'
  BY <1>2, <1>3, SameRules DEF Setting, OneInv, TaskInv, AnnouncesActive
<1>6. WithdrawsInvalid(worker[w], r)'
  BY <1>1, <1>2, <1>3, SameRules DEF Setting, OneInv, TaskInv, WithdrawsInvalid, Valid
<1>7. EndsWithdrawn(worker[w], r)'
  <2> SUFFICES ASSUME NEW i \in worker[w].ids \ worker[w].rest, worker[w].after # "nothing",
                      Has(i, r), ~ Withdraws(worker[w], r)'
               PROVE  r \notin table'
    BY <1>1, <1>2, SameRules DEF EndsWithdrawn
  <2>1. c # <<"announce", r>>
    BY DEF Send, Setting, Shape, TaskShape
  <2>2. CASE Withdraws(worker[w], r)
    BY <1>3, <1>4, <2>2
  <2>3. CASE ~ Withdraws(worker[w], r)
    <3>1. c # <<"withdraw", r>>
      BY <2>3 DEF Withdraws, Send
    <3> QED BY <1>4, <2>1, <2>3, <3>1 DEF Setting, OneInv, TaskInv, EndsWithdrawn
  <2> QED BY <2>2, <2>3
<1>8. MarksExpired(worker[w], r)'
  BY <1>1, <1>2, SameRules DEF Setting, OneInv, TaskInv, MarksExpired, Valid
<1>9. ASSUME r \in table'
      PROVE  HasActive(r)' \/ WillWithdraw(worker[w], r)'
  <2>1. CASE c = <<"announce", r>>
    <3>1. HasActive(r)
      BY <2>1 DEF Send, Setting, OneInv, TaskInv, AnnouncesActive, Announces, HasActive
    <3> QED BY <1>2, <3>1, SameRules
  <2>2. CASE c # <<"announce", r>>
    <3>1. r \in table /\ c # <<"withdraw", r>>
      BY <1>4, <1>9, <2>2
    <3>2. HasActive(r) \/ Withdraws(worker[w], r)
      BY <1>1, <3>1 DEF Setting, OneInv, WillWithdraw
    <3> QED BY <1>2, <1>3, <3>1, <3>2, SameRules DEF WillWithdraw
  <2> QED BY <2>1, <2>2
<1>10. ASSUME up', ~guarda', NEW i \in Ids, Has(i, r)', Valid(rules[i])'
       PROVE  r \in table' \/ WillAnnounce(worker[w], i, r)'
  <2>1. up /\ ~guarda /\ Has(i, r) /\ Valid(rules[i])
    BY <1>2, <1>10, SameRules DEF Valid
  <2>2. r \in table \/ WillAnnounce(worker[w], i, r)
    BY <2>1 DEF Setting, OneInv
  <2>3. CASE c = <<"announce", r>>
    BY <1>4, <2>1, <2>3
  <2>4. CASE c = <<"withdraw", r>>
    <3>1. worker[w].after = "delete" /\ i \in worker[w].ids
      BY <2>1, <2>4 DEF Send, Setting, OneInv, TaskInv, WithdrawsInvalid, Withdraws
    <3> QED BY <1>1, <3>1 DEF WillAnnounce
  <2>5. CASE c # <<"announce", r>> /\ c # <<"withdraw", r>>
    BY <1>1, <1>3, <1>4, <2>2, <2>5 DEF WillAnnounce
  <2> QED BY <2>3, <2>4, <2>5
<1> QED BY <1>5, <1>6, <1>7, <1>8, <1>9, <1>10 DEF OneInv, TaskInv

LEMMA GroupDeleteNextOne ==
  ASSUME NEW w \in Worker, NEW r \in Route, Setting(w, r), NEW i \in Ids, GroupDeleteNext(w, i)
  PROVE  OneInv(worker[w], r)'
<1>1. /\ worker'[w].todo = {<<"withdraw", rules[i].route>>}
      /\ worker'[w].rest = worker[w].rest \ {i}
      /\ worker'[w].after = "delete" /\ worker[w].after = "delete"
      /\ worker'[w].ids = worker[w].ids /\ i \in worker[w].ids /\ i \in Used(rules)
  <2>1. Sends("withdraw", RoutesOf({i})) = {<<"withdraw", rules[i].route>>}
    BY DEF Sends, RoutesOf
  <2>2. worker[w].after = "delete" /\ i \in worker[w].ids /\ i \in Used(rules)
    BY DEF GroupDeleteNext, Setting, Shape, TaskShape
  <2> DEFINE todo == Sends("withdraw", RoutesOf({i}))
  <2>3. worker' = [worker EXCEPT ![w].rest = @ \ {i}, ![w].todo = todo]
    BY DEF GroupDeleteNext
  <2> HIDE DEF todo
  <2>4. /\ worker'[w].todo = todo /\ worker'[w].rest = worker[w].rest \ {i}
        /\ worker'[w].after = worker[w].after /\ worker'[w].ids = worker[w].ids
    BY <2>3 DEF Setting, TypeOK, Task
  <2> QED BY <2>1, <2>2, <2>4 DEF todo
<1>2. UNCHANGED <<rules, table, up, guarda, now>> /\ AllSent(w)
  BY DEF GroupDeleteNext
<1>3. ~ Announces(worker[w], r)' /\ (Withdraws(worker[w], r)' <=> rules[i].route = r)
  BY <1>1 DEF Announces, Withdraws
<1>4. WithdrawsInvalid(worker[w], r)'
  BY <1>1, <1>2, <1>3, SameRules DEF WithdrawsInvalid, Setting, Unique, Has
<1>5. EndsWithdrawn(worker[w], r)'
  BY <1>1, <1>2, <1>3, SentInv, SameRules DEF EndsWithdrawn, Has
<1>6. TaskInv(worker[w], r)'
  BY <1>1, <1>3, <1>4, <1>5 DEF TaskInv, AnnouncesActive, MarksExpired
<1> QED BY <1>1, <1>2, <1>6, SentInv, SameRules DEF OneInv, WillAnnounce, Valid

LEMMA GroupUpdateNextOne ==
  ASSUME NEW w \in Worker, NEW r \in Route, Setting(w, r), NEW i \in Ids, GroupUpdateNext(w, i)
  PROVE  OneInv(worker[w], r)'
<1>1. /\ worker'[w].pc = "saved" /\ worker'[w].ids = {i} /\ worker'[w].todo = {}
      /\ worker'[w].after = "nothing" /\ worker[w].after = "nothing"
      /\ worker'[w].withdraws
      /\ i \in Used(rules) /\ worker[w].expires \in Times
  BY DEF GroupUpdateNext, AllSent, Setting, TypeOK, Task, Shape, TaskShape
<1>2. UNCHANGED <<table, up, guarda, now>> /\ AllSent(w)
  BY DEF GroupUpdateNext
<1>3. /\ \A j \in Ids : Has(j, r)' <=> Has(j, r)
      /\ \A j \in Ids \ {i} : rules'[j] = rules[j]
  BY <1>1, RenewedHas DEF GroupUpdateNext, Setting
<1>4. TaskInv(worker[w], r)'
  BY <1>1 DEF TaskInv, AnnouncesActive, WithdrawsInvalid, EndsWithdrawn, MarksExpired,
              Announces, Withdraws
<1>5. CASE Has(i, r)
  <2>1. WillWithdraw(worker[w], r)'
    BY <1>1, <1>3, <1>5 DEF WillWithdraw
  <2>2. \A j \in Ids : Has(j, r)' => WillAnnounce(worker[w], j, r)'
    BY <1>1, <1>3, <1>5 DEF WillAnnounce, Setting, Unique
  <2> QED BY <1>4, <2>1, <2>2 DEF OneInv
<1>6. CASE ~ Has(i, r)
  <2>1. \A j \in Ids : Has(j, r)' => Has(j, r) /\ rules'[j] = rules[j]
    BY <1>3, <1>6
  <2>2. HasActive(r) => HasActive(r)'
    BY <1>3, <1>6 DEF HasActive
  <2> QED BY <1>1, <1>2, <1>4, <2>1, <2>2, SentInv DEF OneInv, Valid
<1> QED BY <1>5, <1>6

LEMMA FinishDeleteOne ==
  ASSUME NEW w \in Worker, NEW r \in Route, Setting(w, r), FinishDelete(w)
  PROVE  OneInv(worker[w], r)'
<1>1. /\ worker'[w] = Idle
      /\ UNCHANGED <<table, up, guarda, now>> /\ AllSent(w)
      /\ worker[w].rest = {} /\ worker[w].after = "delete"
  BY DEF FinishDelete, Setting, TypeOK
<1>2. worker'[w].todo = {} /\ worker'[w].after = "nothing"
  BY <1>1 DEF Idle
<1>3. TaskInv(worker[w], r)'
  BY <1>2 DEF TaskInv, AnnouncesActive, WithdrawsInvalid, EndsWithdrawn, MarksExpired,
              Announces, Withdraws
<1>4. \A i \in Ids : /\ i \notin worker[w].ids => rules'[i] = rules[i] /\ (Has(i, r)' <=> Has(i, r))
                     /\ i \in worker[w].ids => ~ Has(i, r)'
  BY DEF FinishDelete, RulesWithout, Has, Used
<1>5. r \in table => HasActive(r)'
  BY <1>1, <1>4, SentInv DEF HasActive
<1> QED BY <1>1, <1>3, <1>4, <1>5, SentInv DEF OneInv, Valid

LEMMA MarkOne ==
  ASSUME NEW w \in Worker, NEW r \in Route, Setting(w, r), Mark(w)
  PROVE  OneInv(worker[w], r)'
<1>1. /\ worker'[w] = [Idle EXCEPT !.pc = "purge"]
      /\ UNCHANGED <<table, up, guarda, now>> /\ AllSent(w)
      /\ worker[w].rest = {} /\ worker[w].after = "mark"
  BY DEF Mark, Setting, TypeOK, Shape, TaskShape
<1>2. worker'[w].todo = {} /\ worker'[w].after = "nothing"
  BY <1>1 DEF Idle
<1>3. TaskInv(worker[w], r)'
  BY <1>2 DEF TaskInv, AnnouncesActive, WithdrawsInvalid, EndsWithdrawn, MarksExpired,
              Announces, Withdraws
<1>4. \A i \in Ids : /\ i \notin worker[w].ids => rules'[i] = rules[i] /\ (Has(i, r)' <=> Has(i, r))
                     /\ i \in worker[w].ids => rules'[i].rstate = Withdrawn /\ (Has(i, r)' => Has(i, r))
  <2>1. ASSUME NEW i \in worker[w].ids
        PROVE  i \in Used(rules) /\ rules'[i].rstate = Withdrawn
               /\ rules'[i].route = rules[i].route
    <3>1. i \in Used(rules) /\ rules[i] \in Rule
      BY UsedIsRule DEF Mark, Setting, TypeOK, Table
    <3> QED BY <3>1, UsedIsRule DEF Mark, Rule, Setting, TypeOK, Table
  <2>2. ASSUME NEW i \in Ids \ worker[w].ids PROVE rules'[i] = rules[i]
    BY DEF Mark
  <2> QED BY <2>1, <2>2 DEF Has, Used
<1>5. r \in table => HasActive(r)'
  BY <1>1, <1>4, SentInv DEF HasActive
<1>6. \A i \in Ids : Has(i, r)' /\ Valid(rules[i])' => Has(i, r) /\ Valid(rules[i])
  BY <1>1, <1>4 DEF Valid, Active, Withdrawn
<1> QED BY <1>1, <1>3, <1>5, <1>6, SentInv DEF OneInv

LEMMA PurgeReadOne ==
  ASSUME NEW w \in Worker, NEW r \in Route, Setting(w, r), PurgeRead(w)
  PROVE  OneInv(worker[w], r)'
<1> DEFINE old == {i \in Used(rules) : /\ rules[i].rstate = Withdrawn
                                       /\ rules[i].expires + Retention < now}
<1>1. /\ worker[w].todo = {} /\ worker[w].after = "nothing" /\ worker[w].pc = "purge"
      /\ worker'[w] = [Idle EXCEPT !.pc = "send", !.ids = old, !.after = "delete",
                                   !.touch = RoutesOf(old)]
      /\ UNCHANGED <<rules, table, up, guarda, now>>
  BY DEF PurgeRead, Setting, TypeOK, Shape, TaskShape
<1>2. worker'[w].todo = {} /\ worker'[w].after = "delete" /\ worker'[w].ids = old
  BY <1>1 DEF Idle
<1>3. /\ r \in table => HasActive(r)
      /\ up /\ ~guarda => \A i \in Ids : Has(i, r) /\ Valid(rules[i]) => r \in table
  BY <1>1 DEF Setting, OneInv, WillWithdraw, WillAnnounce, Withdraws, Announces
<1>4. EndsWithdrawn(worker[w], r)'
  <2> SUFFICES ASSUME NEW i \in old, Has(i, r) PROVE r \notin table
    BY <1>1, <1>2, SameRules DEF EndsWithdrawn
  <2>1. ~ HasActive(r)
    BY DEF HasActive, Setting, Unique, Has, Used, Active, Withdrawn
  <2> QED BY <1>3, <2>1
<1>5. TaskInv(worker[w], r)'
  BY <1>2, <1>4 DEF TaskInv, AnnouncesActive, WithdrawsInvalid, MarksExpired,
              Announces, Withdraws
<1> QED BY <1>1, <1>3, <1>5, SameRules DEF OneInv, Valid

-----------------------------------------------------------------------------
(* Every step of a worker is local and keeps the shape of its task. *)

\* A step that changes no rule and no route.
LEMMA QuietLocal ==
  ASSUME TypeOK, NEW w \in Worker, NEW task, worker' = [worker EXCEPT ![w] = task],
         UNCHANGED <<rules, table, up, guarda, now>>, disturbed \subseteq disturbed'
  PROVE  Local(w)
BY DEF Local, Others, TypeOK, Used

LEMMA IdleShape == TaskShape(Idle) /\ TaskShape(Idle)'
BY DEF TaskShape, Idle

LEMMA LookUpLocal ==
  ASSUME TypeOK, Shape, NEW w \in Worker, NEW key \in Key, NEW fragment \in Fragment,
         NEW expires \in Times, LookUp(w, key, fragment, expires)
  PROVE  Local(w) /\ TaskShape(worker[w])'
<1>1. PICK ids \in SUBSET Used(rules), rest \in SUBSET FreeIds, touch \in SUBSET Route :
        /\ Begin(w, Looked(ids, rest, expires, touch))
        /\ RoutesOf(ids) \subseteq touch
        /\ (rest = {} /\ \E i \in Ids : ids = {i}) \/ ids = {}
  BY LookUpBegins
<1> DEFINE task == Looked(ids, rest, expires, touch)
<1>2. UNCHANGED <<rules, table, up, guarda, now>> /\ NoteDisturbed
  BY DEF LookUp
<1>3. worker'[w] = task
  BY <1>1, BeginOne
<1>4. /\ worker'[w].pc = "looked" /\ worker'[w].ids = ids /\ worker'[w].todo = {}
      /\ worker'[w].after = "nothing" /\ worker'[w].touch = touch /\ worker'[w].rest = rest
  BY <1>3 DEF Looked, Idle
<1>5. rest \cap Used(rules) = {} /\ \A i \in ids : rules[i].route \in touch
  BY <1>1 DEF FreeIds, Used, RoutesOf
<1>6. TaskShape(worker[w])'
  BY <1>1, <1>2, <1>4, <1>5 DEF TaskShape, Used
<1> HIDE DEF task
<1> QED BY <1>1, <1>2, <1>6, QuietLocal DEF Begin, NoteDisturbed, task

LEMMA UpdateKnownLocal ==
  ASSUME TypeOK, Shape, NEW w \in Worker, NEW i \in Ids, UpdateKnown(w, i)
  PROVE  Local(w) /\ TaskShape(worker[w])' /\ worker'[w].touch \subseteq worker[w].touch
<1>1. /\ worker'[w].pc = "saved" /\ worker'[w].ids = {i} /\ worker'[w].todo = {}
      /\ worker'[w].after = "nothing" /\ worker'[w].rest = {}
      /\ worker'[w].touch = worker[w].touch
      /\ i \in Used(rules) /\ i \in worker[w].ids /\ worker[w].expires \in Times
  BY DEF UpdateKnown, TypeOK, Task, Shape, TaskShape
<1>2. rules[i].route \in worker[w].touch
  BY <1>1 DEF Shape, TaskShape
<1>3. Others(w) /\ UNCHANGED <<table, up, guarda, now, disturbed>>
  BY DEF Others, UpdateKnown, TypeOK
<1>4. /\ \A j \in Ids \ {i} : rules'[j] = rules[j]
      /\ rules'[i].route = rules[i].route
  BY <1>1, ExtendedHas DEF UpdateKnown
<1>5. TaskShape(worker[w])'
  BY <1>1, <1>2, <1>4 DEF TaskShape
<1> QED BY <1>1, <1>2, <1>3, <1>4, <1>5 DEF Local, Concerns, Used

LEMMA StoreLocal ==
  ASSUME TypeOK, Shape, Reserved, NEW w \in Worker, NEW i \in Ids, NEW route \in Route,
         Store(w, i, route)
  PROVE  Local(w) /\ TaskShape(worker[w])'
<1>1. /\ worker'[w].pc = "saved" /\ worker'[w].ids = {i} /\ worker'[w].todo = {}
      /\ worker'[w].after = "nothing" /\ worker'[w].rest = {}
      /\ worker'[w].touch = worker[w].touch /\ route \in worker[w].touch
      /\ i \in worker[w].rest /\ worker[w].pc = "looked" /\ i \notin Used(rules)
  BY DEF Store, TypeOK, Task, Shape, TaskShape
<1>2. \A v \in Worker \ {w} : ~ Refers(worker[v], i)
  BY <1>1 DEF Reserved
<1>3. Others(w) /\ UNCHANGED <<table, up, guarda, now>> /\ disturbed \subseteq disturbed'
  BY DEF Others, Store, TypeOK, NoteDisturbed
<1>4. /\ \A j \in Ids \ {i} : rules'[j] = rules[j]
      /\ rules'[i].route = route
  BY DEF Store, TypeOK
<1>5. TaskShape(worker[w])'
  BY <1>1, <1>4 DEF TaskShape
<1> QED BY <1>1, <1>2, <1>3, <1>4, <1>5 DEF Local, Concerns, Used

\* Requests and calls that begin by reading only.
LEMMA BeginLocal ==
  ASSUME TypeOK, Shape, NEW w \in Worker,
         \/ \E i \in Ids : Delete(w, i)
         \/ \E ids \in SUBSET Ids : GroupDelete(w, ids)
         \/ \E ids \in SUBSET Ids, e \in Times : GroupUpdateSave(w, ids, e)
         \/ WithdrawExpired(w)
         \/ PurgeRead(w)
  PROVE  Local(w) /\ TaskShape(worker[w])'
<1>1. ASSUME NEW i \in Ids, Delete(w, i)
      PROVE  Local(w) /\ TaskShape(worker[w])'
  <2> DEFINE task == [Idle EXCEPT !.pc = "send", !.todo = Sends("withdraw", RoutesOf({i})),
                                  !.ids = {i}, !.after = "delete", !.touch = RoutesOf({i})]
  <2>1. Begin(w, task) /\ UNCHANGED <<rules, table, up, guarda, now>> /\ NoteDisturbed
    BY <1>1 DEF Delete
  <2>2. worker'[w] = task
    BY <2>1, BeginOne
  <2>3. TaskShape(worker[w])'
    BY <2>1, <2>2 DEF TaskShape, Idle, Sends, RoutesOf
  <2> HIDE DEF task
  <2> QED BY <2>1, <2>3, QuietLocal DEF Begin, NoteDisturbed
<1>2. ASSUME NEW ids \in SUBSET Ids, GroupDelete(w, ids)
      PROVE  Local(w) /\ TaskShape(worker[w])'
  <2> DEFINE task == [Idle EXCEPT !.pc = "send", !.rest = ids, !.ids = ids,
                                  !.after = "delete", !.touch = RoutesOf(ids)]
  <2>1. Begin(w, task) /\ UNCHANGED <<rules, table, up, guarda, now>> /\ NoteDisturbed
    BY <1>2 DEF GroupDelete
  <2>2. worker'[w] = task
    BY <2>1, BeginOne
  <2>3. TaskShape(worker[w])'
    BY <2>1, <2>2 DEF TaskShape, Idle, RoutesOf
  <2> HIDE DEF task
  <2> QED BY <2>1, <2>3, QuietLocal DEF Begin, NoteDisturbed
<1>3. ASSUME NEW ids \in SUBSET Ids, NEW e \in Times, GroupUpdateSave(w, ids, e)
      PROVE  Local(w) /\ TaskShape(worker[w])'
  <2> DEFINE task == [Idle EXCEPT !.pc = "send", !.rest = ids, !.expires = e,
                                  !.withdraws = TRUE, !.touch = RoutesOf(ids)]
  <2>1. Begin(w, task) /\ UNCHANGED <<rules, table, up, guarda, now>> /\ NoteDisturbed
    BY <1>3 DEF GroupUpdateSave
  <2>2. worker'[w] = task
    BY <2>1, BeginOne
  <2>3. TaskShape(worker[w])'
    BY <2>1, <2>2 DEF TaskShape, Idle, RoutesOf
  <2> HIDE DEF task
  <2> QED BY <2>1, <2>3, QuietLocal DEF Begin, NoteDisturbed
<1>4. CASE WithdrawExpired(w)
  <2> DEFINE expired == {i \in Used(rules) : /\ rules[i].rstate = Active
                                             /\ rules[i].expires < now}
             task == [Idle EXCEPT !.pc = "send", !.todo = Sends("withdraw", RoutesOf(expired)),
                                  !.ids = expired, !.after = "mark",
                                  !.touch = RoutesOf(expired)]
  <2>1. Begin(w, task) /\ UNCHANGED <<rules, table, up, guarda, now>> /\ NoteDisturbed
    BY <1>4 DEF WithdrawExpired
  <2> HIDE DEF expired
  <2>2. worker'[w] = task
    BY <2>1, BeginOne
  <2>3. TaskShape(worker[w])'
    BY <2>1, <2>2 DEF TaskShape, Idle, Sends, RoutesOf
  <2> HIDE DEF task
  <2> QED BY <2>1, <2>3, QuietLocal DEF Begin, NoteDisturbed
<1>5. CASE PurgeRead(w)
  <2> DEFINE old == {i \in Used(rules) : /\ rules[i].rstate = Withdrawn
                                         /\ rules[i].expires + Retention < now}
             task == [Idle EXCEPT !.pc = "send", !.ids = old, !.after = "delete",
                                  !.touch = RoutesOf(old)]
  <2>1. /\ worker' = [worker EXCEPT ![w] = task]
        /\ UNCHANGED <<rules, table, up, guarda, now>> /\ NoteDisturbed
    BY <1>5 DEF PurgeRead
  <2> HIDE DEF old
  <2>2. worker'[w] = task
    BY <2>1 DEF TypeOK
  <2>3. TaskShape(worker[w])'
    <3>1. /\ worker'[w].pc = "send" /\ worker'[w].ids = old /\ worker'[w].todo = {}
          /\ worker'[w].after = "delete" /\ worker'[w].touch = RoutesOf(old)
          /\ worker'[w].rest = {}
      BY <2>2 DEF Idle
    <3> QED BY <2>1, <3>1 DEF TaskShape, RoutesOf
  <2> HIDE DEF task
  <2> QED BY <2>1, <2>3, QuietLocal DEF NoteDisturbed
<1> QED BY <1>1, <1>2, <1>3, <1>4, <1>5

LEMMA AnnounceAllLocal ==
  ASSUME TypeOK, Shape, NEW w \in Worker, AnnounceAll(w) \/ AnnounceAgain(w)
  PROVE  Local(w) /\ TaskShape(worker[w])'
<1> DEFINE valid == ValidIds
           task == [Idle EXCEPT !.pc = "send", !.touch = RoutesOf(valid),
                                !.todo = Sends("announce", RoutesOf(valid))]
<1>1. Begin(w, task) /\ UNCHANGED <<rules, table, up, now>> /\ NoteDisturbed
  BY DEF AnnounceAll, AnnounceAgain, AnnounceRules
<1>2. worker'[w] = task
  BY <1>1, BeginOne
<1>3. worker'[w].touch = RoutesOf(valid)
  BY <1>2 DEF Idle
<1>4. \A i \in Used(rules) : Valid(rules[i]) => Concerns(w, rules[i].route)
  BY <1>3 DEF Concerns, RoutesOf, ValidIds
<1> HIDE DEF valid
<1>5. TaskShape(worker[w])'
  BY <1>1, <1>2 DEF TaskShape, Idle, Sends, RoutesOf
<1> HIDE DEF task
<1> QED BY <1>1, <1>4, <1>5 DEF Begin, NoteDisturbed, Local, Others, TypeOK, Used

LEMMA RenewLocal ==
  ASSUME TypeOK, NEW w \in Worker, NEW i \in Used(rules), NEW e \in Times, Others(w),
         rules' = Renewed(i, e), UNCHANGED <<table, up, guarda, now>>,
         disturbed \subseteq disturbed', Concerns(w, rules[i].route)
  PROVE  Local(w) /\ i \in Used(rules') /\ rules'[i].route = rules[i].route
<1>1. rules[i] \in Rule /\ i \in Ids
  BY UsedIsRule DEF TypeOK, Table
<1>2. rules'[i] \in Rule /\ rules'[i].route = rules[i].route
  BY <1>1, StateType DEF Renewed, Rule, TypeOK
<1>3. \A j \in Ids \ {i} : rules'[j] = rules[j]
  BY DEF Renewed, TypeOK
<1> QED BY <1>1, <1>2, <1>3, NoRuleAssumption DEF Local, Used

LEMMA ReactivateLocal ==
  ASSUME TypeOK, Shape, NEW w \in Worker, NEW i \in Ids, NEW e \in Times, Reactivate(w, i, e)
  PROVE  Local(w) /\ TaskShape(worker[w])'
<1>1. worker'[w] = [Idle EXCEPT !.pc = "saved", !.ids = {i}, !.withdraws = TRUE,
                                !.touch = RoutesOf({i})]
  BY BeginOne DEF Reactivate
<1>2. /\ worker'[w].pc = "saved" /\ worker'[w].ids = {i} /\ worker'[w].todo = {}
      /\ worker'[w].after = "nothing" /\ worker'[w].touch = {rules[i].route}
      /\ worker'[w].rest = {}
  BY <1>1 DEF Idle, RoutesOf
<1>3. Others(w) /\ Concerns(w, rules[i].route) /\ disturbed \subseteq disturbed'
  BY <1>2 DEF Others, Concerns, Reactivate, Begin, TypeOK, NoteDisturbed
<1>4. Local(w) /\ rules'[i].route = rules[i].route
  BY <1>3, RenewLocal DEF Reactivate
<1> QED BY <1>2, <1>4 DEF TaskShape

\* Steps within a request that change no rule.
LEMMA ContinueQuietLocal ==
  ASSUME TypeOK, Shape, NEW w \in Worker,
         \/ Build(w)
         \/ BuildGone(w) \/ GroupGone(w) \/ Finish(w) \/ MarkGone(w)
         \/ \E i \in Ids : GroupDeleteNext(w, i)
  PROVE  Local(w) /\ TaskShape(worker[w])' /\ worker'[w].touch \subseteq worker[w].touch
<1>1. CASE Build(w)
  <2> DEFINE active == {i \in worker[w].ids : rules[i].rstate = Active}
             others == IF worker[w].withdraws THEN worker[w].ids \ active ELSE {}
             todo == Sends("announce", RoutesOf(active)) \cup Sends("withdraw", RoutesOf(others))
             task == [worker[w] EXCEPT !.pc = "send", !.todo = todo]
  <2>1. /\ worker' = [worker EXCEPT ![w] = task]
        /\ UNCHANGED <<rules, table, up, guarda, now, disturbed>>
    BY <1>1 DEF Build
  <2>2. \A c \in todo : c[2] \in worker[w].touch
    <3>1. \A i \in worker[w].ids : rules[i].route \in worker[w].touch
      BY <1>1 DEF Build, Shape, TaskShape
    <3> QED BY <3>1 DEF Sends, RoutesOf
  <2> HIDE DEF todo
  <2>3. /\ worker'[w].pc = "send" /\ worker'[w].todo = todo
        /\ worker'[w].ids = worker[w].ids /\ worker'[w].rest = worker[w].rest
        /\ worker'[w].after = worker[w].after /\ worker'[w].touch = worker[w].touch
        /\ worker'[w].withdraws = worker[w].withdraws
    BY <2>1 DEF TypeOK, Task
  <2>4. worker[w].pc = "saved" /\ worker[w].after = "nothing"
    BY <1>1 DEF Build, Shape, TaskShape
  <2>5. TaskShape(worker[w])'
    BY <2>1, <2>2, <2>3, <2>4 DEF Shape, TaskShape
  <2> HIDE DEF task
  <2> QED BY <2>1, <2>3, <2>5, QuietLocal
<1>2. CASE BuildGone(w) \/ GroupGone(w) \/ Finish(w) \/ MarkGone(w)
  <2>1. /\ worker' = [worker EXCEPT ![w] = Idle]
        /\ UNCHANGED <<rules, table, up, guarda, now>>
        /\ disturbed \subseteq disturbed'
    BY <1>2 DEF BuildGone, GroupGone, Finish, MarkGone
  <2>2. worker'[w] = Idle /\ Idle.touch = {}
    BY <2>1 DEF TypeOK, Idle
  <2> QED BY <2>1, <2>2, QuietLocal, IdleShape
<1>3. ASSUME NEW i \in Ids, GroupDeleteNext(w, i)
      PROVE  Local(w) /\ TaskShape(worker[w])' /\ worker'[w].touch \subseteq worker[w].touch
  <2> DEFINE todo == Sends("withdraw", RoutesOf({i}))
             task == [worker[w] EXCEPT !.rest = @ \ {i}, !.todo = todo]
  <2>1. /\ worker' = [worker EXCEPT ![w].rest = @ \ {i}, ![w].todo = todo]
        /\ UNCHANGED <<rules, table, up, guarda, now, disturbed>>
        /\ worker[w].pc = "send" /\ worker[w].after = "delete"
    BY <1>3 DEF GroupDeleteNext, AllSent
  <2>2. \A c \in todo : c[2] \in worker[w].touch /\ c[1] = "withdraw"
    <3>1. rules[i].route \in worker[w].touch
      BY <1>3 DEF GroupDeleteNext, Shape, TaskShape
    <3> QED BY <3>1 DEF Sends, RoutesOf
  <2> HIDE DEF todo
  <2>3. /\ worker'[w].pc = "send" /\ worker'[w].todo = todo
        /\ worker'[w].ids = worker[w].ids /\ worker'[w].rest = worker[w].rest \ {i}
        /\ worker'[w].after = worker[w].after /\ worker'[w].touch = worker[w].touch
    BY <2>1 DEF TypeOK, Task
  <2>4. TaskShape(worker[w])'
    BY <2>1, <2>2, <2>3 DEF Shape, TaskShape
  <2>5. worker' = [worker EXCEPT ![w] = task]
    BY <2>1 DEF TypeOK, Task
  <2> HIDE DEF task
  <2> QED BY <2>1, <2>3, <2>4, <2>5, QuietLocal
<1> QED BY <1>1, <1>2, <1>3

LEMMA SendLocal ==
  ASSUME TypeOK, Shape, NEW w \in Worker, NEW c \in Command, Send(w, c)
  PROVE  Local(w) /\ TaskShape(worker[w])' /\ worker'[w].touch \subseteq worker[w].touch
<1>1. /\ worker'[w].todo = worker[w].todo \ {c}
      /\ worker'[w].after = worker[w].after /\ worker'[w].ids = worker[w].ids
      /\ worker'[w].rest = worker[w].rest /\ worker'[w].pc = "send" /\ worker[w].pc = "send"
      /\ worker'[w].touch = worker[w].touch /\ worker'[w].withdraws = worker[w].withdraws
  BY DEF Send, TypeOK, Task
<1>2. UNCHANGED <<rules, up, guarda, now, disturbed>> /\ Others(w)
  BY DEF Send, Others, TypeOK
<1>3. TaskShape(worker[w])'
  BY <1>1, <1>2 DEF Shape, TaskShape
<1>4. c[2] \in worker[w].touch
  BY DEF Send, Shape, TaskShape
<1>5. \A r \in Route : ~ Concerns(w, r) => (r \in table' <=> r \in table)
  BY <1>4 DEF Send, Concerns
<1> QED BY <1>1, <1>2, <1>3, <1>5 DEF Local, Used

LEMMA GroupUpdateNextLocal ==
  ASSUME TypeOK, Shape, NEW w \in Worker, NEW i \in Ids, GroupUpdateNext(w, i)
  PROVE  Local(w) /\ TaskShape(worker[w])' /\ worker'[w].touch \subseteq worker[w].touch
<1>1. /\ worker'[w].pc = "saved" /\ worker'[w].ids = {i} /\ worker'[w].todo = {}
      /\ worker'[w].after = "nothing" /\ worker'[w].rest = worker[w].rest \ {i}
      /\ worker'[w].touch = worker[w].touch /\ worker'[w].withdraws
      /\ i \in Used(rules) /\ worker[w].expires \in Times
  BY DEF GroupUpdateNext, AllSent, TypeOK, Task, Shape, TaskShape
<1>2. \A j \in worker[w].rest : j \in Used(rules) => rules[j].route \in worker[w].touch
  BY DEF Shape, TaskShape
<1>3. Others(w) /\ Concerns(w, rules[i].route) /\ UNCHANGED <<table, up, guarda, now, disturbed>>
  BY <1>1, <1>2 DEF Others, Concerns, GroupUpdateNext, TypeOK
<1>4. Local(w) /\ rules'[i].route = rules[i].route /\ i \in Used(rules')
  BY <1>1, <1>3, RenewLocal DEF GroupUpdateNext
<1>5. \A j \in Ids : j # i => rules'[j] = rules[j]
  BY DEF GroupUpdateNext, Renewed, TypeOK
<1>6. \A j \in {i} \cup worker[w].rest : j \in Used(rules') => rules'[j].route \in worker[w].touch
  BY <1>2, <1>3, <1>4, <1>5, <1>1 DEF Used, Concerns
<1> QED BY <1>1, <1>4, <1>6 DEF TaskShape

\* Deleting and marking concern only rules whose routes the task names.
LEMMA WriteLocal ==
  ASSUME TypeOK, Shape, NEW w \in Worker, FinishDelete(w) \/ Mark(w)
  PROVE  Local(w) /\ TaskShape(worker[w])' /\ worker'[w].touch \subseteq worker[w].touch
<1>1. /\ Others(w) /\ UNCHANGED <<table, up, guarda, now, disturbed>>
      /\ worker'[w] = Idle \/ worker'[w] = [Idle EXCEPT !.pc = "purge"]
  BY DEF FinishDelete, Mark, Others, TypeOK
<1>2. TaskShape(worker[w])' /\ worker'[w].touch = {}
  BY <1>1 DEF TaskShape, Idle
<1>3. \A i \in worker[w].ids : i \in Used(rules) => Concerns(w, rules[i].route)
  BY DEF Concerns, Shape, TaskShape
<1>4. \A i \in Ids : /\ i \notin worker[w].ids => rules'[i] = rules[i]
                     /\ i \in Used(rules') => i \in Used(rules) /\ rules'[i].route = rules[i].route
  <2>1. CASE FinishDelete(w)
    BY <2>1 DEF FinishDelete, RulesWithout, Used
  <2>2. CASE Mark(w)
    BY <2>2, UsedIsRule DEF Mark, Used, Rule, TypeOK, Table
  <2> QED BY <2>1, <2>2
<1>5. \A i \in Ids : rules'[i] # rules[i] =>
        /\ i \in Used(rules) => Concerns(w, rules[i].route)
        /\ i \in Used(rules') => Concerns(w, rules'[i].route)
  BY <1>3, <1>4
<1> QED BY <1>1, <1>2, <1>4, <1>5 DEF Local, Used

WorkerStep(w) ==
  Request(w) \/ Continue(w) \/ AnnounceAll(w) \/ AnnounceAgain(w) \/ WithdrawExpired(w)

LEMMA StepLocal ==
  ASSUME TypeOK, Shape, Reserved, NEW w \in Worker, WorkerStep(w)
  PROVE  Local(w) /\ TaskShape(worker[w])'
BY LookUpLocal, UpdateKnownLocal, StoreLocal, BeginLocal, AnnounceAllLocal, ReactivateLocal,
   ContinueQuietLocal, SendLocal, GroupUpdateNextLocal, WriteLocal
   DEF WorkerStep, Request, Continue

\* Other tasks keep their shape: rules keep their routes, and new rules have ids
\* that no other task refers to.
LEMMA ShapeStep ==
  ASSUME TypeOK, Shape, NEW w \in Worker, Local(w), TaskShape(worker[w])'
  PROVE  Shape'
<1>1. ASSUME NEW v \in Worker \ {w}
      PROVE  TaskShape(worker[v])'
  <2>1. worker'[v] = worker[v] /\ TaskShape(worker[v])
    BY DEF Local, Others, Shape
  <2>2. ASSUME NEW i \in worker[v].ids \cup worker[v].rest, i \in Used(rules')
        PROVE  i \in Used(rules) /\ rules'[i].route = rules[i].route
    BY <2>2 DEF Local, Refers
  <2> QED BY <2>1, <2>2 DEF TaskShape
<1> QED BY <1>1 DEF Shape

\* A task comes to refer to rules there are and to free ids only, and reserves
\* free ones.
Takes(w) ==
  /\ \A i \in Ids : Refers(worker'[w], i) =>
       Refers(worker[w], i) \/ i \in Used(rules) \/ i \in FreeIds
  /\ worker'[w].pc = "looked" => worker'[w].rest \subseteq FreeIds

LEMMA StepTakes ==
  ASSUME TypeOK, Shape, NEW w \in Worker, WorkerStep(w)
  PROVE  Takes(w)
<1>1. ASSUME NEW k \in Key, NEW f \in Fragment, NEW e \in Times, LookUp(w, k, f, e)
      PROVE  Takes(w)
  <2>1. PICK ids \in SUBSET Used(rules), rest \in SUBSET FreeIds, touch \in SUBSET Route :
          Begin(w, Looked(ids, rest, e, touch))
    BY <1>1, LookUpBegins
  <2>2. worker'[w] = Looked(ids, rest, e, touch)
    BY <2>1, BeginOne
  <2>3. worker'[w].ids = ids /\ worker'[w].rest = rest
    BY <2>2 DEF Looked, Idle
  <2> QED BY <2>3 DEF Takes, Refers
<1>2. ASSUME NEW i \in Ids, NEW e \in Times, Reactivate(w, i, e)
      PROVE  Takes(w)
  BY <1>2 DEF Reactivate, Begin, TypeOK, Takes, Refers, Idle
<1>3. ASSUME NEW i \in Ids, Delete(w, i)
      PROVE  Takes(w)
  BY <1>3 DEF Delete, Begin, TypeOK, Takes, Refers, Idle
<1>4. ASSUME NEW ids \in SUBSET Ids, NEW e \in Times,
             GroupDelete(w, ids) \/ GroupUpdateSave(w, ids, e)
      PROVE  Takes(w)
  BY <1>4 DEF GroupDelete, GroupUpdateSave, Begin, TypeOK, Takes, Refers, Idle
<1>5. CASE AnnounceAll(w) \/ AnnounceAgain(w) \/ WithdrawExpired(w) \/ PurgeRead(w)
  <2>1. ASSUME worker'[w].ids \subseteq Used(rules), worker'[w].rest = {},
               worker'[w].pc = "send"
        PROVE  Takes(w)
    BY <2>1 DEF Takes, Refers
  <2>2. CASE AnnounceAll(w) \/ AnnounceAgain(w)
    <3> DEFINE touch == RoutesOf(ValidIds)
               todo == Sends("announce", touch)
    <3>1. worker'[w] = [Idle EXCEPT !.pc = "send", !.touch = touch, !.todo = todo]
      BY <2>2, BeginOne DEF AnnounceAll, AnnounceAgain, AnnounceRules
    <3> HIDE DEF todo
    <3> QED BY <2>1, <3>1 DEF Idle
  <2>3. CASE WithdrawExpired(w)
    <3> DEFINE ids == {i \in Used(rules) : /\ rules[i].rstate = Active
                                           /\ rules[i].expires < now}
               touch == RoutesOf(ids)
               todo == Sends("withdraw", touch)
    <3>1. worker'[w] = [Idle EXCEPT !.pc = "send", !.todo = todo, !.ids = ids,
                                    !.after = "mark", !.touch = touch]
      BY <2>3, BeginOne DEF WithdrawExpired
    <3>2. ids \subseteq Used(rules)
      OBVIOUS
    <3> HIDE DEF ids, touch, todo
    <3> QED BY <2>1, <3>1, <3>2 DEF Idle
  <2>4. CASE PurgeRead(w)
    <3> DEFINE ids == {i \in Used(rules) : /\ rules[i].rstate = Withdrawn
                                           /\ rules[i].expires + Retention < now}
               touch == RoutesOf(ids)
    <3>1. worker'[w] = [Idle EXCEPT !.pc = "send", !.ids = ids, !.after = "delete",
                                    !.touch = touch]
      BY <2>4 DEF PurgeRead, TypeOK
    <3>2. ids \subseteq Used(rules)
      OBVIOUS
    <3> HIDE DEF ids, touch
    <3> QED BY <2>1, <3>1, <3>2 DEF Idle
  <2> QED BY <1>5, <2>2, <2>3, <2>4
<1>6. ASSUME NEW i \in Ids, UpdateKnown(w, i) \/ \E r \in Route : Store(w, i, r)
      PROVE  Takes(w)
  BY <1>6 DEF UpdateKnown, Store, TypeOK, Task, Takes, Refers
<1>7. CASE Build(w)
  <2> DEFINE active == {i \in worker[w].ids : rules[i].rstate = Active}
             others == IF worker[w].withdraws THEN worker[w].ids \ active ELSE {}
             todo == Sends("announce", RoutesOf(active)) \cup Sends("withdraw", RoutesOf(others))
  <2>1. worker' = [worker EXCEPT ![w] = [@ EXCEPT !.pc = "send", !.todo = todo]]
    BY <1>7 DEF Build
  <2> HIDE DEF todo
  <2>2. worker'[w].ids = worker[w].ids /\ worker'[w].rest = worker[w].rest
        /\ worker'[w].pc = "send"
    BY <2>1 DEF TypeOK, Task
  <2> QED BY <2>2 DEF Takes, Refers
<1>9. ASSUME NEW c \in Command, Send(w, c)
      PROVE  Takes(w)
  BY <1>9 DEF Send, TypeOK, Task, Takes, Refers
<1>10. ASSUME NEW i \in Ids, GroupUpdateNext(w, i)
       PROVE  Takes(w)
  BY <1>10 DEF GroupUpdateNext, TypeOK, Task, Takes, Refers
<1>11. ASSUME NEW i \in Ids, GroupDeleteNext(w, i)
       PROVE  Takes(w)
  <2> DEFINE todo == Sends("withdraw", RoutesOf({i}))
  <2>1. worker' = [worker EXCEPT ![w].rest = @ \ {i}, ![w].todo = todo]
        /\ worker[w].pc = "send"
    BY <1>11 DEF GroupDeleteNext, AllSent
  <2> HIDE DEF todo
  <2> QED BY <2>1 DEF TypeOK, Task, Takes, Refers
<1>8. CASE BuildGone(w) \/ GroupGone(w) \/ FinishDelete(w) \/ Finish(w) \/ Mark(w) \/ MarkGone(w)
  BY <1>8 DEF BuildGone, GroupGone, FinishDelete, Finish, Mark, MarkGone, TypeOK, Takes, Refers,
              Idle
<1>12. ASSUME NEW ids \in SUBSET Ids, GroupDelete(w, ids)
       PROVE  Takes(w)
  BY <1>12, <1>4, BoundAssumption DEF Times
<1>13. CASE Request(w)
  BY <1>1, <1>2, <1>3, <1>4, <1>12, <1>13 DEF Request
<1>14. CASE Continue(w)
  BY <1>5, <1>6, <1>7, <1>8, <1>9, <1>10, <1>11, <1>14 DEF Continue
<1> QED BY <1>5, <1>13, <1>14 DEF WorkerStep

LEMMA ReservedStep ==
  ASSUME TypeOK, TypeOK', Shape, Reserved, NEW w \in Worker, Local(w), Takes(w)
  PROVE  Reserved'
<1> SUFFICES ASSUME NEW u \in Worker, worker'[u].pc = "looked", NEW v \in Worker \ {u},
                    NEW i \in worker'[u].rest
             PROVE  ~ Refers(worker'[v], i)
  BY DEF Reserved, Refers
<1>1. i \in Ids
  BY DEF TypeOK, Task
<1>2. CASE u = w
  BY <1>2 DEF Takes, FreeIds, Local, Others, Refers
<1>3. CASE u # w
  <2>1. worker'[u] = worker[u]
    BY <1>3 DEF Local, Others
  <2>2. i \notin Used(rules) /\ i \notin FreeIds /\ ~ Refers(worker[v], i)
    BY <2>1 DEF Shape, TaskShape, FreeIds, Reserved
  <2> QED BY <1>1, <2>2 DEF Takes, Local, Others
<1> QED BY <1>2, <1>3

\* Steps that do not note anything add nothing to be noted.
LEMMA NotedStep ==
  ASSUME TypeOK, Shape, Noted, NEW w \in Worker, WorkerStep(w)
  PROVE  Noted'
<1>1. CASE NoteDisturbed
  BY <1>1 DEF NoteDisturbed, Noted
<1>2. CASE ~ NoteDisturbed
  <2>1. /\ Continue(w) /\ ~ PurgeRead(w)
        /\ ~ (\E i \in Ids, r \in Route : Store(w, i, r))
        /\ Local(w) /\ worker'[w].touch \subseteq worker[w].touch
    <3>1. Continue(w) /\ ~ PurgeRead(w) /\ ~ (\E i \in Ids, r \in Route : Store(w, i, r))
      BY <1>2 DEF WorkerStep, Request, LookUp, Reactivate, Delete, GroupDelete,
                  GroupUpdateSave, AnnounceAll, AnnounceAgain, AnnounceRules,
                  WithdrawExpired, PurgeRead, Store
    <3> QED BY <3>1, UpdateKnownLocal, ContinueQuietLocal, SendLocal, GroupUpdateNextLocal,
            WriteLocal DEF Continue
  <2>2. \A i \in Used(rules') : i \in Used(rules) /\ rules'[i].route = rules[i].route
    <3>1. ASSUME NEW i \in Ids, GroupUpdateNext(w, i)
          PROVE  \A j \in Used(rules') : j \in Used(rules) /\ rules'[j].route = rules[j].route
      <4>1. i \in Used(rules) /\ worker[w].expires \in Times /\ rules' = Renewed(i, worker[w].expires)
        BY <3>1 DEF GroupUpdateNext, TypeOK, Task
      <4>2. rules[i] \in Rule /\ i \in Ids
        BY <4>1, UsedIsRule DEF TypeOK, Table
      <4>3. rules'[i].route = rules[i].route
        BY <4>1, <4>2 DEF Renewed, Rule, TypeOK
      <4> QED BY <4>1, <4>3 DEF Renewed, Used, TypeOK
    <3>2. CASE FinishDelete(w)
      BY <3>2 DEF FinishDelete, RulesWithout, Used
    <3>3. CASE Mark(w)
      BY <3>3, UsedIsRule DEF Mark, Used, Rule, TypeOK, Table
    <3>4. CASE UNCHANGED rules
      BY <3>4
    <3>5. ASSUME NEW i \in Ids, UpdateKnown(w, i)
          PROVE  \A j \in Used(rules') : j \in Used(rules) /\ rules'[j].route = rules[j].route
      <4>1. i \in Used(rules) /\ worker[w].expires \in Times
        BY <3>5 DEF UpdateKnown, TypeOK, Task
      <4> QED BY <3>5, <4>1, ExtendedHas DEF UpdateKnown, Used
    <3> QED BY <2>1, <3>1, <3>2, <3>3, <3>4, <3>5 DEF Continue, Build, BuildGone, Send,
              GroupDeleteNext, GroupGone, Finish, MarkGone
  <2>3. \A v \in Worker : worker'[v].touch \subseteq worker[v].touch
    BY <2>1 DEF Local, Others
  <2>4. Contention(rules', worker') \subseteq Contention(rules, worker)
    BY <2>2, <2>3 DEF Contention
  <2> QED BY <2>1, <2>4 DEF Noted, Local
<1> QED BY <1>1, <1>2

LEMMA NotedUnique ==
  \A r \in Route \ disturbed : Noted => Unique(r)
BY DEF Noted, Unique, Contention, Has

LEMMA NotedUniqueNext == (\A r \in Route \ disturbed : Noted => Unique(r))'
BY NotedUnique, PTL

\* The step of a route's only worker, whichever it is.
LEMMA OneStep ==
  ASSUME NEW w \in Worker, NEW r \in Route, Setting(w, r), Noted', WorkerStep(w)
  PROVE  OneInv(worker[w], r)'
<1>1. CASE Request(w)
  <2>1. ASSUME NEW ids \in SUBSET Ids, GroupDelete(w, ids)
        PROVE  OneInv(worker[w], r)'
    <3>1. 0 \in Times
      BY BoundAssumption DEF Times
    <3> QED BY <2>1, <3>1, GroupOne
  <2> QED BY <1>1, <2>1, LookUpOne, ReactivateOne, DeleteOne, GroupOne DEF Request
<1>2. CASE AnnounceAll(w) \/ AnnounceAgain(w) \/ WithdrawExpired(w)
  BY <1>2, AnnounceAllOne, WithdrawExpiredOne
<1>3. CASE Continue(w)
  BY <1>3, UpdateKnownOne, StoreOne, BuildOne, EndOne, SendOne, GroupDeleteNextOne, GroupUpdateNextOne, FinishDeleteOne,
     MarkOne, PurgeReadOne DEF Continue
<1> QED BY <1>1, <1>2, <1>3 DEF WorkerStep

LEMMA RoutesWorkerStep ==
  ASSUME TypeOK, TypeOK', RoutesInv, NEW w \in Worker, WorkerStep(w)
  PROVE  RoutesInv'
<1>1. Local(w) /\ Shape' /\ Reserved' /\ Noted'
  BY StepLocal, ShapeStep, StepTakes, ReservedStep, NotedStep DEF RoutesInv
<1>2. DownIsEmpty'
  <2>1. up' = up /\ (~up => table' = table)
    <3>1. up' = up
      BY <1>1 DEF Local
    <3>2. ASSUME ~up PROVE table' = table
      BY <3>2 DEF WorkerStep, Request, LookUp, Reactivate, Delete, GroupDelete,
                  GroupUpdateSave, AnnounceAll, AnnounceAgain, AnnounceRules,
                  WithdrawExpired, Continue, UpdateKnown, Store,
                  Build, BuildGone, Send, GroupDeleteNext, GroupUpdateNext, GroupGone, FinishDelete, Finish,
                  Mark, MarkGone, PurgeRead
    <3> QED BY <3>1, <3>2
  <2> QED BY <2>1 DEF RoutesInv, DownIsEmpty
<1>3. ASSUME NEW r \in Route, r \notin disturbed'
      PROVE  RouteInv(r)'
  <2>1. r \notin disturbed /\ RouteInv(r)
    BY <1>1, <1>3 DEF Local, RoutesInv
  <2>2. CASE ~ Concerns(w, r)
    <3>1. \A v \in Worker : \/ worker'[v] = worker[v]
                            \/ r \notin worker[v].touch \cup worker'[v].touch
      BY <1>1, <2>2 DEF Local, Others, Concerns
    <3>2. \A i \in Ids : (Has(i, r) \/ Has(i, r)') => rules'[i] = rules[i]
      BY <1>1, <2>2 DEF Local, Has
    <3>3. /\ r \in table' <=> r \in table
          /\ \A i \in Ids : Has(i, r) /\ Valid(rules[i])' => Valid(rules[i])
      BY <1>1, <2>2, <3>2 DEF Local, Valid
    <3>4. (up' /\ ~guarda') =>
            (up /\ ~guarda) \/ \A i \in Ids : ~ (Has(i, r) /\ Valid(rules[i]))
      BY <1>1, <2>2 DEF Local, Has
    <3> QED BY <1>1, <2>1, <3>1, <3>2, <3>3, <3>4, Untouched DEF RoutesInv
  <2>3. CASE Concerns(w, r)
    <3>1. Alone(w, r) /\ Alone(w, r)'
      <4>1. ASSUME NEW v \in Worker \ {w} PROVE r \notin worker[v].touch
        BY <1>1, <1>3, <2>1, <2>3 DEF RoutesInv, Noted, Contention, Local, Others, Concerns
      <4> QED BY <1>1, <4>1 DEF Alone, Local, Others
    <3>2. Unique(r) /\ Unique(r)'
      BY <1>1, <1>3, <2>1, NotedUnique, NotedUniqueNext DEF RoutesInv
    <3>3. OneInv(worker[w], r)
      BY <2>1, <3>1, RouteIsOne DEF RoutesInv
    <3>4. Setting(w, r)
      BY <1>1, <1>3, <2>3, <3>2, <3>3 DEF Setting, RoutesInv
    <3>5. OneInv(worker[w], r)'
      BY <1>1, <3>4, OneStep
    <3> QED BY <1>1, <3>1, <3>5, OneIsRouteNext DEF OneIsRoute
  <2> QED BY <2>2, <2>3
<1> QED BY <1>1, <1>2, <1>3 DEF RoutesInv

\* ExaBGP and the clock change no rule and no task.
LEMMA RoutesOtherStep ==
  ASSUME TypeOK, TypeOK', RoutesInv, Crash \/ Restart \/ Tick \/ UNCHANGED vars
  PROVE  RoutesInv'
<1>1. UNCHANGED <<rules, worker, disturbed>>
  BY DEF Crash, Restart, Tick, vars
<1>2. Shape' /\ Reserved' /\ Noted'
  BY <1>1 DEF RoutesInv, Shape, TaskShape, Reserved, Noted, Used
<1>3. DownIsEmpty'
  BY DEF RoutesInv, DownIsEmpty, Crash, Restart, Tick, vars
<1>4. ASSUME NEW r \in Route, r \notin disturbed
      PROVE  RouteInv(r)'
  <2>1. RouteInv(r)
    BY <1>4 DEF RoutesInv
  <2>2. CASE Crash
    <3>1. table' = {} /\ up' = FALSE /\ now' = now
      BY <2>2 DEF Crash
    <3>2. \A v \in Worker : TaskInv(worker[v], r)'
      BY <1>1, <2>1, <3>1, SameRules DEF RouteInv, TaskInv, AnnouncesActive, WithdrawsInvalid,
         EndsWithdrawn, MarksExpired, Announces, Withdraws, Valid
    <3> QED BY <3>1, <3>2 DEF RouteInv
  <2>3. CASE Restart \/ Tick \/ UNCHANGED vars
    <3>1. /\ table' = table
          /\ up' /\ ~guarda' => up /\ ~guarda
      BY <2>3 DEF Restart, Tick, vars
    <3>2. ASSUME NEW i \in Ids, Has(i, r), Valid(rules[i])' PROVE Valid(rules[i])
      <4>1. now \in Nat /\ now' \in Nat /\ now' >= now
        BY <2>3, BoundAssumption DEF Restart, Tick, vars, TypeOK
      <4>2. rules[i].expires \in Nat
        BY <3>2, UsedIsRule, BoundAssumption DEF Has, Rule, Times, TypeOK, Table
      <4> QED BY <1>1, <3>2, <4>1, <4>2 DEF Valid
    <3> QED BY <1>1, <1>2, <2>1, <3>1, <3>2, Untouched DEF RoutesInv
  <2> QED BY <2>2, <2>3
<1> QED BY <1>1, <1>2, <1>3, <1>4 DEF RoutesInv

LEMMA RoutesStep ==
  ASSUME TypeOK, RoutesInv, [Next]_vars
  PROVE  RoutesInv'
<1>1. TypeOK'
  BY TypeStep
<1> QED BY <1>1, RoutesWorkerStep, RoutesOtherStep DEF Next, WorkerStep

LEMMA RoutesInit ==
  ASSUME Init
  PROVE  RoutesInv
<1>1. Shape /\ Reserved /\ Noted /\ DownIsEmpty
  BY IdleShape DEF Init, Shape, Reserved, Noted, Contention, Used, DownIsEmpty, Idle
<1>2. ASSUME NEW r \in Route PROVE RouteInv(r)
  BY DEF Init, Idle, RouteInv, TaskInv, AnnouncesActive, WithdrawsInvalid, EndsWithdrawn,
     MarksExpired, Announces, Withdraws, Has, Used
<1> QED BY <1>1, <1>2 DEF RoutesInv

\* The inductive invariant: whatever requests, the cleaning call, Guarda and
\* crashes do, an undisturbed route is as its only rule and its only request say.
THEOREM RoutesHold == Spec => []RoutesInv
<1>1. TypeOK /\ RoutesInv /\ [Next]_vars => RoutesInv'
  BY RoutesStep
<1> QED BY RoutesInit, TypeCorrect, <1>1, PTL DEF Spec

LEMMA QuietInv ==
  ASSUME RoutesInv, NEW r \in Quiet
  PROVE  /\ r \in table => HasActive(r)
         /\ up /\ ~guarda => \A i \in Ids : Has(i, r) /\ Valid(rules[i]) => r \in table
<1>1. RouteInv(r) /\ \A w \in Worker : r \notin worker[w].touch
  BY DEF RoutesInv, Quiet
<1>2. \A w \in Worker : /\ ~ Announces(worker[w], r) /\ ~ Withdraws(worker[w], r)
                        /\ \A i \in worker[w].ids : ~ Has(i, r)
  BY <1>1 DEF RoutesInv, Shape, TaskShape, Announces, Withdraws, Has
<1> QED BY <1>1, <1>2 DEF RouteInv, WillWithdraw, WillAnnounce

\* Crashes of ExaBGP and lost commands included, a valid rule whose route no
\* request concerns and nothing disturbed is announced once Guarda has called
\* announce_all (services/base.py, rule_service.py).
THEOREM ValidStaysAnnounced == Spec => []ValidIsAnnounced
<1>1. TypeOK /\ RoutesInv => ValidIsAnnounced
  BY QuietInv DEF ValidIsAnnounced, Has, Used
<1> QED BY <1>1, RoutesHold, TypeCorrect, PTL

\* No request, however its commands are lost, leaves such a route announced
\* without an active rule.
THEOREM AnnouncedStaysActive == Spec => []AnnouncedIsActive
<1>1. TypeOK /\ RoutesInv => AnnouncedIsActive
  BY QuietInv DEF AnnouncedIsActive, HasActive, Has, Used
<1> QED BY <1>1, RoutesHold, TypeCorrect, PTL
=============================================================================
