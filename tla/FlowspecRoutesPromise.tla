----------------------- MODULE FlowspecRoutesPromise -----------------------
(***************************************************************************)
(* FlowspecRoutes implements RoutePromise, for every value of its          *)
(* constants: the steps of one worker are Work, the clock is Pass.  What a *)
(* step leaves alone is Local of FlowspecRoutesSafety, and that a route is *)
(* right when the last request leaves it is its inductive invariant.       *)
(***************************************************************************)
EXTENDS FlowspecRoutesSafety

\* What the mapped variables are.
SetsAre ==
  TypeOK =>
    /\ ActiveRoutes \subseteq Route /\ ValidRoutes \subseteq ActiveRoutes
    /\ \A r \in Route : /\ r \in ActiveRoutes <=> HasActive(r)
                        /\ r \in ValidRoutes <=> \E i \in Ids : Has(i, r) /\ Valid(rules[i])
    /\ Touched \subseteq Route

LEMMA RouteSets == SetsAre
<1> SUFFICES ASSUME TypeOK
             PROVE  /\ ActiveRoutes \subseteq Route /\ ValidRoutes \subseteq ActiveRoutes
                    /\ \A r \in Route :
                         /\ r \in ActiveRoutes <=> HasActive(r)
                         /\ r \in ValidRoutes <=> \E i \in Ids : Has(i, r) /\ Valid(rules[i])
                    /\ Touched \subseteq Route
  BY DEF SetsAre
<1>1. \A i \in Used(rules) : rules[i].route \in Route
  BY UsedIsRule DEF TypeOK, Table, Rule
<1>2. Touched \subseteq Route
  BY DEF Touched, TypeOK, Task
<1> QED BY <1>1, <1>2 DEF ActiveRoutes, ValidRoutes, ValidIds, RoutesOf, HasActive, Has, Used, Valid

LEMMA RouteSetsNext == SetsAre'
BY RouteSets, PTL

\* A route nobody touches and nothing disturbed is right.
QuietAreRight ==
  TypeOK /\ RoutesInv => \A r \in Route \ (disturbed \cup Touched) : Promise!Right(r)

LEMMA QuietIsRight == QuietAreRight
<1>1. ASSUME TypeOK, NEW r \in Route \ (disturbed \cup Touched) PROVE r \in Quiet
  BY DEF Quiet, Touched
<1> QED BY <1>1, QuietInv, RouteSets DEF QuietAreRight, SetsAre, Promise!Right

LEMMA QuietIsRightNext == QuietAreRight'
BY QuietIsRight, PTL

\* What a worker's step concerns, it or the next one touches.
LEMMA ConcernsTouched ==
  ASSUME NEW w \in Worker, NEW r, Concerns(w, r)
  PROVE  r \in Touched \cup Touched'
BY DEF Concerns, Touched

\* The history grows by routes the worker touches only.
LEMMA DisturbedLocal ==
  ASSUME TypeOK, TypeOK', Noted, NEW w \in Worker, WorkerStep(w), Local(w),
         NEW r \in disturbed' \ disturbed
  PROVE  r \in Touched \cup Touched'
<1>1. \/ disturbed' = disturbed \cup Contention(rules', worker')
      \/ disturbed' = disturbed
      \/ disturbed' \subseteq disturbed \cup worker[w].touch
  BY DEF WorkerStep, Request, LookUp, Reactivate, Delete, GroupDelete, GroupUpdateSave,
         AnnounceAll, AnnounceAgain, AnnounceRules,
         WithdrawExpired, Continue, UpdateKnown, Store, Build, BuildGone, Send,
         GroupDeleteNext, GroupUpdateNext, GroupGone, FinishDelete, Finish, Mark, MarkGone,
         PurgeRead, NoteDisturbed
<1>2. ASSUME r \in Contention(rules', worker') PROVE r \in Touched \cup Touched'
  <2>1. r \notin Contention(rules, worker)
    BY DEF Noted
  <2>2. CASE \E v, u \in Worker : v # u /\ r \in worker'[v].touch \cap worker'[u].touch
    BY <2>2 DEF Touched
  <2>3. CASE \E i, j \in Used(rules') : i # j /\ rules'[i].route = r /\ rules'[j].route = r
    <3>1. PICK i, j \in Used(rules') : i # j /\ rules'[i].route = r /\ rules'[j].route = r
      BY <2>3
    <3>2. rules'[i] # rules[i] \/ rules'[j] # rules[j]
      BY <2>1, <3>1, <1>2 DEF Contention, Used
    <3>3. Concerns(w, r)
      BY <3>1, <3>2 DEF Local, Used
    <3> QED BY <3>3, ConcernsTouched
  <2> QED BY <1>2, <2>2, <2>3 DEF Contention
<1> QED BY <1>1, <1>2 DEF Touched

\* A worker sends only to an ExaBGP that runs, and only announce_all ends a repair.
LEMMA WorkerSends ==
  ASSUME NEW w \in Worker, WorkerStep(w)
  PROVE  /\ table' # table => up
         /\ guarda' # guarda => guarda /\ ~guarda' /\ AnnounceAll(w)
BY DEF WorkerStep, Request, LookUp, Reactivate, Delete, GroupDelete, GroupUpdateSave,
       AnnounceAll, AnnounceAgain, AnnounceRules,
       WithdrawExpired, Continue, UpdateKnown, Store, Build, BuildGone, Send,
       GroupDeleteNext, GroupUpdateNext, GroupGone, FinishDelete, Finish, Mark, MarkGone,
       PurgeRead

LEMMA WorkerWorks ==
  ASSUME TypeOK, TypeOK', RoutesInv, RoutesInv', NEW w \in Worker, WorkerStep(w)
  PROVE  Promise!Work
<1> DEFINE mine == Touched \cup Touched'
<1>1. Local(w)
  BY StepLocal DEF RoutesInv
<1>2. \A r \in Route : Concerns(w, r) => r \in mine
  BY ConcernsTouched
<1>3. ASSUME NEW r \in Route \ mine
      PROVE  /\ r \in ActiveRoutes <=> r \in ActiveRoutes'
             /\ r \in ValidRoutes <=> r \in ValidRoutes'
             /\ r \in table <=> r \in table'
             /\ r \in disturbed <=> r \in disturbed'
  <2>1. ~ Concerns(w, r)
    BY <1>2
  <2>2. \A i \in Ids : (Has(i, r) \/ Has(i, r)') => rules'[i] = rules[i]
    BY <1>1, <2>1 DEF Local, Has
  <2>3. \A i \in Ids : Has(i, r) <=> Has(i, r)'
    BY <2>2 DEF Has, Used
  <2>4. \A i \in Ids : Has(i, r) => (Valid(rules[i])' <=> Valid(rules[i]))
    BY <1>1, <2>2 DEF Local, Valid
  <2>5. /\ r \in ActiveRoutes <=> r \in ActiveRoutes'
        /\ r \in ValidRoutes <=> r \in ValidRoutes'
    BY <2>2, <2>3, <2>4, RouteSets, RouteSetsNext DEF SetsAre, HasActive
  <2>6. r \in table <=> r \in table'
    BY <1>1, <2>1 DEF Local
  <2>7. r \in disturbed <=> r \in disturbed'
    BY <1>1, DisturbedLocal DEF Local, RoutesInv
  <2> QED BY <2>5, <2>6, <2>7
<1>4. \A r : r \in ActiveRoutes \cup ActiveRoutes' \cup table \cup table'
                    \cup disturbed \cup disturbed' => r \in Route
  BY RouteSets, RouteSetsNext DEF SetsAre, TypeOK
<1>5. /\ ValidRoutes \subseteq Route /\ ValidRoutes' \subseteq Route
  BY RouteSets, RouteSetsNext DEF SetsAre
<1>6. /\ Promise!SameOutside(mine, ActiveRoutes, ActiveRoutes')
      /\ Promise!SameOutside(mine, ValidRoutes, ValidRoutes')
      /\ Promise!SameOutside(mine, table, table')
      /\ Promise!SameOutside(mine, disturbed, disturbed')
  BY <1>3, <1>4, <1>5 DEF Promise!SameOutside
<1>7. guarda' = guarda \/ (guarda /\ ~guarda' /\ ValidRoutes \subseteq mine)
  <2>1. CASE guarda' # guarda
    <3>1. AnnounceAll(w) /\ guarda /\ ~guarda'
      BY <2>1, WorkerSends
    <3>2. \A i \in Used(rules) : Valid(rules[i]) => Concerns(w, rules[i].route)
      BY <1>1, <2>1 DEF Local
    <3> QED BY <3>1, <3>2, ConcernsTouched DEF ValidRoutes, ValidIds, RoutesOf
  <2> QED BY <2>1
<1>8. \A r \in Touched \ (Touched' \cup disturbed') : Promise!Right(r)'
  BY QuietIsRightNext, RouteSets DEF QuietAreRight, SetsAre
<1>9. up' = up /\ disturbed \subseteq disturbed' /\ (table' # table => up)
  BY <1>1, WorkerSends DEF Local
<1> QED BY <1>6, <1>7, <1>8, <1>9 DEF Promise!Work

LEMMA OtherSteps ==
  ASSUME TypeOK, TypeOK', Crash \/ Restart \/ Tick
  PROVE  Promise!Crash \/ Promise!Restart \/ Promise!Pass
<1>1. UNCHANGED <<rules, worker, disturbed>>
  BY DEF Crash, Restart, Tick
<1>2. ActiveRoutes' = ActiveRoutes /\ Touched' = Touched
  BY <1>1 DEF ActiveRoutes, RoutesOf, Touched
<1>3. now' = now => ValidRoutes' = ValidRoutes
  BY <1>1 DEF ValidRoutes, ValidIds, RoutesOf, Valid
<1>4. CASE Crash
  BY <1>1, <1>2, <1>3, <1>4 DEF Crash, Promise!Crash
<1>5. CASE Restart
  BY <1>1, <1>2, <1>3, <1>5 DEF Restart, Promise!Restart
<1>6. CASE Tick
  <2>1. ASSUME NEW i \in Used(rules), Valid(rules[i])' PROVE Valid(rules[i])
    <3>1. now \in Nat /\ now' = now + 1
      BY <1>6, BoundAssumption DEF Tick, TypeOK
    <3>2. rules[i].expires \in Nat
      BY UsedIsRule, BoundAssumption DEF Rule, Times, TypeOK, Table
    <3> QED BY <1>1, <2>1, <3>1, <3>2 DEF Valid
  <2>2. ValidRoutes' \subseteq ValidRoutes
    BY <1>1, <2>1 DEF ValidRoutes, ValidIds, RoutesOf
  <2> QED BY <1>1, <1>2, <1>6, <2>2 DEF Tick, Promise!Pass
<1> QED BY <1>4, <1>5, <1>6

\* Transactions, commands, crashes and the clock keep the promise: the web
\* interface, the API, the cleaning call and announce_all together change routes
\* as RoutePromise says (rule_service.py, services/base.py).
THEOREM PromiseIsKept == Spec => KeepsPromise
<1>1. Init => Promise!Init
  BY DEF Init, Promise!Init, ActiveRoutes, ValidRoutes, ValidIds, RoutesOf, Used, Touched, Idle
<1>2. TypeOK /\ TypeOK' /\ RoutesInv /\ RoutesInv' /\ [Next]_vars
        => [Promise!Next]_Promise!vars
  <2>1. CASE UNCHANGED vars
    BY <2>1 DEF vars, Promise!vars, ActiveRoutes, ValidRoutes, ValidIds, RoutesOf, Touched, Valid, Used
  <2> QED BY <2>1, WorkerWorks, OtherSteps DEF Next, WorkerStep, Promise!Next
<1> QED BY <1>1, <1>2, TypeCorrect, RoutesHold, PTL DEF Spec, KeepsPromise, Promise!Spec

\* Nothing but the promise is needed to know that a route is right while nobody
\* works on it.
THEOREM PromiseMakesRight == KeepsPromise => []Promise!AllRight
<1>1. Promise!Init => Promise!AllRight
  BY DEF Promise!Init, Promise!AllRight, Promise!Right
<1>2. Promise!AllRight /\ [Promise!Next]_Promise!vars => Promise!AllRight'
  <2> SUFFICES ASSUME Promise!AllRight, [Promise!Next]_Promise!vars,
                      NEW r \in Route \ (Touched' \cup disturbed')
               PROVE  Promise!Right(r)'
    BY DEF Promise!AllRight
  <2>1. CASE Promise!Work /\ r \in Touched
    BY <2>1 DEF Promise!Work
  <2>2. CASE Promise!Work /\ r \notin Touched
    <3>1. /\ r \in ActiveRoutes <=> r \in ActiveRoutes'
          /\ r \in ValidRoutes <=> r \in ValidRoutes'
          /\ r \in table <=> r \in table'
      BY <2>2 DEF Promise!Work, Promise!SameOutside
    <3>2. Promise!Right(r)
      BY <2>2 DEF Promise!AllRight, Promise!Work
    <3>3. up' = up /\ (guarda' = guarda \/ r \notin ValidRoutes)
      BY <2>2 DEF Promise!Work
    <3> QED BY <3>1, <3>2, <3>3 DEF Promise!Right
  <2>3. CASE Promise!Pass \/ Promise!Crash \/ Promise!Restart \/ UNCHANGED Promise!vars
    BY <2>3 DEF Promise!AllRight, Promise!Right, Promise!Pass, Promise!Crash,
                Promise!Restart, Promise!vars
  <2> QED BY <2>1, <2>2, <2>3 DEF Promise!Next
<1> QED BY <1>1, <1>2, PTL DEF KeepsPromise, Promise!Spec
=============================================================================
