--------------------------- MODULE FlowspecRoutes ---------------------------
(***************************************************************************)
(* The flowspec rules of ExaFS, the workers that serve its requests, and   *)
(* the routes ExaBGP announces.                                            *)
(*                                                                         *)
(* Nothing locks a rule.  A request is a database transaction and then     *)
(* commands, or commands and then a transaction; the cleaning call and     *)
(* announce_all read, send, and write.  Here each transaction and each     *)
(* command is a step, so the workers meet in every order.  A command sent  *)
(* while ExaBGP is down is lost; ExaBGP comes back with an empty table and *)
(* Guarda calls announce_all, once.                                        *)
(*                                                                         *)
(* IPv4 and IPv6 rules have tables and handlers of the same form: a Key is *)
(* a rule of either.                                                       *)
(***************************************************************************)
EXTENDS Naturals, FiniteSets

CONSTANTS
  Key,        \* what a rule is looked up by: addresses, ports, protocol, flags,
              \* packet length and action
  Fragment,   \* the fragment flags, in the command but not in the lookup
  Ids,        \* ids of the rule table; how many rules may coexist
  Worker,     \* the processes that serve requests
  MaxTime,    \* bound of the expiration times
  MaxNow,     \* bound of the clock
  Retention,  \* config EXPIRATION_THRESHOLD
  MaxCrashes, \* bound of ExaBGP's crashes
  NoRule      \* what a free id maps to

ASSUME BoundAssumption ==
  /\ MaxTime \in Nat /\ Retention \in Nat /\ MaxCrashes \in Nat
  /\ MaxNow \in 0 .. MaxTime

Times == 0 .. MaxTime

Active == 1
Withdrawn == 2

\* What a command describes.
Route == Key \X Fragment

Rule == [route : Route, rstate : {Active, Withdrawn}, expires : Times]

ASSUME NoRuleAssumption == NoRule \notin Rule

\* Commands are sent in the order of a query; which order does not matter,
\* since the commands of one list are of one kind.
Command == {"announce", "withdraw"} \X Route

VARIABLES
  rules,      \* tables Flowspec4 and Flowspec6
  worker,     \* what each process is doing
  table,      \* the routes ExaBGP announces
  up,         \* ExaBGP runs and takes commands
  guarda,     \* ExaBGP was started and Guarda has not called announce_all yet
  crashes,    \* how often ExaBGP crashed
  now,        \* the clock, in units of the expiration times
  disturbed   \* history: routes that two rules had, that two requests concerned
              \* at the same time, or that a failed group delete withdrew

vars == <<rules, worker, table, up, guarda, crashes, now, disturbed>>

\* pc: idle; looked, the rule was found in ids, or is new and will get the id in
\*   rest; saved, a transaction has stored the rule in ids; send, the commands in
\*   todo are sent one by one; purge, the cleaning call is about to look for old
\*   rules.
\* after: what is done to ids when all commands are sent.
\* rest: the rules a group request has still to treat.
\* expires: the time of a group or create request.
\* withdraws: an inactive rule is withdrawn.
\* touch: the routes the request concerns; of a create request, the route.
Idle == [pc |-> "idle", ids |-> {}, todo |-> {}, after |-> "nothing",
         rest |-> {}, expires |-> 0, withdraws |-> FALSE, touch |-> {}]

Init ==
  /\ rules = [i \in Ids |-> NoRule]
  /\ worker = [w \in Worker |-> Idle]
  /\ table = {}
  /\ up = TRUE
  /\ guarda = FALSE
  /\ crashes = 0
  /\ now = 0
  /\ disturbed = {}

-----------------------------------------------------------------------------

Used(rs) == {i \in Ids : rs[i] # NoRule}

RoutesOf(ids) == {rules[i].route : i \in ids}

\* ids the autoincrement may still hand out: none a process refers to.
FreeIds ==
  {i \in Ids : /\ rules[i] = NoRule
               /\ \A w \in Worker : i \notin worker[w].ids \cup worker[w].rest}

\* Mutant: the state "deleted", which no rule in the table has.
StateDeleted(expires) == IF expires <= now THEN 3 ELSE Active

StateByTime(expires) == IF expires <= now THEN Withdrawn ELSE Active

Valid(rule) == rule.rstate = Active /\ rule.expires >= now

RulesWithout(ids) == [i \in Ids |-> IF i \in ids THEN NoRule ELSE rules[i]]

\* The routes that two rules have or that two requests concern.
Contention(rs, ws) ==
  {r \in Route : \/ \E i, j \in Used(rs) : i # j /\ rs[i].route = r /\ rs[j].route = r
                 \/ \E v, w \in Worker : v # w /\ r \in ws[v].touch \cap ws[w].touch}

\* The history follows the rules and the workers.
NoteDisturbed == disturbed' = disturbed \cup Contention(rules', worker')

Begin(w, task) ==
  /\ worker[w].pc = "idle"
  /\ worker' = [worker EXCEPT ![w] = task]

Sends(kind, rs) == {kind} \X rs

-----------------------------------------------------------------------------
(* Requests. *)

\* The rules taken for the one a form describes: those that are active.
Known(key) == {i \in Used(rules) : /\ rules[i].route[1] = key
                                   /\ rules[i].rstate = Active}

Looked(ids, rest, expires, touch) ==
  [Idle EXCEPT !.pc = "looked", !.ids = ids, !.rest = rest, !.expires = expires,
               !.touch = touch]

\* A create request looks its rule up; a new rule will get a free id.
LookUp(w, key, fragment, expires) ==
  /\ \/ \E i \in Known(key) :
          Begin(w, Looked({i}, {}, expires, RoutesOf({i})))
     \/ /\ Known(key) = {}
        /\ \E i \in FreeIds : Begin(w, Looked({}, {i}, expires, {<<key, fragment>>}))
  /\ UNCHANGED <<rules, table, up, guarda, crashes, now>>
  /\ NoteDisturbed

\* Nothing keeps the answer true until it is used.  A rule that was found gets
\* the new time and keeps its state and its fragment flags, ...
UpdateKnown(w, i) ==
  /\ worker[w].pc = "looked"
  /\ i \in worker[w].ids \cap Used(rules)
  /\ rules' = [rules EXCEPT ![i].expires = worker[w].expires]
  /\ worker' = [worker EXCEPT ![w].pc = "saved"]
  /\ UNCHANGED <<table, up, guarda, crashes, now, disturbed>>

\* ... otherwise a new rule is stored.
Store(w, i, route) ==
  /\ worker[w].pc = "looked"
  /\ i \in worker[w].rest /\ route \in worker[w].touch
  /\ rules' = [rules EXCEPT ![i] = [route |-> route,
                                    rstate |-> StateByTime(worker[w].expires),
                                    expires |-> worker[w].expires]]
  /\ worker' = [worker EXCEPT ![w].pc = "saved", ![w].ids = {i}, ![w].rest = {}]
  /\ UNCHANGED <<table, up, guarda, crashes, now>>
  /\ NoteDisturbed

Renewed(i, expires) ==
  [rules EXCEPT ![i] = [@ EXCEPT !.expires = expires,
                                 !.rstate = StateByTime(expires)]]

Reactivate(w, i, expires) ==
  /\ i \in Used(rules)
  /\ rules' = Renewed(i, expires)
  /\ Begin(w, [Idle EXCEPT !.pc = "saved", !.ids = {i}, !.withdraws = TRUE,
                           !.touch = RoutesOf({i})])
  /\ UNCHANGED <<table, up, guarda, crashes, now>>
  /\ NoteDisturbed

\* Delete, in the web interface and through the API.
Delete(w, i) ==
  /\ i \in Used(rules)
  /\ Begin(w, [Idle EXCEPT !.pc = "send", !.todo = Sends("withdraw", RoutesOf({i})),
                           !.ids = {i}, !.after = "delete", !.touch = RoutesOf({i})])
  /\ UNCHANGED <<rules, table, up, guarda, crashes, now>>
  /\ NoteDisturbed

GroupDelete(w, ids) ==
  /\ ids # {} /\ ids \subseteq Used(rules)
  /\ Begin(w, [Idle EXCEPT !.pc = "send", !.rest = ids, !.ids = ids,
                           !.after = "delete", !.touch = RoutesOf(ids)])
  /\ UNCHANGED <<rules, table, up, guarda, crashes, now>>
  /\ NoteDisturbed

GroupUpdateSave(w, ids, expires) ==
  /\ ids # {} /\ ids \subseteq Used(rules)
  /\ Begin(w, [Idle EXCEPT !.pc = "send", !.rest = ids, !.expires = expires,
                           !.withdraws = TRUE, !.touch = RoutesOf(ids)])
  /\ UNCHANGED <<rules, table, up, guarda, crashes, now>>
  /\ NoteDisturbed

AnnounceRules(w, ids) ==
  /\ Begin(w, [Idle EXCEPT !.pc = "send", !.touch = RoutesOf(ids),
                           !.todo = Sends("announce", RoutesOf(ids))])
  /\ UNCHANGED <<rules, table, up, crashes, now>>
  /\ NoteDisturbed

\* Mutant: a rule that expires right now is left out.
AnnounceAllLater(w) ==
  /\ guarda /\ guarda' = FALSE
  /\ AnnounceRules(w, {i \in Used(rules) : /\ rules[i].rstate = Active
                                           /\ rules[i].expires > now})

ValidIds == {i \in Used(rules) : Valid(rules[i])}

\* announce_all, called by Guarda ...
AnnounceAll(w) ==
  /\ guarda /\ guarda' = FALSE
  /\ AnnounceRules(w, ValidIds)

\* ... or by an administrator's export page, and by hand on the server.
AnnounceAgain(w) ==
  /\ AnnounceRules(w, ValidIds)
  /\ UNCHANGED guarda

\* The cleaning call reads the expired active rules ...
WithdrawExpired(w) ==
  LET expired == {i \in Used(rules) : /\ rules[i].rstate = Active
                                      /\ rules[i].expires < now}
  IN  /\ Begin(w, [Idle EXCEPT !.pc = "send", !.todo = Sends("withdraw", RoutesOf(expired)),
                               !.ids = expired, !.after = "mark",
                               !.touch = RoutesOf(expired)])
      /\ UNCHANGED <<rules, table, up, guarda, crashes, now>>
      /\ NoteDisturbed

-----------------------------------------------------------------------------
(* What follows in the same request. *)

\* The stored rule is read again and decides the command ...
Build(w) ==
  /\ worker[w].pc = "saved"
  /\ worker[w].ids \subseteq Used(rules)
  /\ LET active == {i \in worker[w].ids : rules[i].rstate = Active}
         others == IF worker[w].withdraws THEN worker[w].ids \ active ELSE {}
     IN  worker' = [worker EXCEPT ![w] =
           [@ EXCEPT !.pc = "send",
                     !.todo = Sends("announce", RoutesOf(active))
                                \cup Sends("withdraw", RoutesOf(others))]]
  /\ UNCHANGED <<rules, table, up, guarda, crashes, now, disturbed>>

\* ... or the request fails, because it was deleted since.
BuildGone(w) ==
  /\ worker[w].pc \in {"looked", "saved"}
  /\ ~ (worker[w].ids \subseteq Used(rules))
  /\ worker' = [worker EXCEPT ![w] = Idle]
  /\ UNCHANGED <<rules, table, up, guarda, crashes, now, disturbed>>

\* One command; a failed post is logged, the request goes on.
Send(w, c) ==
  /\ worker[w].pc = "send"
  /\ c \in worker[w].todo
  /\ table' = IF ~up THEN table
              ELSE IF c[1] = "announce" THEN table \cup {c[2]}
              ELSE table \ {c[2]}
  /\ worker' = [worker EXCEPT ![w].todo = @ \ {c}]
  /\ UNCHANGED <<rules, up, guarda, crashes, now, disturbed>>

AllSent(w) == worker[w].pc = "send" /\ worker[w].todo = {}

\* A group delete reads the next rule to withdraw it, ...
GroupDeleteNext(w, i) ==
  /\ AllSent(w) /\ worker[w].after = "delete"
  /\ i \in worker[w].rest \cap Used(rules)
  /\ worker' = [worker EXCEPT ![w].rest = @ \ {i},
                              ![w].todo = Sends("withdraw", RoutesOf({i}))]
  /\ UNCHANGED <<rules, table, up, guarda, crashes, now, disturbed>>

\* ... a group update stores the next rule, ...
GroupUpdateNext(w, i) ==
  /\ AllSent(w) /\ worker[w].after = "nothing"
  /\ i \in worker[w].rest \cap Used(rules)
  /\ rules' = Renewed(i, worker[w].expires)
  /\ worker' = [worker EXCEPT ![w].pc = "saved", ![w].ids = {i}, ![w].rest = @ \ {i}]
  /\ UNCHANGED <<table, up, guarda, crashes, now, disturbed>>

\* ... and both fail at a rule that is gone.
GroupGone(w) ==
  /\ AllSent(w)
  /\ ~ (worker[w].rest \subseteq Used(rules))
  /\ worker' = [worker EXCEPT ![w] = Idle]
  /\ disturbed' = IF worker[w].after = "delete"
                  THEN disturbed \cup worker[w].touch ELSE disturbed
  /\ UNCHANGED <<rules, table, up, guarda, crashes, now>>

\* The end of a request that deletes: by id, whatever the rules are by now.
FinishDelete(w) ==
  /\ AllSent(w) /\ worker[w].rest = {} /\ worker[w].after = "delete"
  /\ rules' = RulesWithout(worker[w].ids)
  /\ worker' = [worker EXCEPT ![w] = Idle]
  /\ UNCHANGED <<table, up, guarda, crashes, now, disturbed>>

Finish(w) ==
  /\ AllSent(w) /\ worker[w].rest = {} /\ worker[w].after = "nothing"
  /\ worker' = [worker EXCEPT ![w] = Idle]
  /\ UNCHANGED <<rules, table, up, guarda, crashes, now, disturbed>>

\* Mutant: the rules that are expired by now are marked.
MarkExpired(w) ==
  /\ AllSent(w) /\ worker[w].after = "mark"
  /\ worker[w].ids \subseteq Used(rules)
  /\ rules' = [i \in Ids |-> IF i \in Used(rules) /\ rules[i].expires < now
                             THEN [rules[i] EXCEPT !.rstate = Withdrawn]
                             ELSE rules[i]]
  /\ worker' = [worker EXCEPT ![w] = [Idle EXCEPT !.pc = "purge"]]
  /\ UNCHANGED <<table, up, guarda, crashes, now, disturbed>>

\* The cleaning call marks the rules it read, ...
Mark(w) ==
  /\ AllSent(w) /\ worker[w].after = "mark"
  /\ worker[w].ids \subseteq Used(rules)
  /\ rules' = [i \in Ids |-> IF i \in worker[w].ids
                             THEN [rules[i] EXCEPT !.rstate = Withdrawn]
                             ELSE rules[i]]
  /\ worker' = [worker EXCEPT ![w] = [Idle EXCEPT !.pc = "purge"]]
  /\ UNCHANGED <<table, up, guarda, crashes, now, disturbed>>

\* ... or none of them and fails, ...
MarkGone(w) ==
  /\ AllSent(w) /\ worker[w].after = "mark"
  /\ ~ (worker[w].ids \subseteq Used(rules))
  /\ worker' = [worker EXCEPT ![w] = Idle]
  /\ UNCHANGED <<rules, table, up, guarda, crashes, now, disturbed>>

\* Mutant: the state is not looked at.
PurgeReadActive(w) ==
  LET old == {i \in Used(rules) : rules[i].expires + Retention < now}
  IN  /\ worker[w].pc = "purge"
      /\ worker' = [worker EXCEPT ![w] =
                      [Idle EXCEPT !.pc = "send", !.ids = old, !.after = "delete",
                                   !.touch = RoutesOf(old)]]
      /\ UNCHANGED <<rules, table, up, guarda, crashes, now>>
      /\ NoteDisturbed

\* ... then reads which rules were withdrawn long ago, to delete them.
PurgeRead(w) ==
  LET old == {i \in Used(rules) : /\ rules[i].rstate = Withdrawn
                                  /\ rules[i].expires + Retention < now}
  IN  /\ worker[w].pc = "purge"
      /\ worker' = [worker EXCEPT ![w] =
                      [Idle EXCEPT !.pc = "send", !.ids = old, !.after = "delete",
                                   !.touch = RoutesOf(old)]]
      /\ UNCHANGED <<rules, table, up, guarda, crashes, now>>
      /\ NoteDisturbed

-----------------------------------------------------------------------------
(* ExaBGP and time. *)

Crash ==
  /\ up /\ crashes < MaxCrashes
  /\ up' = FALSE
  /\ crashes' = crashes + 1
  /\ table' = {}
  /\ guarda' = FALSE
  /\ UNCHANGED <<rules, worker, now, disturbed>>

\* Mutant: Guarda is not started with ExaBGP.
RestartUnguarded ==
  /\ ~up
  /\ up' = TRUE
  /\ UNCHANGED <<rules, worker, table, guarda, crashes, now, disturbed>>

Restart ==
  /\ ~up
  /\ up' = TRUE
  /\ guarda' = TRUE
  /\ UNCHANGED <<rules, worker, table, crashes, now, disturbed>>

Tick ==
  /\ now < MaxNow
  /\ now' = now + 1
  /\ UNCHANGED <<rules, worker, table, up, guarda, crashes, disturbed>>

-----------------------------------------------------------------------------

Request(w) ==
  \/ \E k \in Key, f \in Fragment, e \in Times : LookUp(w, k, f, e)
  \/ \E i \in Ids, e \in Times : Reactivate(w, i, e)
  \/ \E i \in Ids : Delete(w, i)
  \/ \E ids \in SUBSET Ids : GroupDelete(w, ids)
  \/ \E ids \in SUBSET Ids, e \in Times : GroupUpdateSave(w, ids, e)

Continue(w) ==
  \/ \E i \in Ids : UpdateKnown(w, i)
  \/ \E i \in Ids, r \in Route : Store(w, i, r)
  \/ Build(w)
  \/ BuildGone(w)
  \/ \E c \in Command : Send(w, c)
  \/ \E i \in Ids : GroupDeleteNext(w, i)
  \/ \E i \in Ids : GroupUpdateNext(w, i)
  \/ GroupGone(w)
  \/ FinishDelete(w)
  \/ Finish(w)
  \/ Mark(w)
  \/ MarkGone(w)
  \/ PurgeRead(w)

Next ==
  \/ \E w \in Worker : Request(w) \/ Continue(w)
  \/ \E w \in Worker : AnnounceAll(w) \/ AnnounceAgain(w) \/ WithdrawExpired(w)
  \/ Crash
  \/ Restart
  \/ Tick

Spec == Init /\ [][Next]_vars

(***************************************************************************)
(* A request that runs goes on until it ends; ExaBGP is started again, and *)
(* Guarda's call gets its turn among the requests.                         *)
(***************************************************************************)
Fairness ==
  /\ \A w \in Worker : WF_vars(Continue(w))
  /\ WF_vars(Restart)
  /\ SF_vars(\E w \in Worker : AnnounceAll(w))

FairSpec == Spec /\ Fairness

-----------------------------------------------------------------------------
(* Properties. *)

Task ==
  [pc : {"idle", "looked", "saved", "send", "purge"}, ids : SUBSET Ids,
   todo : SUBSET Command, after : {"nothing", "delete", "mark"},
   rest : SUBSET Ids, expires : Times, withdraws : BOOLEAN, touch : SUBSET Route]

TypeOK ==
  /\ rules \in [Ids -> Rule \cup {NoRule}]
  /\ worker \in [Worker -> Task]
  /\ table \subseteq Route
  /\ up \in BOOLEAN /\ guarda \in BOOLEAN
  /\ crashes \in 0 .. MaxCrashes
  /\ now \in 0 .. MaxNow
  /\ disturbed \subseteq Route

\* Routes that no request concerns now and nothing disturbed.
Quiet == {r \in Route \ disturbed : \A w \in Worker : r \notin worker[w].touch}

\* Whatever crashed and was lost meanwhile, a quiet route of a valid rule is
\* announced as soon as Guarda's call has read the rules.
ValidIsAnnounced ==
  up /\ ~guarda =>
    \A i \in Used(rules) :
      Valid(rules[i]) /\ rules[i].route \in Quiet => rules[i].route \in table

\* A quiet route that is announced is the route of an active rule: no request
\* that loses its commands leaves a route without a rule.
AnnouncedIsActive ==
  \A r \in table \cap Quiet :
    \E i \in Used(rules) : rules[i].route = r /\ rules[i].rstate = Active

ActiveRoutes == RoutesOf({i \in Used(rules) : rules[i].rstate = Active})

ValidRoutes == RoutesOf(ValidIds)

Touched == UNION {worker[w].touch : w \in Worker}

Promise == INSTANCE RoutePromise
             WITH Routes <- Route, owned <- ActiveRoutes, due <- ValidRoutes,
                  shown <- table, busy <- Touched, spoilt <- disturbed,
                  repair <- guarda

\* No transaction and no command changes a route outside the requests that
\* concern it, and no request ends before its routes are as the rules say.
KeepsPromise == Promise!Spec

\* A valid rule that a crash took off the network comes back on it.
RestartIsRepaired ==
  \A i \in Ids :
    LET missing == /\ rules[i] # NoRule /\ Valid(rules[i])
                   /\ rules[i].route \notin table \cup disturbed
    IN  missing ~> ~missing
=============================================================================
