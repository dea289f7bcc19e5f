# ExaFS in TLA+

ExaFS is a Flask application that keeps BGP mitigation rules (RTBH and
flowspec) in a MySQL database and sends them as commands to ExaBGP. This
directory holds its formal models: TLA+ modules translated from the Python
source, TLC configurations that check them on small instances, and TLAPS proofs
of the main properties for all instances. Source paths below are relative to
`src/flowapp/`.

## 1. The system

### Components, their state, their operations

| component | source | state | operations |
|---|---|---|---|
| rule service | `services/rule_service.py` | tables `RTBH`, `flowspec4`, `flowspec6` | create or update a rule, reactivate, delete, delete and whitelist, purge old rules |
| whitelist service | `services/whitelist_service.py`, `services/whitelist_common.py` | tables `whitelist`, `rule_whitelist_cache` | create or update a whitelist and evaluate it on RTBH rules, delete one, delete the expired ones |
| rule views | `views/rules.py`, `views/whitelist.py` | the session entry `group-update` | the forms, group delete, group update, `announce_all`, `withdraw_expired` |
| REST API | `views/api_common.py`, `views/api_v*.py` | none (a JWT for each call) | authorize, create and delete rules, list them |
| announcing | `services/base.py`, `messages.py`, `output.py` | none; the route table is ExaBGP's | build a route command, send it over HTTP or RabbitMQ, announce or withdraw all |
| limits | `models/utils.py` | counts over the rule tables, organization limits | check the organization limit and the global limit before a rule is made |
| models | `models/` | the tables | `__eq__`, `to_form`, `get_by_whitelist_id`, `count_by_rule`, ... |
| network algebra | `services/whitelist_common.py`, `validators.py` | an address cache | relation of two networks, subtraction, ranges |
| flowspec text | `flowspec.py`, `validators.py` | none | port and packet-length expressions to ExaBGP syntax |
| time | `utils/base.py` | none | state by time, rounding to ten minutes, parsing |
| access | `auth.py`, `utils/app_factory.py`, `__init__.py` | the Flask session | login, select organization, roles, which rules a user may touch |
| administration | `views/admin.py`, `views/api_keys.py` | users, organizations, actions, communities, keys | CRUD with dependency checks |
| cron, Guarda, ExaBGP | outside the repository (`docs/`) | ExaBGP's route table | call `withdraw_expired`, call `announce_all` after a restart, obey commands |

### How they interact

A web or API request runs in one worker: a view checks access and limits, calls
a service, the service reads and writes tables with several commits, and builds
route texts with `messages.py` that `output.py` posts to ExaBGP one by one. The
cleaning endpoint (`withdraw_expired`) is the same code in another worker,
started by cron: it deletes expired whitelists, withdraws the expired active
rules, marks them withdrawn, and purges what expired long ago. Nothing locks: a
request and the cleaning call share only the database, in which each commit is
visible to the next query of the other. ExaBGP has no link back: its table is
right only if each change in the database was followed by the right command.

Whitelists tie the tables together. A whitelist that meets an RTBH rule puts it
into state 4 (whitelisted); if the whitelist lies inside the rule, the rule is
split: the parts outside the whitelist become rules of their own. The table
`rule_whitelist_cache` has one row for each rule whitelisted (origin USER) and
each part created (origin WHITELIST), and is all that deleting a whitelist looks
at to decide which rules to reactivate and which to delete.

### What is hard

- the cleaning call reads a list, then sends commands, then writes, in several
  commits: requests that renew, extend, delete or re-create a rule or a whitelist in
  between are overwritten, or make the call fail; so does the deletion of a whitelist
  by a user, which announces before its first commit and has two;
- the same rule may be touched by several whitelists, matched several times, or
  deleted by paths (API, group delete) that leave its cache rows;
- the database and ExaBGP have to agree, but each handler sends its own commands,
  some handlers none, and two rules may have the same prefix;
- commands are lost when the HTTP service is down, and a request that fails in
  the middle (group delete, RabbitMQ) has already sent some;
- limits are checked before the rule is stored;
- everything depends on comparisons of times with different roundings.

### What makes each component correct

- rule service: an active rule that has not expired is announced; a deleted or
  expired rule is not; a rule keeps the state its time implies;
- whitelist service: no active rule of the whitelisted communities overlaps a
  whitelist just created; nothing of the rule outside the whitelist is lost;
  deleting one of two whitelists does not bring the rule back; parts never stay
  without the row by which they are deleted; cache rows are about the right
  rules;
- cleaning: what has expired is withdrawn in the end; only what has expired is;
- announcing: ExaBGP's table follows the database up to lost commands, and
  `announce_all` repairs the loss of announcements;
- limits: the number of active rules does not pass the limit;
- access: a rule is deleted only by its owner's token, by a user whose ranges have
  it, by an administrator, or with the whitelist that made it; it counts for an
  organization its user belongs to;
- administration: a row that others refer to is not deleted.

## 2. The modules

| module | what it is |
|---|---|
| `RtbhWhitelist` | RTBH rules, whitelists, cache table, announced prefixes, the cleaning call |
| `MCRtbhWhitelist` | address spaces and a reduced next-state relation for TLC |
| `RtbhWhitelistProofs`, `...Safety`, `...Routes` | types; the tables; active rules are announced, and what no step does |
| `FlowspecRoutes` | flowspec rules, the workers that serve requests statement by statement, ExaBGP that crashes and restarts, Guarda |
| `MCFlowspecRoutes` | symmetry and the cut of the state space for TLC |
| `FlowspecRoutesSafety` | types; the two route invariants |
| `RoutePromise` | the abstract specification: what is promised of a route |
| `FlowspecRoutesPromise` | `FlowspecRoutes` implements it, and what follows from it |
| `RuleLimits`, `MCRuleLimits` | the limit checks, lookup and store, by several workers |
| `RuleLimitsProofs` | how far limits are exceeded |
| `Neighbors`, `MCNeighbors` | RTBH commands: neighbors, communities, AS paths, HTTP and RabbitMQ |
| `NeighborsProofs` | types, communities, what each neighbor has |
| `Access`, `MCAccess` | users, organizations, sessions, keys, tokens |
| `AccessProofs` | types, owners, who deletes |

The specifications look at the system from several sides, each with the detail its
question needs. `RtbhWhitelist` has the tables that whitelists tie together, with
each request one step and commands that arrive. `FlowspecRoutes` has rules that
nothing ties together, with each transaction and each command one step and commands
that are lost. `RuleLimits` has the queries before a rule is stored, `Neighbors` what
a command says and to whom, `Access` on whose behalf it is sent. They share the rules
and handlers, not variables: what one leaves out is named in its header, and the
others put no restriction on it.

### `RtbhWhitelist`

State and code:

- `rtbh`: table `RTBH`, a rule for each used id: network, community, `rstate`
  (1 active, 2 withdrawn, 4 whitelisted), expiration. `origin` is a ghost: it
  repeats what the cache row says of the rule when the rule is created; no action
  reads it.
- `whitelist`: table `whitelist`, by network; the code looks a whitelist up by
  its network too. `cache`: `rule_whitelist_cache` as a bag of rows
  `<<rid, whitelist, origin>>`: equal rows do occur, since a rule that is updated
  is matched again.
- `bgp`: the prefixes ExaBGP announces. A withdraw command names a prefix, so two
  rules that share one (with different communities) lose it together.
- `call`: the call that is followed step by step, a cleaning call or a user's
  deletion of a whitelist: its program counter `pc`, the whitelists it has listed and
  not deleted (`wls`, `stale` when one of them has gone), the one in hand (`wl`), the
  rules it read, to update (`ids`) and to delete (`drop`), the commands it has still
  to send (`routes`).
- `now`: the clock. `disturbed`, `strayed`: history variables, see below.

Networks are sets of addresses, with the one property of CIDR blocks that the
code depends on (nested or disjoint). `SubtractNetwork`, which the code computes
bit by bit, is defined by what it returns: the maximal blocks outside the
whitelist.

Actions: one for each request (`CreateOrUpdateRtbh`, `ReactivateRtbh`,
`DeleteRule`, `ApiDeleteRule`, `GroupDelete`, `GroupDeleteAborted`,
`GroupUpdateSave`, `AnnounceAll`, `CreateOrUpdateWhitelist`,
`DeleteRtbhAndCreateWhitelist`, `DeleteWhitelist`), which is one step with all it
does: matching against whitelists, splitting, cache rows, commands; and `Tick`.

One call at a time is followed step by step, and requests run between any two steps.
It is split at each read, command and commit:

- deleting a whitelist (`whitelist_service.py:137-198`), by a user
  (`RequestReadWhitelist`) or for the cleaning call (`CronReadWhitelist`): the rows
  are read and counted (`ReadRows`); the rules to restore are announced one by one,
  before any commit (`RestoreRoute`); the first commit, inside
  `clean_by_whitelist_id`, stores the restored rules, deletes the parts and takes the
  rows the whitelist has by then (`ClearRows`), or the call fails because a rule it
  was to update has gone (`RestoredRuleGone`); the second commit deletes the
  whitelist, and rows it was given since lose it (`DropWhitelist`, NULL in the
  column). A whitelist that somebody else deleted makes the call fail
  (`WhitelistGone`). `DeleteWhitelist` is the same request with nothing in between,
  for a user's deletion while another call runs.
- the cleaning call: `CronStart` lists the expired whitelists, which are then deleted
  as above; `CronReadExpired` reads the expired rules, `CronWithdraw` sends one
  command, `CronMark` commits or `CronMarkGone` fails; `CronReadOld` reads the ids of
  old rules, `CronPurgeRows` deletes the cache rows of one id, a commit each,
  `CronPurgeRules` deletes the rules by id, and the rows of purged flowspec ids
  follow (`CronPurgeRows` again), `CronEnd`.

`GroupDeleteAborted` is the request of an administrator whose page still lists a
rule that is gone: the loop in `views/rules.py:321-330` has withdrawn some rules
when it meets the missing one, and the request ends with an error.

Abstractions, and why they are sound for the properties: comments, users,
logging and session messages play no part in any guard (who may call what is
left to `Access`). Requests are atomic, except the one that is followed, so the
interleaving of two web requests is covered here only when one of them deletes a
whitelist; `FlowspecRoutes` has it for rules without whitelists. A query sees what is
committed; row locks, by which the database may make a request wait for the call,
would only take interleavings away. The cleaning call lists whitelists by the clock
of the database (`db.func.now()`, `whitelist_service.py:130`) and all else is
compared with the application's (`datetime.now()`): the model has one clock. Ids
that a cache row, the running call or the history refers to are not handed out again
(MySQL's autoincrement). Commands reach ExaBGP: losing them is the subject of
`FlowspecRoutes`. Expiration times are those the handlers see: the form field of
the web pages and of the API has rounded them already (`parse_api_time`), so that
the handlers' own rounding changes nothing; the limit checks, which only refuse
requests, are left out. Deleting a listed whitelist makes the running cleaning call
fail, at any later point before the list ends: the loaded row is expired by the
commit, and reading it again raises. Rules and
whitelists are IPv4: IPv6 ones are handled in the same way, except for their parts
(a known deviation, below).

### `disturbed` and `strayed` in `RtbhWhitelist`

Some prefixes and rules are beyond any promise. These are real behaviours of the
code, listed as hazards; two history variables record where they happened, so that
the properties can say that nothing else goes wrong.

`disturbed` has prefixes: two rules have the same one and one is withdrawn; a group
delete failed after some commands; the cleaning call withdraws a route it read before
the rule was renewed; a request withdraws a route while a whitelist's deletion is
between reading and storing the rule as active, so that the rule ends up active and
not announced. `ActiveIsAnnounced` is about all other prefixes.

`strayed` has ids of rules: a request added a row for the rule, or renewed it, after
the call read what it then writes without looking again (`AddedMeanwhile`,
`RenewedMeanwhile`); or a flowspec purge took rows of it by number. Rows that have
lost their whitelist, a part without its row, a rule put back on the network under a
second whitelist, a renewed rule that is purged: each of these properties allows the
strayed rules that one thing and no more.

Neither grows from a comparison of a rule's state with `bgp`, or of rows with
whitelists, so no property excuses itself.

### `FlowspecRoutes`

State and code:

- `rules`: tables `flowspec4` and `flowspec6`; the two have handlers of the same
  form. A rule's `route` is what a command describes; its first part, the key, is
  what `models/utils.py:88-143` compares (the fragment flags are not compared).
- `worker`: what each process is doing. `pc` names the place: `looked` (a create
  request has its answer from the lookup), `saved` (committed, not yet announced),
  `send` (commands left in `todo`), `purge` (the cleaning call between marking and
  purging). `ids` are the rules the request holds, `rest` those a group request has
  still to treat, or the id a new rule will get.
- `table`: the routes ExaBGP announces; `up`: it takes commands; `guarda`: Guarda
  has still to call `announce_all` for the last restart.

Actions. A request begins with one of `LookUp`, `Reactivate`, `Delete`,
`GroupDelete`, `GroupUpdateSave`; `AnnounceAll` (by Guarda, after a restart) and
`WithdrawExpired` are the two calls from outside, and `AnnounceAgain` is the same as
the first from the administrators' export page (`views/rules.py:711`) or by hand on
the server, at any time. What follows in the same request are the actions of
`Continue`: `UpdateKnown` or `Store` after a lookup, `Build` (the committed rule is
read again and decides the command), `Send` (one command, lost while ExaBGP is
down), the steps of the loops of group requests, `FinishDelete`, `Mark`,
`PurgeRead`. `BuildGone`, `GroupGone` and `MarkGone` are the requests that fail at
a rule deleted by someone else. `Crash` empties the table, `Restart` brings ExaBGP
back and starts Guarda, which calls once.

Abstractions: the transport is HTTP, the default (`output.py:55-68`): a failed post
is logged and the request goes on. Commands of one query are sent in any order,
since they are of one kind. A post that is lost while ExaBGP is up is left out:
nothing in the code repairs it. Ids are not used again while a process refers to
them. Limits, users and permissions are left out.

`disturbed` holds here the routes that two rules had at once (only active rules
are looked up, so storing a withdrawn rule again makes a twin), that two requests
concerned at once (the later command wins, whatever the database says), and that a
failed group delete withdrew. What becomes of them is a hazard of the code, listed
in `PROJECT.json`; the properties are about all other routes. What disturbs a route
is a fact about rules and requests, never about the table.

### `RoutePromise`

What ExaFS promises of routes, without rules, workers or commands: a route has an
owner (an active rule), is due (its time has not passed), is shown, is being worked
on, or is spoilt. It changes only while somebody works on it, and nobody leaves it
before it is right: shown only if owned, and shown if due. A crash takes all routes;
who clears `repair` works on all that are due. `FlowspecRoutes` maps to it with
`owned` the routes of active rules, `busy` the union of the workers' `touch`,
`spoilt` the history `disturbed`, and `repair` Guarda's call.

### `RuleLimits`

- `rules`: table `flowspec4` (the IPv6 rules have tables and handlers of the same
  form): organization, key, state. `limit`: column `limit_flowspec4`. `worker`: how
  far a create request or a group update is. `checked` and `peak` are history: the
  rule is active because a create request stored it so; the highest limit there was.
- `CheckGlobal`, `CheckOrg`, `LookUp`, `Store` are the four queries of a create
  request (`views/rules.py:513-604`, `views/api_common.py:227-313`,
  `services/rule_service.py:142-270`), each a step, since nothing is locked. The
  order of the checks is that of the code, the global one first.
- `Reactivate` and `GroupUpdateNext` ask the same questions with the number of the
  rule type, which equals no member of `RuleTypes`: no limit applies to them.
- `Delete`, `Expire`, `EditOrganization` are the other requests, as far as they
  concern counts.

### `Neighbors`

- `rules`: table `RTBH`, with its community; `communities`, `as_path`: the rows the
  administrator edits; `exa_api`: HTTP or RabbitMQ; `table`: for each neighbor the
  route it has of each net, with its attributes.
- A command is made from the rule and its community as they are now
  (`messages.py:59-133`): the community decides the neighbors (`Targets`) and the
  attributes. `Announce` and `Withdraw` change the table of those neighbors only.
- With HTTP a command is lost while ExaBGP is down, and the request goes on. With
  RabbitMQ it waits in the queue, but a publish that fails ends the request: `sent`
  is the part of the commands that were taken before that.
- `loose` is history, like `disturbed` elsewhere: nets whose community or AS path was
  edited under an active rule, that two rules have, that a known rule left when it
  was saved with a past time, or whose publish failed. It says what happened, never
  what the table has. A restart of ExaBGP with HTTP clears it, since everything is
  announced anew.

Requests are one step here, one at a time, without whitelists.

### `Access`

- `users` (with the highest role, as `level`, and the memberships), `orgs` (with the
  range), `keys` (of both tables), `rules` (the four tables as one: kind, owner,
  organization, the networks named), `made` (the rows of `rule_whitelist_cache` with
  origin WHITELIST: which whitelist made which part). `session` and `keylist` are one browser's session and
  cookie, `token` one API client's token.
- The administration pages are `InsertUser` (also the bulk import), `EditUser`,
  `DeleteUser`, `AddOrganization`, `EditOrganization`, `DeleteOrganization`,
  `AddMachineKey`, `DeleteMachineKey`; what the database refuses (a row another row
  refers to) is their guard. The administrators' own sessions are left out.
- `Login` fills the session over what an earlier login left: roles and user always,
  the organization only for a user of exactly one (`utils/app_factory.py:176-220`).
  `select_org`, `Logout`, `ListKeys`, `AddKey`, `DeleteKey`, `authorize` are the
  other pages.
- `CreateRule`, `DeleteRules`, `delete_whitelist`, `delete_rtbh_and_create_whitelist`,
  `StoreAgain` (a rule or whitelist gets a new time), `ApiCreateRule`,
  `ApiDeleteRule` are the requests: ranges are read from the database, roles from the
  session or the token. The pages delete by range, the API by owner.
- A rule stored beside a whitelist inside it, or a whitelist stored inside a rule,
  may split the rule (`SplitWith`): the parts carry the user and the organization of
  the rule (`whitelist_common.py:225-236`), whoever stored the whitelist. When the
  whitelist is deleted they go with it (`PartsOf`, `whitelist_service.py:162-167`),
  whoever deletes it: the page looks at the right to the whitelist only. Which parts
  there are and when is the business of `RtbhWhitelist`; here any may come. The
  cleaning call, which deletes expired whitelists for nobody in particular, is not in
  this module.
- `Valid` is what the three forms ask of the networks (`forms/rules/base.py:100`,
  `forms/rules/rtbh.py:96`, `forms/rules/whitelist.py:60`), `Filtered` what the lists
  of rules a user may delete ask of them (`validators.py:8`, `:50`). The two differ:
  of an RTBH rule the form looks at the address only, and a whitelist has no column
  `source`, so that all whitelists are in everybody's list: the right to a whitelist
  is to have a session that may edit. `DeletedByRight` says so, and that going with
  its whitelist is the one way a rule is deleted by somebody who has no right to it.
- `joined`, `kept` and `admins` are history: memberships there ever were, pairs of a
  user and the organization another login left, users that ever were administrators.

Read-only tokens, which change nothing, are left out. Foreign keys are checked
(MySQL); ids are not given again.

## 3. The checks

| run | specification | what it shows |
|---|---|---|
| `rtbh` | all requests on a block and its halves, 2 rules, 1 whitelist, among the steps of the cleaning call or of a whitelist's deletion, flowspec purges, clock 0..1 | types, routes, cache rows and parts, splits and withdrawals under all interleavings with the call |
| `rtbh_quarters` | rules and whitelists made and deleted, blocks, halves and quarters, 4 rules, 2 nested whitelists | splits into parts of different size, a whitelist that outlives another |
| `rtbh_live` | everything but flowspec purges, 1 rule, 2 nested whitelists, 2 communities, clock 0..1, with fairness | deleting one of two whitelists does not free the rule, whoever deletes it and whatever comes in between; active rules are announced; other communities are left alone; expired rules and whitelists do not stay |
| `flowspec` | 2 workers, 2 routes, 2 rules, clock 0..1, one crash | types; whatever order requests, calls, lost commands and the crash come in, undisturbed routes are those of the rules; the refinement of `RoutePromise` |
| `flowspec_live` | 2 workers, 1 rule, two fragment forms, 2 crashes, with fairness | a valid rule a crash took off the network comes back |
| `rule_limits` | 2 workers, 2 organizations, 2 keys, 3 rules, limits 0 and 1, global limit 2 | limits are exceeded by less than the number of workers; twins are at most as many |
| `neighbors` | 2 neighbors, 2 nets, 2 rules, 2 communities of 3 kinds, both transports | each neighbor has the routes and attributes of the rules, nets in `loose` apart; communities in use stay; withdrawals come before deletions |
| `access` | 2 users, 2 organizations with or without a range, 3 rules (a rule, a whitelist, parts), in the range, wider or outside, 1 key, roles user and admin, 2 changes by administrators from any consistent start | owners exist and belong, those of parts too; rules are deleted by right, or with their whitelist |

The modules state each property in words. Every one is violated by a mutant of the
code's definitions that `PROJECT.json` lists.

Bounds. Two rules are what it takes for a rule and its part, or for two rules
with one prefix; three for a split into two parts, four for another rule beside them. Two nested networks give all
relations (equal, supernet, subnet, disjoint). Expirations 0 and 1 against a
clock of 0 or 1 give past, present and future. `rtbh_quarters` has no clock and no
cleaning call (`SplitSpec`), and its whitelists are not stored with a time that has passed:
its question is geometry. `MaxRows` and `MaxCopies` bound the
cache table: different rows, and equal rows for one rule and whitelist (one, in all
runs: a second match by the same whitelist is cut off, and `count_by_rule` differs
from 1 by the rows of two whitelists); the bounds only cut off requests that would go
beyond, and the proofs hold for all of them. `FlowIds` are ids under which the flowspec
tables purge rules: all, in `rtbh`; none in `rtbh_quarters`, which has no cleaning call,
and in `rtbh_live`, which is not about parts.
`rtbh_live` has no symmetry. `rtbh` does not continue states with a second whitelist,
or with more than one disturbed prefix or strayed rule (`FewAtOnce`): of those the
properties say little or nothing, and two whitelists of one rule, deleted step by step, are in
`rtbh_live`; the proofs have no such bound. `CHECK_DEADLOCK` is off in the RTBH runs:
once the clock is at its bound and no id is free, an instance may have no step left.

In `flowspec` two workers are enough for every race of two requests, and two rules
for twins and for groups. Ids, workers and keys are interchangeable; states in which
every route is disturbed are not continued (`SomeUndisturbed`), since the history
never shrinks and the invariants say nothing of disturbed routes. `flowspec_live`
has neither symmetry nor cut, and two crashes, so that one may come while the first
is being repaired. Deadlock is checked in both: requests are always possible.

In `rule_limits` two workers exceed a limit of one by one, which is what the bound
allows; three rules leave room for one more, which it forbids, and for twins. In
`neighbors` one value of `comm` has neighbors of its own, one has the primary ones,
and the empty value names none and so all; states in which both nets are loose are
not continued (`SomeFirm`), since then nothing is claimed. With one net firm, all
that can happen to it still does, restarts included, and a net that is loose again
becomes firm at a restart. In `access` the start is any set of users and
organizations, so that two changes (a membership and a role, a deletion and another
membership) reach what matters: what was true at a login or when a token was given
is no longer; the role "view", which changes nothing, is left out of the instance. A
rule and a key are not kept at once (`RulesOrKeys`), nor, once there is a rule or a
change, a session and a token (`OneClient`): what one client leaves in the tables the
other finds, and a token outlives its key. Several rules are kept only if they are one
RTBH rule, one whitelist and parts, and the administrators made no change (`FewRules`):
otherwise the properties look at one rule at a time. A range, a network that begins in it and is
wider, and what is left of this give all that the forms and lists tell apart, and a
part that nobody's range has; other tables than that of RTBH rules do without this last
network (`RestIsPart`).

Fairness. In `flowspec_live`, a request that runs goes on (`WF` of `Continue` for
each worker: it is straight-line code), ExaBGP is started again (`WF` of `Restart`:
its service manager), and Guarda's call gets its turn (`SF`: the call waits for a
worker, and all workers may be busy again and again). Requests themselves are never
assumed. In `rtbh_live`, cron calls the endpoint for ever and a running call goes on
(`WF_vars(CallStep)`). A call fails when a listed row is deleted before it is
written, and starts again at the next cron period: that this does not happen in
every call is the strong fairness of `CronMark` and of `DropsOneOf(n)` (of the
calls with `n` listed whitelists left and none of them missing, some come to the next
one before a user deletes it; without it two whitelists that users make and delete
for ever keep the call from the rules, which TLC shows), an
assumption on the users, named in the module. Nothing is assumed of requests.

Violations, each a statement of the documentation, a comment or a test that the
code does not keep:

| run | statement | what happens |
|---|---|---|
| `v_reactivate` | "Set again the active state, if the rule is not whitelisted RTBH" | the RTBH branch never sets the state: a withdrawn rule with a new time stays withdrawn; no other request does this (theorem `OnlyReactivationKeepsWithdrawn`) |
| `v_split` | "whitelisted rule, do not announce later" | a new whitelist inside a rule leaves the rule's route announced |
| `v_cleaning` | "Withdraws all expired routes" | a rule renewed during the call is marked withdrawn |
| `v_limit` | "Check global limit" | reactivation and group update ask with a number: no limit applies |

### Known deviations

Met while modelling, in the models as the code has them unless said otherwise, and not
runs of their own:

- an IPv6 part of a rule is not in the model: `create_rtbh_from_whitelist_parts`
  (`whitelist_common.py:224`) stores it in the IPv4 columns and keeps the IPv6 columns
  of the rule, so that the command for the part announces the whole rule again;
- the form accepts an RTBH rule that is wider than the ranges of its user, of which only
  the address is looked at (`forms/rules/rtbh.py:96`), and then the user may not delete
  it on the pages; the same holds of a flowspec rule without networks;
- a user who is no administrator may delete every whitelist, since whitelists have no
  `source` (`validators.py:20`, though `auth.py:143` says "returns only rules within
  their network ranges"); and one without ranges may make any
  (`forms/rules/whitelist.py:60`);
- a part made for one whitelist may cover another whitelist of the same rule: parts
  are not evaluated again (`rule_service.py:367`; compare
  `tests/test_api_whitelist_integration.py:101`);
- deleting a whitelist deletes the parts it created and sends no withdraw for them
  (`whitelist_service.py:167`);
- a restored rule is announced before the restoration is stored
  (`whitelist_service.py:185`, commits at `models/rules/whitelist.py:136` and
  `whitelist_service.py:193`), from a count of rows made earlier (`:153`): a whitelist
  stored in between withdraws the rule, which is then committed as active and is not
  announced, or stays on the network under the new whitelist (in `disturbed`,
  `strayed`); a request that fails there leaves the announcement;
- of two whitelists of a rule that are deleted at the same time, each counts the
  other's row: the rule stays whitelisted with no row left;
- a request that extends a whitelist between the two commits of its deletion adds
  rows that then refer to no whitelist (`whitelist_id` is NULL), and the whitelist is
  gone;
- the purge deletes by the ids it read (`rule_service.py:584`): a rule renewed since
  is deleted and its route stays (`DeletedRuleIsWithdrawn` allows this alone);
- deleting a whitelist deletes the parts it made of other users' and organizations'
  rules, for every session that may edit (`views/whitelist.py:119`,
  `whitelist_service.py:162-167`);
- expired whitelists are found by the database's clock (`whitelist_service.py:130`),
  everything else by the application's: where they differ, a whitelist goes early or
  late;
- a withdrawn flowspec rule is not found by the lookup (`models/utils.py:107`) and is
  stored again; reactivating the old one makes two active twins with one worker
  (`TwinsBounded` counts those that create requests stored);
- a rule matched twice by one whitelist has two cache rows, so that deleting the
  whitelist leaves it whitelisted without a whitelist (`whitelist_service.py:173`);
- a known RTBH rule saved with a past time is withdrawn in the database only
  (`rule_service.py:297`);
- editing a community under an active rule sends nothing, and the later withdraw goes
  to the neighbors of the new value (`messages.py:93`);
- an organization that only has users is deleted with its memberships, though the
  message at `views/admin.py:407` says it can not be; a failed delete is followed by a
  second commit without a rollback (`:411`), which raises;
- a limit field left empty is stored as NULL, and then every create request of the
  organization fails at the comparison (`models/utils.py:34`);
- a web create request that meets a limit redirects with the enumeration member in
  the URL, and the limit page then fails to convert it (`views/rules.py:607`, `:652`);
- with an empty community table the RTBH form calls `insert_initial_communities` with
  no arguments, which raises;
- `session["group-update"]` keeps ids without their type and outlives another login;
  the pages that reactivate a rule ask for no right to it (`views/rules.py:62`,
  `:420`);
- a token's expiration is local time without a zone, read as UTC
  (`api_common.py:92`): east of Greenwich it lives longer than 30 minutes by the
  offset.

## 4. The proofs

All theorems hold for every value of the constants that satisfies the named
assumptions of the module: for `RtbhWhitelist` `NetAssumption` (non-empty networks,
nested or disjoint), `FlowAssumption` (flowspec ids that no RTBH rule can have are left
aside), `CommunityAssumption`, `BoundAssumption`, `NoValueAssumption`;
for the others that bounds are numbers, that sets counted are finite (in `Neighbors`
the ids, since of the rules announced one after the other one comes last), and that the
values for "none" are no rows. Nothing else is assumed, except `AddressSpace` where said.

- `TypeCorrect` (`RtbhWhitelistProofs`): `Spec => []TypeOK`. One step for each
  action. The difficult steps are the evaluations, which write rules under chosen
  ids: that the parts are rules needs that a matched id is in use.
- `CacheIsSound`, `CommunitiesRespected`, `PartsStayTracked`
  (`RtbhWhitelistSafety`): `[]CacheSound`, `[]OnlyAllowedAreWhitelisted`,
  `[]PartsAreTracked`, with flowspec purges. None of them is inductive:
  `CacheSound` needs that an id handed out has no rows left; `PartsAreTracked`
  that rows fit the rules they name, or deleting a whitelist could take the row of
  a part and leave the part. The invariant `TablesInv` joins them, and adds what the
  running call may rely on between its steps although requests write in between
  (`CallTables`): what it is about to purge was withdrawn when it was read and is so
  still, what it is about to delete are parts, what it is about to restore has no row
  of another whitelist, after the first commit the whitelist has no rows, each but for
  the strayed. The four
  actions that evaluate whitelists are brought to one form (`Evaluates`: a base
  table, a set of matches, fresh ids), for which the effect is proved once; the
  lemmas `CreateEvaluates`, `ReactivateEvaluates`, `SaveWhitelistEvaluates` show
  that each action has that form. All other steps have the form `From`: rules keep
  their network and origin, rows go but do not come.
- `ValidRulesAnnounced` (`RtbhWhitelistRoutes`): `[]ActiveIsAnnounced`. Its
  invariant adds that `disturbed` holds every prefix two rules share: only with it does
  a withdrawal for one rule not hurt another; and that a rule the call is about to make
  active is announced, is about to be, or lost its route to a request (`RestoreAnnounced`).
- `WhitelistSilences`, `OtherWhitelistHolds`, `DroppedIsWithdrawn`
  (`RtbhWhitelistRoutes`): the action properties
  `NewWhitelistSilencesRules`, `OtherWhitelistStillHolds`, `DeletedRuleIsWithdrawn`.
  Every step is a request that creates or reactivates a rule or stores a whitelist, or
  it evaluates nothing (`StepForms`). A
  new whitelist leaves an overlapping rule active only if the dictionary of candidates
  kept another rule of the same text; a rule another whitelist holds has two
  rows, so it is none of those restored, at once or, by `CallTables`, later; that
  deleting a whitelist drops no user's rule needs `TablesInv`, by which a row of a part
  names a part; that it restores none of those it deletes, that a restored rule has one
  row; that the purge drops no active rule but a strayed one is `CallTables` again.
- `SplitsLeaveNoGap` (`RtbhWhitelistRoutes`): `SplitLeavesNoGap`, if each address is a
  network and networks are finitely many (`AddressSpace`), as in IPv4 and IPv6. Then
  the blocks of `subtract_network` partition what the whitelist leaves and are as wide
  as can be (`RestIsPartitioned`), they are announced, and the one route a
  reactivation withdraws is that of the rule, which no block is.
- `OnlyReactivationKeepsWithdrawn` (`RtbhWhitelistRoutes`) limits a finding:
  `NewTimeActivates`, which the code violates, is violated by a reactivation only.

- `TypeCorrect` (`FlowspecRoutesSafety`): `[]TypeOK` of `FlowspecRoutes`, from its
  `BoundAssumption` and `NoRuleAssumption`.
- `ValidStaysAnnounced` and `AnnouncedStaysActive` (`FlowspecRoutesSafety`):
  `[]ValidIsAnnounced` and `[]AnnouncedIsActive`, for any number of workers, rules,
  routes and crashes. Between the steps of a request neither holds of its routes, so
  the invariant `RoutesInv` says for each stage of a request what is true then: a
  route to be announced has an active rule, a rule about to be deleted or marked has
  lost its route or has a withdraw command ahead of that, an announced route without
  an active rule is about to be withdrawn (`TaskInv`, `WillWithdraw`,
  `WillAnnounce`). Two more parts make it inductive: `Noted`, by which an undisturbed
  route has one rule and one request at most, and `Reserved`, by which the id a
  create request got between lookup and store is its own. Each step of a worker is
  shown to be local (`StepLocal`): it leaves alone whatever its task does not name
  (`Untouched`), and for the routes it does name only that worker counts (`OneStep`,
  one lemma for each action).

- `PromiseIsKept` (`FlowspecRoutesPromise`): `Spec => KeepsPromise`, the refinement.
  A worker's step is `Work` by what the safety proofs show of it: it is local, and the
  invariant makes the routes it leaves right. Crash, restart and clock map to their
  namesakes. `PromiseMakesRight`: in every behaviour of `RoutePromise`, with these
  values, a route nobody works on is right; with the first theorem this gives both
  route invariants again, from the abstract specification.
- `TypeCorrect`, `OrgOverrun`, `GlobalOverrun`, `Twins` (`RuleLimitsProofs`): types
  and the three bounds, for any number of workers; all count the rules that create
  requests stored, none those that a reactivation or a group update made active. A bound on stored rules is not
  inductive; the invariant adds to them the workers that have passed a check and have
  not stored yet (`OrgInv`, `GlobalInv`, `KeyInv`): a check that passes finds less
  than the limit and at most all workers on their way, a store turns one worker into
  one rule. `GlobalOverrunBounded` is in no run: with limits of one and a global limit
  of two, two workers cannot show more than `OrgOverrunBounded` does.
- `TypeCorrect`, `OwnersStay`, `OwnersBelonged`, `DeletersHaveRight` (`AccessProofs`):
  types, `OwnersExist`, `OwnersBelong`, `DeletedByRight`. A part has the owner of the rule
  that was split (`SplitRules`), so a step that stores rules needs only that the one it
  stores itself may have its owner (`MayOwn`). What a session or a token
  says was true once: the invariant says so with the histories (`Granted`): its
  pair of user and organization is in `joined` or `kept`, and an administrator's level
  is that of somebody in `admins`.
- `TypeCorrect`, `CommunitiesStay`, `NeighborsKnow`, `DeletedWithdrawn`
  (`NeighborsProofs`): types, `RulesHaveCommunity`, `NeighborsKnowTheRules`,
  `DeletedIsWithdrawn`. `NeighborsKnowTheRules` says nothing of the time between a start
  of ExaBGP and Guarda's call; the invariant has to (`Told`): then a route may be
  missing, but no neighbor has one too many or with other attributes. It also has that
  a net that is not in `loose` has one rule (`SharedIsLoose`), so that a command for
  it is about the rule that decides, and that with HTTP nothing is left of the tables
  while ExaBGP is down (`DownIsEmpty`), so that a restart may clear `loose`. Each action
  is one lemma; what is common to those that send commands, all of them taken or only
  some, is in `RequestStep`, `OneChanged`, `WithdrawnStep` and `FailedStep`.

With these every safety property of a passing run is a theorem. Only model-checked are
the liveness properties (`ExpiredRuleIsWithdrawn`, `ExpiredWhitelistIsDeleted`,
`RestartIsRepaired`: fairness is out of the prover's reach) and the properties the code
violates.

## 5. The plan

Done, in this order: `RtbhWhitelist` and its proofs; `FlowspecRoutes` and its proofs;
`RuleLimits` with the bounds on the overrun; `Neighbors` with RabbitMQ and the
administrator's rows; `RoutePromise` and the refinement; `Access`; the proofs of
`Neighbors` and of the action properties.

Left, most useful first:

1. What stays announced without a rule: parts deleted with their whitelist, rules
   split by one, rules saved with a past time. A history of such prefixes would make
   the converse of `ActiveIsAnnounced` a property. (A refinement of `RoutePromise` is
   out: there a route changes while somebody works on it, here requests are one step.)
2. Pure algorithms: `subtract_network` bit by bit against the definition used here,
   sanitized masks, flowspec expressions, rounding.
3. The group update's list in the session, with the types of rules told apart.

## 6. Not modelled

Templates, static files, the dashboard (reads only), logs (written, never read by
a handler), migrations, Swagger and installation scripts. Of the forms
and validators, the checks against ranges are in `Access`; the rest appears as the
inputs the handlers get: which text is a network, a port expression or a
time decides nothing about what the handlers do with it. Of the administration, the
actions of flowspec rules (named rows that rules refer to, as they do to communities)
and the pages that list things. Of the API, listing and the formats of versions 1 and
2, which call the same functions.
