------------------------------- MODULE Access -------------------------------
(***************************************************************************)
(* Users, organizations, sessions, API keys and tokens, and whose rules    *)
(* they let a request make and delete.                                     *)
(*                                                                         *)
(* What a request may do is decided from three places that age             *)
(* differently: the cookie session keeps the roles and the organization of *)
(* the login, a token those of the moment it was given, and the networks   *)
(* of a user are read from the database each time.  Administrators change  *)
(* users and organizations meanwhile; their own sessions are not modelled. *)
(*                                                                         *)
(* The four tables of rules are one here, and a rule is its table, owner   *)
(* and networks: RtbhWhitelist and FlowspecRoutes have the rest.  A request *)
(* is one step, and the cleaning call, which deletes what has expired for  *)
(* nobody in particular, is left to them too.  There is one browser and one *)
(* token, which is not read-only: those make nothing.  The database checks *)
(* foreign keys and never gives an id again.                               *)
(***************************************************************************)
EXTENDS Naturals, FiniteSets

CONSTANTS
  UserIds, OrgIds, Ids, KeyIds, \* ids of users, organizations, rules and keys
  Net,        \* networks of rules: sets of addresses
  RangeNet,   \* networks of organizations' ranges
  Zero,       \* the address 0.0.0.0 or ::
  Level,      \* the roles users may have: 1 view, 2 user, 3 admin
  MaxEdits,   \* bound: changes the administrators make
  NoUser, NoOrg, NoRule, NoKey, NoSession, NoToken,
  Gone        \* a deleted user or organization

ASSUME BoundAssumption == Level \subseteq 1 .. 3 /\ MaxEdits \in Nat

View == 1
Admin == 3

\* A user's level is the highest of its roles.
User == [level : Level, orgs : SUBSET OrgIds]
Organization == [arange : SUBSET RangeNet]
Table == {"flowspec", "RTBH", "whitelist"}

\* A flowspec rule has a source, a destination, both or none, other rules have one
\* network.
Rule == [table : Table, user : UserIds, org : OrgIds, nets : SUBSET Net]
ApiKey == [user : UserIds, org : OrgIds, machine : BOOLEAN]
Session == [user : UserIds, level : Level, org : OrgIds \cup {NoOrg}]
Token == [user : UserIds, level : Level, org : OrgIds]

\* Networks are blocks: of addresses that follow each other, never empty.
ASSUME NetAssumption ==
  /\ Zero \in Nat
  /\ \A net \in Net \cup RangeNet : net \subseteq Nat /\ net # {}

ASSUME NoneAssumption ==
  /\ NoUser \notin User /\ Gone \notin User
  /\ NoOrg \notin Organization /\ Gone \notin Organization /\ NoOrg \notin OrgIds
  /\ NoRule \notin Rule /\ NoKey \notin ApiKey
  /\ NoSession \notin Session /\ NoToken \notin Token

VARIABLES
  users,    \* tables user, user_role and user_organization
  orgs,     \* table organization: the range of each
  rules,    \* tables flowspec4, flowspec6, RTBH and whitelist
  made,     \* table rule_whitelist_cache: pairs of a whitelist and a part it made
  keys,     \* tables api_key and machine_api_key
  keylist,  \* the browser's cookie: keys of the last list it was shown
  session,  \* the browser's session
  token,    \* the token an API client holds
  edits,    \* changes of the administrators so far
  joined,   \* history: pairs of a user and an organization it was a member of
  kept,     \* history: pairs of a user and the organization its login found in
            \* the session, left there by an earlier login
  admins    \* history: users that were administrators at some time

vars == <<users, orgs, rules, made, keys, keylist, session, token, edits, joined, kept,
          admins>>

tables == <<users, orgs, rules, made, keys>>
client == <<keylist, session, token>>
history == <<edits, joined, kept, admins>>

Existing == {u \in UserIds : users[u] \in User}
Organizations == {o \in OrgIds : orgs[o] \in Organization}
Used == {i \in Ids : rules[i] # NoRule}
Keys == {k \in KeyIds : keys[k] # NoKey}

get_user_nets(u) == UNION {orgs[o].arange : o \in users[u].orgs}

Memberships(t) == {p \in UserIds \X OrgIds : t[p[1]] \in User /\ p[2] \in t[p[1]].orgs}
Administrators(t) == {u \in UserIds : t[u] \in User /\ t[u].level = Admin}

Init ==
  /\ orgs \in [OrgIds -> Organization \cup {NoOrg}]
  /\ users \in [UserIds -> [level : Level, orgs : SUBSET Organizations \ {{}}]
                            \cup {NoUser}]
  /\ rules = [i \in Ids |-> NoRule] /\ made = {}
  /\ keys = [k \in KeyIds |-> NoKey]
  /\ keylist = {} /\ session = NoSession /\ token = NoToken
  /\ edits = 0
  /\ joined = Memberships(users) /\ kept = {} /\ admins = Administrators(users)

-----------------------------------------------------------------------------
(* The administration pages. *)

Edit ==
  /\ edits < MaxEdits /\ edits' = edits + 1
  /\ joined' = joined \cup Memberships(users')
  /\ admins' = admins \cup Administrators(users')
  /\ UNCHANGED <<made, kept, keylist, session, token>>

\* One form or one line of the bulk import; each asks for a role and an
\* organization.
InsertUser(u, level, os) ==
  /\ users[u] = NoUser /\ os # {} /\ os \subseteq Organizations
  /\ users' = [users EXCEPT ![u] = [level |-> level, orgs |-> os]]
  /\ UNCHANGED <<orgs, rules, keys>>
  /\ Edit

EditUser(u, level, os) ==
  /\ u \in Existing /\ os # {} /\ os \subseteq Organizations
  /\ users' = [users EXCEPT ![u] = [level |-> level, orgs |-> os]]
  /\ UNCHANGED <<orgs, rules, keys>>
  /\ Edit

\* Mutant: the keys of the user are not looked at.
DeleteUserWithKeys(u) ==
  /\ u \in Existing
  /\ \A i \in Used : rules[i].user # u
  /\ users' = [users EXCEPT ![u] = Gone]
  /\ UNCHANGED <<orgs, rules, keys>>
  /\ Edit

\* Refused by the database while a rule or a key is the user's.
DeleteUser(u) ==
  /\ u \in Existing
  /\ \A i \in Used : rules[i].user # u
  /\ \A k \in Keys : keys[k].user # u
  /\ users' = [users EXCEPT ![u] = Gone]
  /\ UNCHANGED <<orgs, rules, keys>>
  /\ Edit

AddOrganization(o, arange) ==
  /\ orgs[o] = NoOrg
  /\ orgs' = [orgs EXCEPT ![o] = [arange |-> arange]]
  /\ UNCHANGED <<users, rules, keys>>
  /\ Edit

EditOrganization(o, arange) ==
  /\ o \in Organizations
  /\ orgs' = [orgs EXCEPT ![o] = [arange |-> arange]]
  /\ UNCHANGED <<users, rules, keys>>
  /\ Edit

\* Refused while a rule or a key is the organization's; its users only lose the
\* membership.
DeleteOrganization(o) ==
  /\ o \in Organizations
  /\ \A i \in Used : rules[i].org # o
  /\ \A k \in Keys : keys[k].org # o
  /\ orgs' = [orgs EXCEPT ![o] = Gone]
  /\ users' = [u \in UserIds |-> IF u \in Existing
                                 THEN [users[u] EXCEPT !.orgs = @ \ {o}]
                                 ELSE users[u]]
  /\ UNCHANGED <<rules, keys>>
  /\ Edit

\* The key gets an organization of the user it is for; the page fails when the
\* user has none.
AddMachineKey(k, u, o) ==
  /\ keys[k] = NoKey /\ u \in Existing /\ o \in users[u].orgs
  /\ keys' = [keys EXCEPT ![k] = [user |-> u, org |-> o, machine |-> TRUE]]
  /\ UNCHANGED <<users, orgs, rules>>
  /\ Edit

DeleteMachineKey(k) ==
  /\ k \in Keys /\ keys[k].machine
  /\ keys' = [keys EXCEPT ![k] = NoKey]
  /\ UNCHANGED <<users, orgs, rules>>
  /\ Edit

-----------------------------------------------------------------------------
(* The session. *)

\* Mutant: a login does not read the roles again.
LoginKeepsRoles(u) ==
  /\ u \in Existing
  /\ \E org \in IF Cardinality(users[u].orgs) = 1 THEN users[u].orgs ELSE {NoOrg} :
       session' = [user |-> u,
                   level |-> IF session = NoSession THEN users[u].level ELSE session.level,
                   org |-> org]
  /\ UNCHANGED <<tables, keylist, token, history>>

\* The organization is set for a user of one organization; one of several is
\* sent to choose, and the page fails for one of none.  In both cases the
\* organization of an earlier login is still there.
Login(u) ==
  /\ u \in Existing
  /\ LET before == IF session = NoSession THEN NoOrg ELSE session.org
     IN  \E org \in IF Cardinality(users[u].orgs) = 1 THEN users[u].orgs ELSE {before} :
           /\ session' = [user |-> u, level |-> users[u].level, org |-> org]
           /\ kept' = IF org \in OrgIds \ users[u].orgs
                      THEN kept \cup {<<u, org>>} ELSE kept
  /\ UNCHANGED <<tables, keylist, token, edits, joined, admins>>

\* Mutant: any organization there is.
SelectAnyOrg(o) ==
  /\ session # NoSession /\ session.user \in Existing
  /\ o \in Organizations
  /\ session' = [session EXCEPT !.org = o]
  /\ UNCHANGED <<tables, keylist, token, history>>

select_org(o) ==
  /\ session # NoSession /\ session.user \in Existing
  /\ o \in users[session.user].orgs
  /\ session' = [session EXCEPT !.org = o]
  /\ UNCHANGED <<tables, keylist, token, history>>

Logout ==
  /\ session' = NoSession
  /\ UNCHANGED <<tables, keylist, token, history>>

-----------------------------------------------------------------------------
(* API keys and tokens. *)

\* Mutant: an empty organization is stored.
SessionUser == session # NoSession /\ session.user \in Existing

\* A row of the session's user and organization, if the database takes it.
SessionOwner ==
  /\ session # NoSession
  /\ session.user \in Existing /\ session.org \in Organizations

ListKeys ==
  /\ session # NoSession
  /\ keylist' = {k \in Keys : keys[k].user = session.user /\ ~keys[k].machine}
  /\ UNCHANGED <<tables, session, token, history>>

AddKey(k) ==
  /\ SessionOwner /\ keys[k] = NoKey
  /\ keys' = [keys EXCEPT ![k] =
       [user |-> session.user, org |-> session.org, machine |-> FALSE]]
  /\ UNCHANGED <<users, orgs, rules, made, client, history>>

\* A key is deleted from the list the cookie has.  Ids are not given again, so
\* the cookie may as well forget the key.
DeleteKey(k) ==
  /\ session # NoSession
  /\ k \in Keys /\ ~keys[k].machine /\ k \in keylist
  /\ keys[k].user = session.user \/ session.level = Admin
  /\ keys' = [keys EXCEPT ![k] = NoKey]
  /\ keylist' = keylist \ {k}
  /\ UNCHANGED <<users, orgs, rules, made, session, token, history>>

\* A key is exchanged for a token of its user's roles of now.
authorize(k) ==
  /\ k \in Keys
  /\ token' = [user |-> keys[k].user, level |-> users[keys[k].user].level,
               org |-> keys[k].org]
  /\ UNCHANGED <<tables, keylist, session, history>>

\* The token expires, or the client drops it.
TokenExpires ==
  /\ token' = NoToken
  /\ UNCHANGED <<tables, keylist, session, history>>

-----------------------------------------------------------------------------
(* Rules. *)

CanEdit == session # NoSession /\ session.level > View

network_in_range(net, ranges) == \E r \in ranges : net \subseteq r

address_in_range(address, ranges) == \E r \in ranges : address \in r

NetworkAddress(net) == CHOOSE a \in net : \A b \in net : a <= b

\* The forms.  A flowspec rule needs one network in range, or the range of the
\* whole world when it names none.
ValidFlowspec(nets, ranges) ==
  \/ nets = {} /\ address_in_range(Zero, ranges)
  \/ \E net \in nets : network_in_range(net, ranges)

\* Of an RTBH rule only the address is looked at.
ValidRtbh(net, ranges) == address_in_range(NetworkAddress(net), ranges)

\* A whitelist may have any network when the user has no ranges.
ValidWhitelist(net, ranges) == ranges = {} \/ network_in_range(net, ranges)

Valid(table, nets, ranges) ==
  \/ table = "flowspec" /\ Cardinality(nets) <= 2 /\ ValidFlowspec(nets, ranges)
  \/ table = "RTBH" /\ \E net \in Net : nets = {net} /\ ValidRtbh(net, ranges)
  \/ table = "whitelist" /\ \E net \in Net : nets = {net} /\ ValidWhitelist(net, ranges)

\* A whitelist inside a rule's network splits the rule.
Splits(rs, r, w) ==
  /\ rs[r] # NoRule /\ rs[r].table = "RTBH"
  /\ rs[w] # NoRule /\ rs[w].table = "whitelist"
  /\ \E rule \in rs[r].nets, wl \in rs[w].nets : wl \subseteq rule /\ wl # rule

\* Rule or whitelist i is held against the whitelists or the rules there are, and
\* the parts of what is split are stored for the owner of the rule, not for the
\* session.  Which parts, and whether time, state and community ask for any, is
\* RtbhWhitelist's.
SplitWith(rs, rows, i) ==
  LET pairs == {p \in Ids \X Ids : Splits(rs, p[1], p[2]) /\ i \in {p[1], p[2]}}
  IN  \E fresh \in SUBSET {j \in Ids : rs[j] = NoRule} :
      \E of \in [fresh -> pairs], net \in [fresh -> Net] :
        /\ \A j \in fresh : \E rule \in rs[of[j][1]].nets, wl \in rs[of[j][2]].nets :
             net[j] \subseteq rule \ wl
        /\ rules' = [j \in Ids |->
             IF j \in fresh
             THEN [table |-> "RTBH", user |-> rs[of[j][1]].user,
                   org |-> rs[of[j][1]].org, nets |-> {net[j]}]
             ELSE rs[j]]
        /\ made' = rows \cup {<<of[j][2], j>> : j \in fresh}

Save(i, table, u, o, nets) ==
  /\ rules[i] = NoRule
  /\ SplitWith([rules EXCEPT ![i] =
                  [table |-> table, user |-> u, org |-> o, nets |-> nets]], made, i)

\* The networks are checked against the ranges as they are now, the owner is the
\* session's.
CreateRule(i, table, nets) ==
  /\ CanEdit /\ SessionOwner
  /\ Valid(table, nets, get_user_nets(session.user))
  /\ Save(i, table, session.user, session.org, nets)
  /\ UNCHANGED <<users, orgs, keys, client, history>>

\* The API knows no whitelists.
ApiCreateRule(i, table, nets) ==
  /\ token # NoToken /\ table # "whitelist"
  /\ token.user \in Existing /\ token.org \in Organizations
  /\ Valid(table, nets, get_user_nets(token.user))
  /\ Save(i, table, token.user, token.org, nets)
  /\ UNCHANGED <<users, orgs, keys, client, history>>

\* A rule or a whitelist gets a new time, on its page of anybody's or because the
\* same is stored again; it keeps its owner and may split, or be split, once more.
StoreAgain(i) ==
  /\ i \in Used /\ rules[i].table # "flowspec"
  /\ \/ CanEdit /\ session.org # NoOrg /\ session.user \in Existing
     \/ /\ token # NoToken /\ token.user \in Existing /\ rules[i].table = "RTBH"
        /\ Valid("RTBH", rules[i].nets, get_user_nets(token.user))
  /\ SplitWith(rules, made, i)
  /\ UNCHANGED <<users, orgs, keys, client, history>>

\* The rules left of a list: those with a network in range, and those that have
\* no column source, the whitelists.
InRange(rule, ranges) == \E net \in rule.nets : network_in_range(net, ranges)

Filtered(rule, ranges) == rule.table = "whitelist" \/ InRange(rule, ranges)

\* Of administrators the roles alone are looked at, of other users the ranges;
\* a user who was deleted has none, and the page fails.
get_user_allowed_rule_ids(table) ==
  {i \in Used :
     /\ rules[i].table = table
     /\ \/ session.level = Admin
        \/ session.user \in Existing /\ Filtered(rules[i], get_user_nets(session.user))}

Without(rs, ids) == [i \in Ids |-> IF i \in ids THEN NoRule ELSE rs[i]]

\* The row of a part that is gone stays in the table and refers to nothing.
RowsWithout(ids) == {p \in made : p[1] \notin ids /\ p[2] \notin ids}

Remove(ids) ==
  /\ rules' = Without(rules, ids)
  /\ made' = RowsWithout(ids)

\* The pages of a rule and of a group of rules.
DeleteRules(table, ids) ==
  /\ CanEdit /\ table # "whitelist"
  /\ ids # {} /\ ids \subseteq get_user_allowed_rule_ids(table)
  /\ Remove(ids)
  /\ UNCHANGED <<users, orgs, keys, client, history>>

PartsOf(w) == {j \in Ids : <<w, j>> \in made}

\* A whitelist goes with the parts it made, whoever's they are.
delete_whitelist(w) ==
  /\ CanEdit
  /\ w \in get_user_allowed_rule_ids("whitelist")
  /\ Remove({w} \cup PartsOf(w))
  /\ UNCHANGED <<users, orgs, keys, client, history>>

\* The rule is deleted first.  Then a whitelist of its network is stored for the
\* session, or the one there is gets a new time, unless the database refuses it.
delete_rtbh_and_create_whitelist(i, w) ==
  /\ CanEdit /\ session.org # NoOrg
  /\ i \in get_user_allowed_rule_ids("RTBH")
  /\ LET left == Without(rules, {i})
     IN  \/ Remove({i})
         \/ /\ SessionOwner /\ left[w] = NoRule
            /\ SplitWith([left EXCEPT ![w] =
                 [table |-> "whitelist", user |-> session.user, org |-> session.org,
                  nets |-> rules[i].nets]], RowsWithout({i}), w)
         \/ /\ w \in Used /\ rules[w].table = "whitelist" /\ rules[w].nets = rules[i].nets
            /\ SplitWith(left, RowsWithout({i}), w)
  /\ UNCHANGED <<users, orgs, keys, client, history>>

\* Tokens look at the owner, not at the ranges.
ApiDeleteRule(i) ==
  /\ token # NoToken /\ i \in Used /\ rules[i].table # "whitelist"
  /\ rules[i].user = token.user \/ token.level = Admin
  /\ Remove({i})
  /\ UNCHANGED <<users, orgs, keys, client, history>>

-----------------------------------------------------------------------------

Next ==
  \/ \E u \in UserIds, level \in Level, os \in SUBSET OrgIds :
       InsertUser(u, level, os) \/ EditUser(u, level, os)
  \/ \E u \in UserIds : DeleteUser(u) \/ Login(u)
  \/ \E o \in OrgIds, arange \in SUBSET RangeNet :
       AddOrganization(o, arange) \/ EditOrganization(o, arange)
  \/ \E o \in OrgIds : DeleteOrganization(o) \/ select_org(o)
  \/ \E k \in KeyIds, u \in UserIds, o \in OrgIds : AddMachineKey(k, u, o)
  \/ \E k \in KeyIds : DeleteMachineKey(k) \/ AddKey(k) \/ DeleteKey(k) \/ authorize(k)
  \/ Logout \/ ListKeys \/ TokenExpires
  \/ \E i \in Ids, table \in Table, nets \in SUBSET Net :
       CreateRule(i, table, nets) \/ ApiCreateRule(i, table, nets)
  \/ \E table \in Table, ids \in SUBSET Ids : DeleteRules(table, ids)
  \/ \E i, w \in Ids : delete_rtbh_and_create_whitelist(i, w)
  \/ \E i \in Ids : StoreAgain(i) \/ delete_whitelist(i) \/ ApiDeleteRule(i)

Spec == Init /\ [][Next]_vars

-----------------------------------------------------------------------------
(* Properties. *)

\* The tables and the clients hold what their columns may hold.
TypeOK ==
  /\ users \in [UserIds -> User \cup {NoUser, Gone}]
  /\ orgs \in [OrgIds -> Organization \cup {NoOrg, Gone}]
  /\ rules \in [Ids -> Rule \cup {NoRule}]
  /\ made \subseteq Ids \X Ids
  /\ keys \in [KeyIds -> ApiKey \cup {NoKey}]
  /\ keylist \subseteq KeyIds
  /\ session \in Session \cup {NoSession}
  /\ token \in Token \cup {NoToken}
  /\ edits \in 0 .. MaxEdits
  /\ joined \subseteq UserIds \X OrgIds
  /\ kept \subseteq UserIds \X OrgIds
  /\ admins \subseteq UserIds

\* Every rule and every key has a user and an organization that are there,
\* whatever the administrators delete and however old the session or the token
\* is that made it.  Limits, authorize and every page that shows a rule's author
\* read them without looking.
OwnersExist ==
  /\ \A i \in Used : rules[i].user \in Existing /\ rules[i].org \in Organizations
  /\ \A k \in Keys : keys[k].user \in Existing /\ keys[k].org \in Organizations

\* A rule or a key counts for an organization its user was a member of.  The one
\* way around it is a login over another session: a user of several
\* organizations then has the other's until they choose.
OwnersBelong ==
  /\ \A i \in Used : <<rules[i].user, rules[i].org>> \in joined \cup kept
  /\ \A k \in Keys : <<keys[k].user, keys[k].org>> \in joined \cup kept

\* Nobody deletes a rule without a right to it: the owner's token, or the session
\* of a user whose ranges have one of its networks at that moment, or a session or a
\* token of a user who is an administrator or was one.  Whitelists may be deleted by
\* every session that may edit, but by no token, and a whitelist takes the parts of
\* rules it made with it: this is the one way a rule is deleted by somebody who could
\* not delete it on its own page.
WasAdmin ==
  \/ session # NoSession /\ session.user \in admins
  \/ token # NoToken /\ token.user \in admins

MayDelete(rule) ==
  \/ WasAdmin
  \/ token # NoToken /\ token.user = rule.user /\ rule.table # "whitelist"
  \/ /\ session # NoSession /\ session.user \in Existing
     /\ rule.table = "whitelist" \/ InRange(rule, get_user_nets(session.user))

GoesWithWhitelist(i) ==
  \E w \in Used : /\ CanEdit /\ <<w, i>> \in made
                  /\ rules[w].table = "whitelist" /\ rules'[w] = NoRule

DeletedByRight ==
  [][\A i \in Used : rules'[i] # rules[i] =>
       MayDelete(rules[i]) \/ GoesWithWhitelist(i)]_vars

=============================================================================
