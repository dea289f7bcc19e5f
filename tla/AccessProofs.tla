---------------------------- MODULE AccessProofs ----------------------------
(***************************************************************************)
(* Whose rules and keys there are and who may delete rules, for any number *)
(* of users, organizations, rules, keys and changes of administrators.     *)
(*                                                                         *)
(* What a session or a token lets a request do was read from the tables at *)
(* an earlier time, so the invariants of the tables are not inductive:     *)
(* Granted says of which earlier time the cookie and the token speak.      *)
(***************************************************************************)
EXTENDS Access, TLAPS

\* Users are members of organizations that are there.
MembersExist == \A u \in Existing : users[u].orgs \subseteq Organizations

\* The history has the tables of now.
Recorded ==
  /\ Memberships(users) \subseteq joined
  /\ Administrators(users) \subseteq admins

\* What the session and the token claim was so at some time.
SessionGranted ==
  session # NoSession =>
    /\ session.org # NoOrg => <<session.user, session.org>> \in joined \cup kept
    /\ session.level = Admin => session.user \in admins

TokenGranted ==
  token # NoToken =>
    /\ <<token.user, token.org>> \in joined \cup kept
    /\ token.level = Admin => token.user \in admins

Granted == Recorded /\ SessionGranted /\ TokenGranted

IInv == TypeOK /\ OwnersExist /\ OwnersBelong /\ MembersExist /\ Granted

-----------------------------------------------------------------------------
(* Types of rows. *)

LEMMA UserRow ==
  ASSUME TypeOK, NEW u \in Existing
  PROVE  /\ u \in UserIds /\ users[u] \in User
         /\ users[u].level \in Level /\ users[u].orgs \in SUBSET OrgIds
BY DEF TypeOK, Existing, User

LEMMA RuleRow ==
  ASSUME TypeOK, NEW i \in Used
  PROVE  /\ i \in Ids /\ rules[i] \in Rule
         /\ rules[i].user \in UserIds /\ rules[i].org \in OrgIds /\ rules[i].nets \subseteq Net
BY DEF TypeOK, Used, Rule

LEMMA KeyRow ==
  ASSUME TypeOK, NEW k \in Keys
  PROVE  /\ k \in KeyIds /\ keys[k] \in ApiKey
         /\ keys[k].user \in UserIds /\ keys[k].org \in OrgIds
BY DEF TypeOK, Keys, ApiKey

LEMMA SessionRow ==
  ASSUME TypeOK, session # NoSession
  PROVE  /\ session \in Session /\ session.user \in UserIds
         /\ session.level \in Level /\ session.org \in OrgIds \cup {NoOrg}
BY DEF TypeOK, Session

LEMMA TokenRow ==
  ASSUME TypeOK, token # NoToken
  PROVE  /\ token \in Token /\ token.user \in UserIds
         /\ token.level \in Level /\ token.org \in OrgIds
BY DEF TypeOK, Token

\* A user's membership of now is in the history, and so is its being an
\* administrator.
LEMMA RecordedOf ==
  ASSUME IInv, NEW u \in Existing
  PROVE  /\ \A o \in users[u].orgs : <<u, o>> \in joined
         /\ users[u].level = Admin => u \in admins
<1>1. u \in UserIds /\ users[u] \in User /\ users[u].orgs \in SUBSET OrgIds
  BY UserRow DEF IInv
<1>2. \A o \in users[u].orgs : <<u, o>> \in Memberships(users)
  BY <1>1 DEF Memberships
<1>3. users[u].level = Admin => u \in Administrators(users)
  BY <1>1 DEF Administrators
<1> QED BY <1>2, <1>3 DEF IInv, Granted, Recorded

-----------------------------------------------------------------------------
(* The administration pages. *)

\* The history records what an edit leaves, and the clients keep what they have.
LEMMA EditGranted ==
  ASSUME IInv, Edit
  PROVE  Granted'
<1>1. Recorded'
  BY DEF Edit, Recorded
<1>2. SessionGranted'
  BY DEF Edit, IInv, Granted, SessionGranted
<1>3. TokenGranted'
  BY DEF Edit, IInv, Granted, TokenGranted
<1> QED BY <1>1, <1>2, <1>3 DEF Granted

\* The columns no table of an edit has.
LEMMA EditTypes ==
  ASSUME TypeOK, Edit
  PROVE  /\ made' \subseteq Ids \X Ids
         /\ keylist' \subseteq KeyIds
         /\ session' \in Session \cup {NoSession}
         /\ token' \in Token \cup {NoToken}
         /\ edits' \in 0 .. MaxEdits
         /\ joined' \subseteq UserIds \X OrgIds
         /\ kept' \subseteq UserIds \X OrgIds
         /\ admins' \subseteq UserIds
<1>1. edits' \in 0 .. MaxEdits
  BY BoundAssumption DEF TypeOK, Edit
<1>2. /\ joined' \subseteq UserIds \X OrgIds
      /\ admins' \subseteq UserIds
  BY DEF TypeOK, Edit, Memberships, Administrators
<1> QED BY <1>1, <1>2 DEF TypeOK, Edit

\* Rules and keys an edit keeps still belong.
LEMMA EditBelongs ==
  ASSUME IInv, Edit, UNCHANGED rules,
         \A k \in Keys' : keys'[k] # keys[k] =>
           <<keys'[k].user, keys'[k].org>> \in joined \cup kept
  PROVE  OwnersBelong'
<1>1. joined \cup kept \subseteq joined' \cup kept'
  BY DEF Edit
<1>2. \A i \in Used' : <<rules'[i].user, rules'[i].org>> \in joined' \cup kept'
  BY <1>1 DEF IInv, OwnersBelong, Used
<1>3. \A k \in Keys' : <<keys'[k].user, keys'[k].org>> \in joined' \cup kept'
  BY <1>1 DEF IInv, OwnersBelong, Keys
<1> QED BY <1>2, <1>3 DEF OwnersBelong

LEMMA WriteUserStep ==
  ASSUME IInv, NEW u \in UserIds, NEW level \in Level, NEW os \in SUBSET OrgIds,
         InsertUser(u, level, os) \/ EditUser(u, level, os)
  PROVE  IInv'
<1> DEFINE row == [level |-> level, orgs |-> os]
<1>1. /\ users' = [users EXCEPT ![u] = row]
      /\ UNCHANGED <<orgs, rules, keys>>
      /\ Edit
  BY DEF InsertUser, EditUser
<1>2. row \in User
  BY DEF User
<1>3. TypeOK'
  BY <1>1, <1>2, EditTypes DEF IInv, TypeOK
<1>4. Existing \subseteq Existing'
  BY <1>1, <1>2 DEF Existing, IInv, TypeOK
<1>5. OwnersExist'
  BY <1>1, <1>4 DEF IInv, OwnersExist, Used, Keys, Organizations
<1>6. OwnersBelong'
  BY <1>1, EditBelongs
<1>7. MembersExist'
  <2>1. os \subseteq Organizations /\ Organizations' = Organizations
    BY <1>1 DEF InsertUser, EditUser, Organizations
  <2>2. \A v \in Existing' : v = u \/ (v \in Existing /\ users'[v] = users[v])
    BY <1>1 DEF Existing, IInv, TypeOK
  <2>3. users'[u] = row
    BY <1>1 DEF IInv, TypeOK
  <2> QED BY <2>1, <2>2, <2>3 DEF IInv, MembersExist
<1> QED BY <1>1, <1>3, <1>5, <1>6, <1>7, EditGranted DEF IInv

LEMMA DeleteUserStep ==
  ASSUME IInv, NEW u \in UserIds, DeleteUser(u)
  PROVE  IInv'
<1>1. Edit /\ UNCHANGED <<orgs, rules, keys>> /\ users' = [users EXCEPT ![u] = Gone]
  BY DEF DeleteUser
<1>2. TypeOK'
  BY <1>1, EditTypes DEF IInv, TypeOK
<1>3. \A v \in Existing : v # u => v \in Existing'
  BY <1>1 DEF Existing, IInv, TypeOK
<1>4. OwnersExist'
  BY <1>1, <1>3 DEF DeleteUser, IInv, OwnersExist, Used, Keys, Organizations
<1>5. OwnersBelong'
  BY <1>1, EditBelongs
<1>6. MembersExist'
  <2>1. \A v \in Existing' : v \in Existing /\ users'[v] = users[v]
    BY <1>1, NoneAssumption DEF Existing, IInv, TypeOK
  <2> QED BY <1>1, <2>1 DEF IInv, MembersExist, Organizations
<1> QED BY <1>1, <1>2, <1>4, <1>5, <1>6, EditGranted DEF IInv

LEMMA WriteOrganizationStep ==
  ASSUME IInv, NEW o \in OrgIds, NEW arange \in SUBSET RangeNet,
         AddOrganization(o, arange) \/ EditOrganization(o, arange)
  PROVE  IInv'
<1>1. /\ Edit /\ UNCHANGED <<users, rules, keys>>
      /\ orgs' = [orgs EXCEPT ![o] = [arange |-> arange]]
  BY DEF AddOrganization, EditOrganization
<1>2. [arange |-> arange] \in Organization
  BY DEF Organization
<1>3. TypeOK'
  BY <1>1, <1>2, EditTypes DEF IInv, TypeOK
<1>4. Organizations \subseteq Organizations'
  BY <1>1, <1>2 DEF Organizations, IInv, TypeOK
<1>5. OwnersExist'
  BY <1>1, <1>4 DEF IInv, OwnersExist, Used, Keys, Existing
<1>6. OwnersBelong'
  BY <1>1, EditBelongs
<1>7. MembersExist'
  BY <1>1, <1>4 DEF IInv, MembersExist, Existing
<1> QED BY <1>1, <1>3, <1>5, <1>6, <1>7, EditGranted DEF IInv

LEMMA DeleteOrganizationStep ==
  ASSUME IInv, NEW o \in OrgIds, DeleteOrganization(o)
  PROVE  IInv'
<1>1. /\ Edit /\ UNCHANGED <<rules, keys>> /\ orgs' = [orgs EXCEPT ![o] = Gone]
      /\ users' = [u \in UserIds |-> IF u \in Existing
                                     THEN [users[u] EXCEPT !.orgs = @ \ {o}]
                                     ELSE users[u]]
  BY DEF DeleteOrganization
<1>2. \A u \in Existing : [users[u] EXCEPT !.orgs = @ \ {o}] \in User
  BY DEF Existing, User
<1>3. TypeOK'
  BY <1>1, <1>2, EditTypes DEF IInv, TypeOK
<1>4. Existing \subseteq Existing'
  BY <1>1, <1>2 DEF Existing
<1>5. \A p \in Organizations : p # o => p \in Organizations'
  BY <1>1 DEF Organizations, IInv, TypeOK
<1>6. OwnersExist'
  BY <1>1, <1>4, <1>5 DEF DeleteOrganization, IInv, OwnersExist, Used, Keys
<1>7. OwnersBelong'
  BY <1>1, EditBelongs
<1>8. MembersExist'
  <2>1. \A u \in Existing' : u \in Existing /\ users'[u].orgs = users[u].orgs \ {o}
    BY <1>1 DEF Existing, User
  <2> QED BY <1>5, <2>1 DEF IInv, MembersExist
<1> QED BY <1>1, <1>3, <1>6, <1>7, <1>8, EditGranted DEF IInv

-----------------------------------------------------------------------------
(* Keys. *)

\* What a new key needs.
LEMMA NewKey ==
  ASSUME IInv, UNCHANGED <<users, orgs, rules>>,
         NEW k \in KeyIds, NEW key \in ApiKey, keys[k] = NoKey,
         keys' = [keys EXCEPT ![k] = key],
         key.user \in Existing, key.org \in Organizations
  PROVE  keys' \in [KeyIds -> ApiKey \cup {NoKey}] /\ OwnersExist'
<1>1. \A l \in Keys' : l = k \/ (l \in Keys /\ keys'[l] = keys[l])
  BY DEF IInv, TypeOK, Keys
<1>2. keys'[k] = key
  BY DEF IInv, TypeOK
<1>3. \A l \in Keys' : keys'[l].user \in Existing /\ keys'[l].org \in Organizations
  BY <1>1, <1>2 DEF IInv, OwnersExist
<1> QED BY <1>3 DEF IInv, TypeOK, OwnersExist, Existing, Organizations, Used

\* A key less is no harm.
LEMMA KeyLess ==
  ASSUME IInv, UNCHANGED <<users, orgs, rules>>,
         NEW k \in KeyIds, keys' = [keys EXCEPT ![k] = NoKey]
  PROVE  /\ keys' \in [KeyIds -> ApiKey \cup {NoKey}]
         /\ \A l \in Keys' : l \in Keys /\ keys'[l] = keys[l]
         /\ OwnersExist'
<1>1. \A l \in Keys' : l \in Keys /\ keys'[l] = keys[l]
  BY DEF IInv, TypeOK, Keys
<1> QED BY <1>1 DEF IInv, TypeOK, OwnersExist, Existing, Organizations, Used

LEMMA AddMachineKeyStep ==
  ASSUME IInv, NEW k \in KeyIds, NEW u \in UserIds, NEW o \in OrgIds,
         AddMachineKey(k, u, o)
  PROVE  IInv'
<1> DEFINE key == [user |-> u, org |-> o, machine |-> TRUE]
<1>1. /\ Edit /\ UNCHANGED <<users, orgs, rules>> /\ keys[k] = NoKey
      /\ keys' = [keys EXCEPT ![k] = key]
      /\ u \in Existing /\ o \in users[u].orgs
  BY DEF AddMachineKey
<1>2. key \in ApiKey /\ key.user = u /\ key.org = o
  BY DEF ApiKey
<1>3. o \in Organizations
  BY <1>1 DEF IInv, MembersExist
<1>4. keys' \in [KeyIds -> ApiKey \cup {NoKey}] /\ OwnersExist'
  <2> HIDE DEF key
  <2> QED BY <1>1, <1>2, <1>3, NewKey
<1>5. TypeOK'
  BY <1>1, <1>4, EditTypes DEF IInv, TypeOK
<1>6. OwnersBelong'
  <2>1. <<u, o>> \in joined
    BY <1>1, RecordedOf
  <2>2. \A l \in Keys' : keys'[l] # keys[l] => keys'[l] = key
    BY <1>1 DEF IInv, TypeOK, Keys
  <2> QED BY <1>1, <1>2, <2>1, <2>2, EditBelongs
<1>7. MembersExist'
  BY <1>1 DEF IInv, MembersExist, Existing, Organizations
<1> QED BY <1>1, <1>4, <1>5, <1>6, <1>7, EditGranted DEF IInv

LEMMA DeleteMachineKeyStep ==
  ASSUME IInv, NEW k \in KeyIds, DeleteMachineKey(k)
  PROVE  IInv'
<1>1. /\ Edit /\ UNCHANGED <<users, orgs, rules>> /\ keys' = [keys EXCEPT ![k] = NoKey]
  BY DEF DeleteMachineKey
<1>2. /\ keys' \in [KeyIds -> ApiKey \cup {NoKey}] /\ OwnersExist'
      /\ \A l \in Keys' : l \in Keys /\ keys'[l] = keys[l]
  BY <1>1, KeyLess
<1>3. TypeOK'
  BY <1>1, <1>2, EditTypes DEF IInv, TypeOK
<1>4. OwnersBelong'
  BY <1>1, <1>2, EditBelongs
<1>5. MembersExist'
  BY <1>1 DEF IInv, MembersExist, Existing, Organizations
<1> QED BY <1>1, <1>2, <1>3, <1>4, <1>5, EditGranted DEF IInv

\* Clients and history stay: what was granted still is.
LEMMA GrantedStays ==
  ASSUME IInv, UNCHANGED <<users, orgs, session, token, history>>
  PROVE  Granted' /\ MembersExist'
<1>1. Granted'
  BY DEF IInv, Granted, Recorded, SessionGranted, TokenGranted, Memberships,
         Administrators, history
<1>2. MembersExist'
  BY DEF IInv, MembersExist, Existing, Organizations
<1> QED BY <1>1, <1>2

LEMMA AddKeyStep ==
  ASSUME IInv, NEW k \in KeyIds, AddKey(k)
  PROVE  IInv'
<1> DEFINE key == [user |-> session.user, org |-> session.org, machine |-> FALSE]
<1>1. /\ UNCHANGED <<users, orgs, rules, made, client, history>> /\ keys[k] = NoKey
      /\ keys' = [keys EXCEPT ![k] = key]
      /\ session # NoSession
      /\ session.user \in Existing /\ session.org \in Organizations
  BY DEF AddKey, SessionOwner
<1>2. /\ key \in ApiKey /\ key.user = session.user /\ key.org = session.org
      /\ session.org # NoOrg
  BY <1>1, NoneAssumption DEF ApiKey, Existing, Organizations
<1>3. keys' \in [KeyIds -> ApiKey \cup {NoKey}] /\ OwnersExist'
  <2> HIDE DEF key
  <2> QED BY <1>1, <1>2, NewKey
<1>4. TypeOK'
  BY <1>1, <1>3 DEF IInv, TypeOK, client, history
<1>5. OwnersBelong'
  <2>1. <<session.user, session.org>> \in joined \cup kept
    BY <1>1, <1>2 DEF IInv, Granted, SessionGranted
  <2>2. \A l \in Keys' : (l \in Keys /\ keys'[l] = keys[l]) \/ keys'[l] = key
    BY <1>1 DEF IInv, TypeOK, Keys
  <2>3. \A l \in Keys' : <<keys'[l].user, keys'[l].org>> \in joined \cup kept
    BY <1>2, <2>1, <2>2 DEF IInv, OwnersBelong
  <2> QED BY <1>1, <2>3 DEF IInv, OwnersBelong, Used, history
<1> QED BY <1>1, <1>3, <1>4, <1>5, GrantedStays DEF IInv, client

LEMMA DeleteKeyStep ==
  ASSUME IInv, NEW k \in KeyIds, DeleteKey(k)
  PROVE  IInv'
<1>1. /\ UNCHANGED <<users, orgs, rules, made, session, token, history>>
      /\ keys' = [keys EXCEPT ![k] = NoKey]
      /\ keylist' = keylist \ {k}
  BY DEF DeleteKey
<1>2. /\ keys' \in [KeyIds -> ApiKey \cup {NoKey}] /\ OwnersExist'
      /\ \A l \in Keys' : l \in Keys /\ keys'[l] = keys[l]
  BY <1>1, KeyLess
<1>3. TypeOK'
  BY <1>1, <1>2 DEF IInv, TypeOK, history
<1>4. OwnersBelong'
  BY <1>1, <1>2 DEF IInv, OwnersBelong, Used, history
<1> QED BY <1>1, <1>2, <1>3, <1>4, GrantedStays DEF IInv

-----------------------------------------------------------------------------
(* The session and the token. *)

\* The tables stay, and the history only grows.
LEMMA TablesStay ==
  ASSUME IInv, UNCHANGED <<tables, joined, admins>>, kept \subseteq kept'
  PROVE  OwnersExist' /\ OwnersBelong' /\ MembersExist' /\ Recorded'
<1>1. OwnersExist'
  BY DEF IInv, OwnersExist, Used, Keys, Existing, Organizations, tables
<1>2. OwnersBelong'
  BY DEF IInv, OwnersBelong, Used, Keys, tables
<1>3. MembersExist'
  BY DEF IInv, MembersExist, Existing, Organizations, tables
<1>4. Recorded'
  BY DEF IInv, Granted, Recorded, Memberships, Administrators, tables
<1> QED BY <1>1, <1>2, <1>3, <1>4

LEMMA ListKeysStep ==
  ASSUME IInv, ListKeys
  PROVE  IInv'
<1>1. UNCHANGED <<tables, session, token, history>> /\ keylist' \subseteq KeyIds
  BY DEF ListKeys, Keys
<1>2. TypeOK'
  BY <1>1 DEF IInv, TypeOK, tables, history
<1>3. OwnersExist' /\ OwnersBelong'
  BY <1>1, TablesStay DEF history
<1> QED BY <1>1, <1>2, <1>3, GrantedStays DEF IInv, tables

LEMMA LoginStep ==
  ASSUME IInv, NEW u \in UserIds, Login(u)
  PROVE  IInv'
<1>1. /\ u \in Existing
      /\ UNCHANGED <<tables, keylist, token, edits, joined, admins>>
  BY DEF Login
<1> DEFINE before == IF session = NoSession THEN NoOrg ELSE session.org
<1>2. before \in OrgIds \cup {NoOrg}
  BY SessionRow DEF IInv
<1>3. PICK org \in IF Cardinality(users[u].orgs) = 1 THEN users[u].orgs ELSE {before} :
        /\ session' = [user |-> u, level |-> users[u].level, org |-> org]
        /\ kept' = IF org \in OrgIds \ users[u].orgs
                   THEN kept \cup {<<u, org>>} ELSE kept
  BY DEF Login
<1>4. /\ users[u].level \in Level /\ users[u].orgs \in SUBSET OrgIds
      /\ org \in OrgIds \cup {NoOrg}
  BY <1>1, <1>2, <1>3, UserRow DEF IInv
<1>5. kept \subseteq kept' /\ kept' \subseteq UserIds \X OrgIds
  BY <1>3 DEF IInv, TypeOK
<1>6. session' \in Session
  BY <1>3, <1>4 DEF Session
<1>7. TypeOK'
  BY <1>1, <1>5, <1>6 DEF IInv, TypeOK, tables
<1>8. OwnersExist' /\ OwnersBelong' /\ MembersExist' /\ Recorded'
  BY <1>1, <1>5, TablesStay
<1>9. SessionGranted'
  <2>1. session'.user = u /\ session'.level = users[u].level /\ session'.org = org
    BY <1>3
  <2>2. org # NoOrg => <<u, org>> \in joined \cup kept'
    BY <1>1, <1>3, <1>4, RecordedOf
  <2>3. users[u].level = Admin => u \in admins
    BY <1>1, RecordedOf
  <2> QED BY <1>1, <2>1, <2>2, <2>3 DEF SessionGranted
<1>10. TokenGranted'
  BY <1>1, <1>5 DEF IInv, Granted, TokenGranted
<1> QED BY <1>7, <1>8, <1>9, <1>10 DEF IInv, Granted

LEMMA SelectOrgStep ==
  ASSUME IInv, NEW o \in OrgIds, select_org(o)
  PROVE  IInv'
<1>1. /\ session # NoSession /\ session.user \in Existing
      /\ o \in users[session.user].orgs
      /\ session' = [session EXCEPT !.org = o]
      /\ UNCHANGED <<tables, keylist, token, history>>
  BY DEF select_org
<1>2. /\ session' \in Session /\ session'.org = o
      /\ session'.user = session.user /\ session'.level = session.level
  BY <1>1, SessionRow DEF IInv, Session
<1>3. TypeOK'
  BY <1>1, <1>2 DEF IInv, TypeOK, tables, history
<1>4. OwnersExist' /\ OwnersBelong' /\ MembersExist' /\ Recorded'
  BY <1>1, TablesStay DEF history
<1>5. SessionGranted'
  <2>1. <<session.user, o>> \in joined
    BY <1>1, RecordedOf
  <2> QED BY <1>1, <1>2, <2>1 DEF IInv, Granted, SessionGranted, history
<1>6. TokenGranted'
  BY <1>1 DEF IInv, Granted, TokenGranted, history
<1> QED BY <1>3, <1>4, <1>5, <1>6 DEF IInv, Granted

LEMMA LogoutStep ==
  ASSUME IInv, Logout
  PROVE  IInv'
<1>1. UNCHANGED <<tables, keylist, token, history>> /\ session' = NoSession
  BY DEF Logout
<1>2. TypeOK'
  BY <1>1 DEF IInv, TypeOK, tables, history
<1>3. OwnersExist' /\ OwnersBelong' /\ MembersExist' /\ Recorded'
  BY <1>1, TablesStay DEF history
<1>4. SessionGranted' /\ TokenGranted'
  BY <1>1 DEF IInv, Granted, SessionGranted, TokenGranted, history
<1> QED BY <1>2, <1>3, <1>4 DEF IInv, Granted

LEMMA AuthorizeStep ==
  ASSUME IInv, NEW k \in KeyIds, authorize(k)
  PROVE  IInv'
<1> DEFINE owner == keys[k].user
<1>1. /\ k \in Keys /\ UNCHANGED <<tables, keylist, session, history>>
      /\ token' = [user |-> owner, level |-> users[owner].level, org |-> keys[k].org]
  BY DEF authorize
<1>2. owner \in Existing /\ keys[k].org \in OrgIds
  BY <1>1, KeyRow DEF IInv, OwnersExist
<1>3. owner \in UserIds /\ users[owner].level \in Level
  BY <1>2, UserRow DEF IInv
<1>4. token' \in Token
  BY <1>1, <1>2, <1>3 DEF Token
<1>5. TypeOK'
  BY <1>1, <1>4 DEF IInv, TypeOK, tables, history
<1>6. OwnersExist' /\ OwnersBelong' /\ MembersExist' /\ Recorded'
  BY <1>1, TablesStay DEF history
<1>7. SessionGranted'
  BY <1>1 DEF IInv, Granted, SessionGranted, history
<1>8. TokenGranted'
  <2>1. <<owner, keys[k].org>> \in joined \cup kept
    BY <1>1 DEF IInv, OwnersBelong
  <2>2. users[owner].level = Admin => owner \in admins
    BY <1>2, RecordedOf
  <2> QED BY <1>1, <2>1, <2>2 DEF TokenGranted, history
<1> QED BY <1>5, <1>6, <1>7, <1>8 DEF IInv, Granted

LEMMA TokenExpiresStep ==
  ASSUME IInv, TokenExpires
  PROVE  IInv'
<1>1. UNCHANGED <<tables, keylist, session, history>> /\ token' = NoToken
  BY DEF TokenExpires
<1>2. TypeOK'
  BY <1>1 DEF IInv, TypeOK, tables, history
<1>3. OwnersExist' /\ OwnersBelong' /\ MembersExist' /\ Recorded'
  BY <1>1, TablesStay DEF history
<1>4. SessionGranted' /\ TokenGranted'
  BY <1>1 DEF IInv, Granted, SessionGranted, TokenGranted, history
<1> QED BY <1>2, <1>3, <1>4 DEF IInv, Granted

-----------------------------------------------------------------------------
(* Rules. *)

\* A table of rules and the cache rows that refer to it.
RuleTable == [Ids -> Rule \cup {NoRule}]

\* User u and organization o may own a rule.
MayOwn(u, o) ==
  /\ u \in Existing /\ o \in Organizations
  /\ <<u, o>> \in joined \cup kept

LEMMA OwnersMayOwn ==
  ASSUME IInv, NEW i \in Used
  PROVE  MayOwn(rules[i].user, rules[i].org)
BY DEF IInv, OwnersExist, OwnersBelong, MayOwn

\* Only the rules change, and every rule of afterwards is of somebody who may own it.
LEMMA RulesStep ==
  ASSUME IInv, UNCHANGED <<users, orgs, keys, client, history>>,
         rules' \in RuleTable, made' \subseteq Ids \X Ids,
         \A i \in Used' : MayOwn(rules'[i].user, rules'[i].org)
  PROVE  IInv'
<1>1. TypeOK'
  BY DEF IInv, TypeOK, RuleTable, client, history
<1>2. OwnersExist'
  BY DEF IInv, OwnersExist, Keys, Existing, Organizations, MayOwn
<1>3. OwnersBelong'
  BY DEF IInv, OwnersBelong, Keys, history, MayOwn
<1> QED BY <1>1, <1>2, <1>3, GrantedStays DEF IInv, client

\* Splitting keeps the rules there are, and parts have the owner of their rule.
LEMMA SplitRules ==
  ASSUME NEW rs \in RuleTable, NEW rows \in SUBSET (Ids \X Ids), NEW i \in Ids,
         SplitWith(rs, rows, i)
  PROVE  /\ rules' \in RuleTable /\ made' \subseteq Ids \X Ids
         /\ \A j \in Ids : rs[j] # NoRule => rules'[j] = rs[j]
         /\ \A j \in Used' : \E r \in Ids :
              /\ rs[r] # NoRule
              /\ rules'[j].user = rs[r].user /\ rules'[j].org = rs[r].org
<1> DEFINE pairs == {p \in Ids \X Ids : Splits(rs, p[1], p[2]) /\ i \in {p[1], p[2]}}
<1>1. PICK fresh \in SUBSET {j \in Ids : rs[j] = NoRule} :
           \E of \in [fresh -> pairs], net \in [fresh -> Net] :
             /\ \A j \in fresh : \E rule \in rs[of[j][1]].nets, wl \in rs[of[j][2]].nets :
                  net[j] \subseteq rule \ wl
             /\ rules' = [j \in Ids |->
                  IF j \in fresh
                  THEN [table |-> "RTBH", user |-> rs[of[j][1]].user,
                        org |-> rs[of[j][1]].org, nets |-> {net[j]}]
                  ELSE rs[j]]
             /\ made' = rows \cup {<<of[j][2], j>> : j \in fresh}
  BY DEF SplitWith
<1>2. PICK of \in [fresh -> pairs], net \in [fresh -> Net] :
             /\ rules' = [j \in Ids |->
                  IF j \in fresh
                  THEN [table |-> "RTBH", user |-> rs[of[j][1]].user,
                        org |-> rs[of[j][1]].org, nets |-> {net[j]}]
                  ELSE rs[j]]
             /\ made' = rows \cup {<<of[j][2], j>> : j \in fresh}
  BY <1>1
<1>3. \A j \in fresh : of[j] \in pairs /\ net[j] \in Net
  BY <1>2
<1>4. \A p \in pairs : p[1] \in Ids /\ p[2] \in Ids /\ rs[p[1]] # NoRule
  BY DEF Splits
<1> HIDE DEF pairs
<1>5. \A j \in fresh : /\ of[j][1] \in Ids /\ of[j][2] \in Ids
                       /\ rs[of[j][1]] # NoRule
  BY <1>3, <1>4
<1>6. \A j \in fresh : rs[of[j][1]] \in Rule
  BY <1>5 DEF RuleTable
<1>7. \A j \in fresh : [table |-> "RTBH", user |-> rs[of[j][1]].user,
                        org |-> rs[of[j][1]].org, nets |-> {net[j]}] \in Rule
  <2> SUFFICES ASSUME NEW j \in fresh
               PROVE  [table |-> "RTBH", user |-> rs[of[j][1]].user,
                       org |-> rs[of[j][1]].org, nets |-> {net[j]}] \in Rule
    OBVIOUS
  <2>1. rs[of[j][1]].user \in UserIds /\ rs[of[j][1]].org \in OrgIds
    BY <1>6 DEF Rule
  <2>2. {net[j]} \in SUBSET Net
    BY <1>3
  <2> QED BY <2>1, <2>2 DEF Rule, Table
<1>8. rules' \in RuleTable
  BY <1>2, <1>7 DEF RuleTable
<1>9. made' \subseteq Ids \X Ids
  BY <1>1, <1>2, <1>5
<1>10. \A j \in Ids : rs[j] # NoRule => rules'[j] = rs[j]
  BY <1>1, <1>2
<1>11. ASSUME NEW j \in Used'
       PROVE  \E r \in Ids :
                /\ rs[r] # NoRule
                /\ rules'[j].user = rs[r].user /\ rules'[j].org = rs[r].org
  <2>1. j \in Ids /\ rules'[j] # NoRule
    BY DEF Used
  <2>2. CASE j \in fresh
    BY <1>2, <1>5, <2>1, <2>2
  <2>3. CASE j \notin fresh
    BY <1>2, <2>1, <2>3
  <2> QED BY <2>2, <2>3
<1> QED BY <1>8, <1>9, <1>10, <1>11

\* So splitting a table of rules whose owners may own them is no harm.
LEMMA SplitStep ==
  ASSUME IInv, UNCHANGED <<users, orgs, keys, client, history>>,
         NEW rs \in RuleTable, NEW rows \in SUBSET (Ids \X Ids), NEW i \in Ids,
         \A j \in Ids : rs[j] # NoRule => MayOwn(rs[j].user, rs[j].org),
         SplitWith(rs, rows, i)
  PROVE  IInv'
<1>1. /\ rules' \in RuleTable /\ made' \subseteq Ids \X Ids
      /\ \A j \in Used' : \E r \in Ids :
           /\ rs[r] # NoRule
           /\ rules'[j].user = rs[r].user /\ rules'[j].org = rs[r].org
  BY SplitRules
<1>2. \A j \in Used' : MayOwn(rules'[j].user, rules'[j].org)
  BY <1>1
<1> QED BY <1>1, <1>2, RulesStep

LEMMA SaveStep ==
  ASSUME IInv, UNCHANGED <<users, orgs, keys, client, history>>,
         NEW i \in Ids, NEW table \in Table, NEW u, NEW o, NEW nets \in SUBSET Net,
         MayOwn(u, o), Save(i, table, u, o, nets)
  PROVE  IInv'
<1> DEFINE rule == [table |-> table, user |-> u, org |-> o, nets |-> nets]
           rs == [rules EXCEPT ![i] = rule]
<1>1. rule \in Rule /\ rule.user = u /\ rule.org = o
  BY DEF Rule, MayOwn, Existing, Organizations
<1>2. SplitWith(rs, made, i)
  BY DEF Save
<1> HIDE DEF rule
<1>3. rs \in RuleTable
  BY <1>1 DEF IInv, TypeOK, RuleTable
<1>4. \A j \in Ids : rs[j] = IF j = i THEN rule ELSE rules[j]
  BY DEF IInv, TypeOK
<1> HIDE DEF rs
<1>5. \A j \in Ids : rs[j] # NoRule => MayOwn(rs[j].user, rs[j].org)
  BY <1>1, <1>4, OwnersMayOwn DEF Used
<1>6. made \in SUBSET (Ids \X Ids)
  BY DEF IInv, TypeOK
<1> QED BY <1>2, <1>3, <1>5, <1>6, SplitStep

\* Of rules and rows fewer.
LEMMA FewerRules ==
  ASSUME IInv, NEW ids \in SUBSET Ids
  PROVE  /\ Without(rules, ids) \in RuleTable /\ RowsWithout(ids) \in SUBSET (Ids \X Ids)
         /\ \A j \in Ids : Without(rules, ids)[j] = IF j \in ids THEN NoRule ELSE rules[j]
BY DEF IInv, TypeOK, RuleTable, Without, RowsWithout

LEMMA RemoveStep ==
  ASSUME IInv, UNCHANGED <<users, orgs, keys, client, history>>,
         NEW ids \in SUBSET Ids, Remove(ids)
  PROVE  IInv'
<1>1. /\ rules' \in RuleTable /\ made' \subseteq Ids \X Ids
      /\ \A j \in Ids : rules'[j] = IF j \in ids THEN NoRule ELSE rules[j]
  BY FewerRules DEF Remove
<1>2. \A j \in Used' : j \in Used /\ rules'[j] = rules[j]
  BY <1>1 DEF Used
<1>3. \A j \in Used' : MayOwn(rules'[j].user, rules'[j].org)
  BY <1>2, OwnersMayOwn
<1> QED BY <1>1, <1>3, RulesStep

\* The session and the token may own what they store.
LEMMA SessionMayOwn ==
  ASSUME IInv, SessionOwner
  PROVE  MayOwn(session.user, session.org)
<1>1. /\ session # NoSession
      /\ session.user \in Existing /\ session.org \in Organizations
  BY DEF SessionOwner
<1>2. session.org # NoOrg
  BY <1>1, NoneAssumption DEF Organizations
<1> QED BY <1>1, <1>2 DEF IInv, Granted, SessionGranted, MayOwn

LEMMA CreateRuleStep ==
  ASSUME IInv, NEW i \in Ids, NEW table \in Table, NEW nets \in SUBSET Net,
         CreateRule(i, table, nets)
  PROVE  IInv'
<1>1. /\ SessionOwner /\ Save(i, table, session.user, session.org, nets)
      /\ UNCHANGED <<users, orgs, keys, client, history>>
  BY DEF CreateRule
<1> QED BY <1>1, SessionMayOwn, SaveStep

LEMMA ApiCreateRuleStep ==
  ASSUME IInv, NEW i \in Ids, NEW table \in Table, NEW nets \in SUBSET Net,
         ApiCreateRule(i, table, nets)
  PROVE  IInv'
<1>1. /\ token # NoToken
      /\ token.user \in Existing /\ token.org \in Organizations
      /\ Save(i, table, token.user, token.org, nets)
      /\ UNCHANGED <<users, orgs, keys, client, history>>
  BY DEF ApiCreateRule
<1>2. MayOwn(token.user, token.org)
  BY <1>1 DEF IInv, Granted, TokenGranted, MayOwn
<1> QED BY <1>1, <1>2, SaveStep

LEMMA RulesAreTable ==
  ASSUME IInv
  PROVE  /\ rules \in RuleTable /\ made \in SUBSET (Ids \X Ids)
         /\ \A j \in Ids : rules[j] # NoRule => MayOwn(rules[j].user, rules[j].org)
BY OwnersMayOwn DEF IInv, TypeOK, RuleTable, Used

LEMMA StoreAgainStep ==
  ASSUME IInv, NEW i \in Ids, StoreAgain(i)
  PROVE  IInv'
<1>1. /\ SplitWith(rules, made, i)
      /\ UNCHANGED <<users, orgs, keys, client, history>>
  BY DEF StoreAgain
<1> QED BY <1>1, RulesAreTable, SplitStep

LEMMA DeleteRulesStep ==
  ASSUME IInv, NEW table \in Table, NEW ids \in SUBSET Ids, DeleteRules(table, ids)
  PROVE  IInv'
<1>1. Remove(ids) /\ UNCHANGED <<users, orgs, keys, client, history>>
  BY DEF DeleteRules
<1> QED BY <1>1, RemoveStep

LEMMA DeleteWhitelistStep ==
  ASSUME IInv, NEW w \in Ids, delete_whitelist(w)
  PROVE  IInv'
<1>1. /\ Remove({w} \cup PartsOf(w)) /\ UNCHANGED <<users, orgs, keys, client, history>>
      /\ {w} \cup PartsOf(w) \in SUBSET Ids
  BY DEF delete_whitelist, PartsOf
<1> QED BY <1>1, RemoveStep

LEMMA ApiDeleteRuleStep ==
  ASSUME IInv, NEW i \in Ids, ApiDeleteRule(i)
  PROVE  IInv'
<1>1. Remove({i}) /\ UNCHANGED <<users, orgs, keys, client, history>>
  BY DEF ApiDeleteRule
<1> QED BY <1>1, RemoveStep

LEMMA DeleteAndCreateStep ==
  ASSUME IInv, NEW i \in Ids, NEW w \in Ids, delete_rtbh_and_create_whitelist(i, w)
  PROVE  /\ IInv'
         /\ \A j \in Used : j # i => rules'[j] = rules[j]
<1> DEFINE left == Without(rules, {i})
           wl == [table |-> "whitelist", user |-> session.user, org |-> session.org,
                  nets |-> rules[i].nets]
           rs == [left EXCEPT ![w] = wl]
           rows == RowsWithout({i})
<1>1. /\ UNCHANGED <<users, orgs, keys, client, history>>
      /\ i \in Used
  BY DEF delete_rtbh_and_create_whitelist, get_user_allowed_rule_ids
<1>2. /\ left \in RuleTable /\ rows \in SUBSET (Ids \X Ids)
      /\ \A j \in Ids : left[j] = IF j = i THEN NoRule ELSE rules[j]
  BY FewerRules
<1>3. \A j \in Ids : left[j] # NoRule => MayOwn(left[j].user, left[j].org)
  BY <1>2, OwnersMayOwn DEF Used
<1>4. \/ Remove({i})
      \/ SessionOwner /\ left[w] = NoRule /\ SplitWith(rs, rows, w)
      \/ SplitWith(left, rows, w)
  BY DEF delete_rtbh_and_create_whitelist
<1>5. wl \in Rule \/ ~SessionOwner
  BY <1>1, RuleRow DEF IInv, SessionOwner, Rule, Table, Existing, Organizations
<1>6. wl.user = session.user /\ wl.org = session.org
  OBVIOUS
<1> HIDE DEF wl, left, rows
<1>7. CASE Remove({i})
  <2>1. IInv'
    BY <1>1, <1>7, RemoveStep
  <2> QED BY <1>7, <2>1, FewerRules DEF Remove, Used
<1>8. CASE SplitWith(left, rows, w)
  <2>1. IInv'
    BY <1>1, <1>2, <1>3, <1>8, SplitStep
  <2>2. \A j \in Ids : left[j] # NoRule => rules'[j] = left[j]
    BY <1>2, <1>8, SplitRules
  <2> QED BY <1>2, <2>1, <2>2 DEF Used
<1>9. CASE SessionOwner /\ left[w] = NoRule /\ SplitWith(rs, rows, w)
  <2>1. /\ rs \in RuleTable
        /\ \A j \in Ids : rs[j] = IF j = w THEN wl ELSE left[j]
    BY <1>2, <1>5, <1>9 DEF RuleTable
  <2> HIDE DEF rs
  <2>2. \A j \in Ids : rs[j] # NoRule => MayOwn(rs[j].user, rs[j].org)
    BY <1>3, <1>6, <1>9, <2>1, SessionMayOwn
  <2>3. IInv'
    BY <1>1, <1>2, <1>9, <2>1, <2>2, SplitStep
  <2>4. \A j \in Ids : rs[j] # NoRule => rules'[j] = rs[j]
    BY <1>2, <1>9, <2>1, SplitRules
  <2> QED BY <1>2, <1>9, <2>1, <2>3, <2>4 DEF Used
<1> QED BY <1>4, <1>7, <1>8, <1>9

-----------------------------------------------------------------------------
(* The invariant. *)

LEMMA InitIInv == Init => IInv
<1> SUFFICES ASSUME Init PROVE IInv
  OBVIOUS
<1>1. /\ orgs \in [OrgIds -> Organization \cup {NoOrg}]
      /\ users \in [UserIds -> [level : Level, orgs : SUBSET Organizations \ {{}}]
                               \cup {NoUser}]
      /\ Used = {} /\ Keys = {}
  BY DEF Init, Used, Keys
<1>2. Organizations \subseteq OrgIds
  BY DEF Organizations
<1>3. [level : Level, orgs : SUBSET Organizations \ {{}}] \subseteq User
  BY <1>2 DEF User
<1>4. TypeOK
  <2>1. edits \in 0 .. MaxEdits
    BY BoundAssumption DEF Init
  <2> QED BY <1>1, <1>3, <2>1 DEF Init, TypeOK, Memberships, Administrators
<1>5. MembersExist
  BY <1>1, NoneAssumption DEF MembersExist, Existing
<1>6. Granted
  BY DEF Init, Granted, Recorded, SessionGranted, TokenGranted
<1> QED BY <1>1, <1>4, <1>5, <1>6 DEF IInv, OwnersExist, OwnersBelong

LEMMA NextIInv == IInv /\ [Next]_vars => IInv'
<1> SUFFICES ASSUME IInv, [Next]_vars PROVE IInv'
  OBVIOUS
<1>1. ASSUME NEW u \in UserIds, NEW level \in Level, NEW os \in SUBSET OrgIds,
             InsertUser(u, level, os) \/ EditUser(u, level, os)
      PROVE  IInv'
  BY <1>1, WriteUserStep
<1>2. ASSUME NEW u \in UserIds, DeleteUser(u) \/ Login(u)
      PROVE  IInv'
  BY <1>2, DeleteUserStep, LoginStep
<1>3. ASSUME NEW o \in OrgIds, NEW arange \in SUBSET RangeNet,
             AddOrganization(o, arange) \/ EditOrganization(o, arange)
      PROVE  IInv'
  BY <1>3, WriteOrganizationStep
<1>4. ASSUME NEW o \in OrgIds, DeleteOrganization(o) \/ select_org(o)
      PROVE  IInv'
  BY <1>4, DeleteOrganizationStep, SelectOrgStep
<1>5. ASSUME NEW k \in KeyIds, NEW u \in UserIds, NEW o \in OrgIds, AddMachineKey(k, u, o)
      PROVE  IInv'
  BY <1>5, AddMachineKeyStep
<1>6. ASSUME NEW k \in KeyIds,
             DeleteMachineKey(k) \/ AddKey(k) \/ DeleteKey(k) \/ authorize(k)
      PROVE  IInv'
  BY <1>6, DeleteMachineKeyStep, AddKeyStep, DeleteKeyStep, AuthorizeStep
<1>7. ASSUME Logout \/ ListKeys \/ TokenExpires
      PROVE  IInv'
  BY <1>7, LogoutStep, ListKeysStep, TokenExpiresStep
<1>8. ASSUME NEW i \in Ids, NEW table \in Table, NEW nets \in SUBSET Net,
             CreateRule(i, table, nets) \/ ApiCreateRule(i, table, nets)
      PROVE  IInv'
  BY <1>8, CreateRuleStep, ApiCreateRuleStep
<1>9. ASSUME NEW table \in Table, NEW ids \in SUBSET Ids, DeleteRules(table, ids)
      PROVE  IInv'
  BY <1>9, DeleteRulesStep
<1>10. ASSUME NEW i \in Ids, NEW w \in Ids, delete_rtbh_and_create_whitelist(i, w)
       PROVE  IInv'
  BY <1>10, DeleteAndCreateStep
<1>11. ASSUME NEW i \in Ids, StoreAgain(i) \/ delete_whitelist(i) \/ ApiDeleteRule(i)
       PROVE  IInv'
  BY <1>11, StoreAgainStep, DeleteWhitelistStep, ApiDeleteRuleStep
<1>12. CASE UNCHANGED vars
  <2>1. TypeOK' /\ UNCHANGED <<tables, session, token, history>>
    BY <1>12 DEF vars, IInv, TypeOK, tables, history
  <2>2. OwnersExist' /\ OwnersBelong'
    BY <2>1, TablesStay DEF history
  <2> QED BY <2>1, <2>2, GrantedStays DEF IInv, tables
<1> QED BY <1>1, <1>2, <1>3, <1>4, <1>5, <1>6, <1>7, <1>8, <1>9, <1>10, <1>11, <1>12
        DEF Next

LEMMA AlwaysIInv == Spec => []IInv
BY InitIInv, NextIInv, PTL DEF Spec

-----------------------------------------------------------------------------
(* Theorems. *)

\* The tables, the session and the token hold what their columns may hold.
THEOREM TypeCorrect == Spec => []TypeOK
BY AlwaysIInv, PTL DEF IInv

\* No rule and no key is left without its user or its organization, whatever the
\* administrators delete between the login or the key and its use.
THEOREM OwnersStay == Spec => []OwnersExist
BY AlwaysIInv, PTL DEF IInv

\* Rules and keys count for an organization their user was a member of, but for
\* the organization a login finds in the session.
THEOREM OwnersBelonged == Spec => []OwnersBelong
BY AlwaysIInv, PTL DEF IInv

\* What removing ids changes is among them.
LEMMA RemovedIsAmong ==
  ASSUME IInv, NEW i \in Used, NEW ids \in SUBSET Ids, Remove(ids), rules'[i] # rules[i]
  PROVE  i \in ids /\ rules'[i] = NoRule
BY FewerRules DEF Remove, Used

\* A deleted rule was one the session or the token had a right to, or goes with its
\* whitelist.
LEMMA StepDeletesByRight ==
  ASSUME IInv, [Next]_vars, NEW i \in Used, rules'[i] # rules[i]
  PROVE  MayDelete(rules[i]) \/ GoesWithWhitelist(i)
<1>1. i \in Ids /\ rules[i] \in Rule /\ rules[i].nets \subseteq Net /\ rules[i] # NoRule
  BY RuleRow DEF IInv, Used
\* The pages.
<1>2. ASSUME session # NoSession, NEW table \in Table,
             i \in get_user_allowed_rule_ids(table)
      PROVE  MayDelete(rules[i])
  <2>1. CASE session.level = Admin
    BY <1>2, <2>1 DEF IInv, Granted, SessionGranted, MayDelete, WasAdmin
  <2>2. CASE session.level # Admin
    BY <1>2, <2>2 DEF get_user_allowed_rule_ids, Filtered, MayDelete
  <2> QED BY <2>1, <2>2
<1>3. ASSUME NEW table \in Table, NEW ids \in SUBSET Ids, DeleteRules(table, ids)
      PROVE  MayDelete(rules[i])
  <2>1. i \in ids
    BY <1>3, RemovedIsAmong DEF DeleteRules
  <2> QED BY <1>2, <1>3, <2>1 DEF DeleteRules, CanEdit
<1>4. ASSUME NEW j \in Ids, NEW w \in Ids, delete_rtbh_and_create_whitelist(j, w)
      PROVE  MayDelete(rules[i])
  <2>1. j = i
    BY <1>4, DeleteAndCreateStep
  <2>2. i \in get_user_allowed_rule_ids("RTBH")
    BY <1>4, <2>1 DEF delete_rtbh_and_create_whitelist
  <2> QED BY <1>2, <1>4, <2>2 DEF delete_rtbh_and_create_whitelist, CanEdit, Table
<1>5. ASSUME NEW w \in Ids, delete_whitelist(w)
      PROVE  MayDelete(rules[i]) \/ GoesWithWhitelist(i)
  <2>1. /\ CanEdit /\ w \in get_user_allowed_rule_ids("whitelist")
        /\ Remove({w} \cup PartsOf(w)) /\ {w} \cup PartsOf(w) \in SUBSET Ids
    BY <1>5 DEF delete_whitelist, PartsOf
  <2>2. /\ i \in {w} \cup PartsOf(w)
        /\ w \in Used /\ rules[w].table = "whitelist"
    BY <2>1, RemovedIsAmong DEF get_user_allowed_rule_ids
  <2>3. rules'[w] = NoRule
    BY <2>1, FewerRules DEF Remove
  <2>4. CASE i = w
    BY <1>2, <2>1, <2>4 DEF CanEdit, Table
  <2>5. CASE i \in PartsOf(w)
    BY <2>1, <2>2, <2>3, <2>5 DEF PartsOf, GoesWithWhitelist
  <2> QED BY <2>2, <2>4, <2>5
\* The API.
<1>6. ASSUME NEW j \in Ids, ApiDeleteRule(j)
      PROVE  MayDelete(rules[i])
  <2>1. j = i
    BY <1>6, RemovedIsAmong DEF ApiDeleteRule
  <2> QED BY <1>6, <2>1 DEF ApiDeleteRule, IInv, Granted, TokenGranted, MayDelete, WasAdmin
\* What stores rules leaves those there are as they are.
<1>7. ASSUME NEW j \in Ids, NEW table \in Table, NEW u, NEW o, NEW nets \in SUBSET Net,
             MayOwn(u, o), Save(j, table, u, o, nets)
      PROVE  FALSE
  <2> DEFINE rule == [table |-> table, user |-> u, org |-> o, nets |-> nets]
             rs == [rules EXCEPT ![j] = rule]
  <2>1. rule \in Rule
    BY <1>7 DEF Rule, MayOwn, Existing, Organizations
  <2>2. SplitWith(rs, made, j) /\ rules[j] = NoRule /\ made \in SUBSET (Ids \X Ids)
    BY <1>7 DEF Save, IInv, TypeOK
  <2> HIDE DEF rule
  <2>3. rs \in RuleTable /\ rs[i] = rules[i]
    BY <1>1, <2>1, <2>2 DEF IInv, TypeOK, RuleTable
  <2> HIDE DEF rs
  <2> QED BY <1>1, <2>2, <2>3, SplitRules
<1>8. ASSUME NEW j \in Ids, NEW table \in Table, NEW nets \in SUBSET Net,
             CreateRule(j, table, nets) \/ ApiCreateRule(j, table, nets)
      PROVE  FALSE
  <2>1. CASE CreateRule(j, table, nets)
    BY <1>7, <2>1, SessionMayOwn DEF CreateRule
  <2>2. CASE ApiCreateRule(j, table, nets)
    <3>1. MayOwn(token.user, token.org)
      BY <2>2 DEF ApiCreateRule, IInv, Granted, TokenGranted, MayOwn
    <3> QED BY <1>7, <2>2, <3>1 DEF ApiCreateRule
  <2> QED BY <1>8, <2>1, <2>2
<1>9. ASSUME NEW j \in Ids, StoreAgain(j)
      PROVE  FALSE
  BY <1>1, <1>9, RulesAreTable, SplitRules DEF StoreAgain
\* The other actions change no rule.
<1>10. ASSUME NEW u \in UserIds, NEW level \in Level, NEW os \in SUBSET OrgIds,
              InsertUser(u, level, os) \/ EditUser(u, level, os)
       PROVE  FALSE
  BY <1>10 DEF InsertUser, EditUser
<1>11. ASSUME NEW u \in UserIds, DeleteUser(u) \/ Login(u)
       PROVE  FALSE
  BY <1>11 DEF DeleteUser, Login, tables
<1>12. ASSUME NEW o \in OrgIds, NEW arange \in SUBSET RangeNet,
              AddOrganization(o, arange) \/ EditOrganization(o, arange)
       PROVE  FALSE
  BY <1>12 DEF AddOrganization, EditOrganization
<1>13. ASSUME NEW o \in OrgIds, DeleteOrganization(o) \/ select_org(o)
       PROVE  FALSE
  BY <1>13 DEF DeleteOrganization, select_org, tables
<1>14. ASSUME NEW k \in KeyIds, NEW u \in UserIds, NEW o \in OrgIds, AddMachineKey(k, u, o)
       PROVE  FALSE
  BY <1>14 DEF AddMachineKey
<1>15. ASSUME NEW k \in KeyIds,
              DeleteMachineKey(k) \/ AddKey(k) \/ DeleteKey(k) \/ authorize(k)
       PROVE  FALSE
  BY <1>15 DEF DeleteMachineKey, AddKey, DeleteKey, authorize, tables
<1>16. ASSUME Logout \/ ListKeys \/ TokenExpires
       PROVE  FALSE
  BY <1>16 DEF Logout, ListKeys, TokenExpires, tables
<1>17. ASSUME UNCHANGED vars
       PROVE  FALSE
  BY <1>17 DEF vars
<1>18. CASE Next
  BY <1>3, <1>4, <1>5, <1>6, <1>8, <1>9, <1>10, <1>11, <1>12, <1>13, <1>14, <1>15,
     <1>16, <1>18 DEF Next
<1> QED BY <1>17, <1>18

\* Nobody deletes a rule without a right to it: the owner's token, a session
\* whose user's ranges have one of its networks at that moment, or a session or a token
\* of a user who is or was an administrator; of whitelists, any session that may edit,
\* and with a whitelist go the parts of rules that it made, whoever owns them.
THEOREM DeletersHaveRight == Spec => DeletedByRight
<1>1. IInv /\ [Next]_vars =>
        [\A i \in Used : rules'[i] # rules[i] =>
           MayDelete(rules[i]) \/ GoesWithWhitelist(i)]_vars
  BY StepDeletesByRight
<1> QED BY <1>1, AlwaysIInv, PTL DEF Spec, DeletedByRight

=============================================================================
