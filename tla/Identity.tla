------------------------------- MODULE Identity -------------------------------
(****************************************************************************)
(* Accounts, roles and API keys: the login with its directory and its local *)
(* fallback, the administration of users, group mappings and keys.          *)
(*                                                                          *)
(* A Worker is one HTTP request in flight.  It loads rows into its session, *)
(* and what it changes is committed in one step when it ends, writing only  *)
(* the columns whose value differs from the loaded one; an error answer     *)
(* rolls everything back, audit events included.  The directory is asked in *)
(* between, after the group mappings were read.                             *)
(****************************************************************************)
EXTENDS Integers, Sequences

CONSTANTS
  Worker,      \* requests that can be in flight together
  Account,     \* user names, typed or stored
  Directory,   \* the user name the directory has for whoever is typed as
  LocalAdmin,  \* LOCAL_ADMIN_USERNAME
  Group,       \* groups of the directory
  Bootstrap,   \* LDAP_*_GROUP_DN: <<group, role>> pairs
  Mappings,    \* bound: the <<group, role>> pairs administrators enter
  Overrides,   \* bound: the role lists administrators enter
  Key,         \* API keys
  NoKey,       \* none of them
  MaxCalls     \* bound: requests in a behaviour

Role == {"admin", "steward", "reader", "service"}

ASSUME IdentityAssumption ==
  /\ LocalAdmin \in Account
  /\ Directory \in [Account -> Account]
  /\ Bootstrap \subseteq Group \X Role
  /\ Mappings \subseteq Group \X Role
  /\ Overrides \subseteq SUBSET Role
  /\ MaxCalls \in Nat

VARIABLES
  user,      \* mdm_meta.app_user, by user name
  mappings,  \* the active rows of mdm_meta.ldap_group_role
  key,       \* what became of each API key
  audit,     \* the committed events that say what an account may do
  session,   \* the accounts a token was issued for
  req,       \* the request each worker is serving
  calls      \* requests left

vars == <<user, mappings, key, audit, session, req, calls>>

NoUser == [source |-> "none", roles |-> {}, active |-> FALSE]

UserRow ==
  {NoUser} \cup [source : {"local", "ldap"}, roles : SUBSET Role, active : BOOLEAN]

KeyState == {"unissued", "active", "revoked"}

\* A login is on record under the name that was typed, everything else under the
\* actor's account.  current says whether the row the request loaded still held the roles in
\* the database when it was committed; it is read by properties only.
Event ==
  [action : {"login", "user_roles_changed", "user_status_changed", "apikey_created",
             "apikey_revoked"},
   actor : Account, subject : Account \cup Key, roles : SUBSET Role, current : BOOLEAN]

Idle ==
  [pc |-> "idle", name |-> LocalAdmin, actor |-> LocalAdmin, loaded |-> NoUser,
   new |-> NoUser, mappings |-> {}, key |-> NoKey]

(* ensure_local_admin at start-up; the account exists from then on. *)
Init ==
  /\ user = [a \in Account |->
       IF a = LocalAdmin THEN [source |-> "local", roles |-> {"admin"}, active |-> TRUE]
                         ELSE NoUser]
  /\ mappings = {}
  /\ key = [k \in Key |-> "unissued"]
  /\ audit = <<>>
  /\ session = {}
  /\ req = [w \in Worker |-> Idle]
  /\ calls = MaxCalls

----------------------------------------------------------------------------
(* Authorisation.                                                           *)

PERMISSIONS ==
  [admin   |-> {"user:manage", "apikey:manage", "settings:manage", "data:write"},
   steward |-> {"data:write"},
   reader  |-> {},
   service |-> {"data:write"}]

HasPermission(roles, permission) == \E r \in roles : permission \in PERMISSIONS[r]

\* Whoever signed in holds a token, whatever became of the account since.
SignedIn(a) == a \in session

\* get_current_principal and require_permission: the account and its roles are
\* read from the database, never from the session.
Authorised(a, permission) ==
  /\ SignedIn(a)
  /\ user[a].active
  /\ HasPermission(user[a].roles, permission)

----------------------------------------------------------------------------
(* The life of a request.                                                   *)

Begin(w, r) ==
  /\ req[w].pc = "idle"
  /\ calls > 0
  /\ calls' = calls - 1
  /\ req' = [req EXCEPT ![w] = r]
  /\ UNCHANGED <<user, mappings, key, audit, session>>

\* An error answer: the session is rolled back.
Refuse(w) ==
  /\ req' = [req EXCEPT ![w] = Idle]
  /\ UNCHANGED <<user, mappings, key, audit, session, calls>>

Entry(action, actor, subject, roles, current) ==
  [action |-> action, actor |-> actor, subject |-> subject, roles |-> roles,
   current |-> current]

\* Variant: the whole row is written, as loaded where it was not changed.
WrittenWhole(row, loaded, new) == new

\* The ORM's UPDATE: the columns that differ from the loaded row.
Written(row, loaded, new) ==
  [source |-> IF new.source = loaded.source THEN row.source ELSE new.source,
   roles  |-> IF new.roles = loaded.roles THEN row.roles ELSE new.roles,
   active |-> IF new.active = loaded.active THEN row.active ELSE new.active]

Commit(w, event) ==
  /\ user' = [user EXCEPT ![req[w].name] = Written(@, req[w].loaded, req[w].new)]
  /\ audit' = Append(audit, event)
  /\ req' = [req EXCEPT ![w] = Idle]
  /\ UNCHANGED <<mappings, key, calls>>

\* create_access_token, for the account and not for the name that was typed.
SignIn(w) == session' = session \cup {req[w].name}

RolesCurrent(w) == user[req[w].name].roles = req[w].loaded.roles

----------------------------------------------------------------------------
(* Login.                                                                   *)

BeginLogin(w) ==
  \E a \in Account :
    Begin(w, [Idle EXCEPT !.pc = "directory", !.name = a, !.actor = a, !.mappings = mappings])

\* map_roles: the environment's groups count while no mapping is active.
MapRoles(groups, pairs) ==
  LET Effective == IF pairs = {} THEN Bootstrap ELSE pairs
  IN  {p[2] : p \in {q \in Effective : q[1] \in groups}}

\* _upsert_ldap_user: the directory's account, whatever the row was before.
Sync(roles) == [source |-> "ldap", roles |-> roles, active |-> TRUE]

\* Variant: the account is written before its roles are looked at, and stays.
Unquestioned(roles) == TRUE

\* A login that grants no role is refused.
Granting(roles) == roles # {}

\* Variant: the account of the name that was typed.
AsTyped(name) == name

\* The directory's own user name (LDAP_ATTR_USERNAME of the entry its filter found).
Resolved(name) == Directory[name]

\* The directory accepts the password: its account is loaded and synchronised.
DirectoryAccepts(w) ==
  /\ req[w].pc = "directory"
  /\ \E groups \in SUBSET Group :
       LET a == Resolved(req[w].name)
           roles == MapRoles(groups, req[w].mappings)
       IN  IF Granting(roles)
             THEN /\ req' = [req EXCEPT ![w] = [@ EXCEPT !.pc = "synced", !.name = a,
                                                           !.loaded = user[a], !.new = Sync(roles)]]
                  /\ UNCHANGED <<user, mappings, key, audit, session, calls>>
             ELSE Refuse(w)

\* The transaction ends; a second creation of the account hits uq_user_username.
CommitLogin(w) ==
  /\ req[w].pc = "synced"
  /\ IF req[w].loaded = NoUser /\ user[req[w].name] # NoUser
       THEN Refuse(w)
       ELSE /\ SignIn(w)
            /\ Commit(w, Entry("login", req[w].actor, req[w].actor, req[w].new.roles,
                               RolesCurrent(w)))

\* The directory refuses the password or cannot be asked: an active local
\* account signs in with its own password.
FallBack(w) ==
  /\ req[w].pc = "directory"
  /\ LET row == user[req[w].name]
     IN  IF row.source = "local" /\ row.active
           THEN /\ req' = [req EXCEPT ![w] = [@ EXCEPT !.pc = "local", !.loaded = row, !.new = row]]
                /\ UNCHANGED <<user, mappings, key, audit, session, calls>>
           ELSE Refuse(w)

\* Only last_login_at changes; the event says no roles.
CommitLocal(w) ==
  /\ req[w].pc = "local"
  /\ SignIn(w)
  /\ Commit(w, Entry("login", req[w].actor, req[w].actor, {}, FALSE))

----------------------------------------------------------------------------
(* Administration of accounts.                                              *)

\* Variant: an account nobody created can be administered.
AnyName(a) == TRUE

\* "User not found."
Exists(a) == user[a] # NoUser

\* set_user_roles: checked, and the account loaded.
BeginSetRoles(w) ==
  \E actor, a \in Account, roles \in Overrides :
    /\ Authorised(actor, "user:manage")
    /\ Exists(a)
    /\ Begin(w, [Idle EXCEPT !.pc = "roles", !.name = a, !.actor = actor,
                             !.loaded = user[a], !.new = [user[a] EXCEPT !.roles = roles]])

CommitRoles(w) ==
  /\ req[w].pc = "roles"
  /\ Commit(w, Entry("user_roles_changed", req[w].actor, req[w].name, req[w].new.roles,
                     RolesCurrent(w)))
  /\ UNCHANGED session

\* "You cannot disable your own account."
OtherAccount(actor, a, active) == active \/ a # actor

\* set_user_status.
BeginSetStatus(w) ==
  \E actor, a \in Account, active \in BOOLEAN :
    /\ Authorised(actor, "user:manage")
    /\ Exists(a)
    /\ OtherAccount(actor, a, active)
    /\ Begin(w, [Idle EXCEPT !.pc = "status", !.name = a, !.actor = actor,
                             !.loaded = user[a], !.new = [user[a] EXCEPT !.active = active]])

CommitStatus(w) ==
  /\ req[w].pc = "status"
  /\ Commit(w, Entry("user_status_changed", req[w].actor, req[w].name, {}, FALSE))
  /\ UNCHANGED session

----------------------------------------------------------------------------
(* Group mappings and API keys: one short transaction each, no later step   *)
(* depends on what they read.                                               *)

Short(w) ==
  /\ req[w].pc = "idle"
  /\ calls > 0
  /\ calls' = calls - 1
  /\ UNCHANGED <<user, session, req>>

\* require_admin, and "Mapping already exists."
CreateMapping(w) ==
  \E actor \in Account, m \in Mappings \ mappings :
    /\ SignedIn(actor) /\ user[actor].active /\ "admin" \in user[actor].roles
    /\ Short(w)
    /\ mappings' = mappings \cup {m}
    /\ UNCHANGED <<key, audit>>

DeleteMapping(w) ==
  \E actor \in Account, m \in mappings :
    /\ SignedIn(actor) /\ user[actor].active /\ "admin" \in user[actor].roles
    /\ Short(w)
    /\ mappings' = mappings \ {m}
    /\ UNCHANGED <<key, audit>>

\* create_api_key; the secret is new, so is the key.
IssueKey(w) ==
  \E actor \in Account, k \in Key :
    /\ Authorised(actor, "apikey:manage")
    /\ key[k] = "unissued"
    /\ Short(w)
    /\ key' = [key EXCEPT ![k] = "active"]
    /\ audit' = Append(audit, Entry("apikey_created", actor, k, {}, FALSE))
    /\ UNCHANGED mappings

\* revoke_api_key, of a key in any state.
RevokeKey(w) ==
  \E actor \in Account, k \in Key :
    /\ Authorised(actor, "apikey:manage")
    /\ key[k] # "unissued"
    /\ Short(w)
    /\ key' = [key EXCEPT ![k] = "revoked"]
    /\ audit' = Append(audit, Entry("apikey_revoked", actor, k, {}, FALSE))
    /\ UNCHANGED mappings

\* authenticate_api_key finds the active record.  The write it admits to landing
\* is not followed here; last_used_at is committed with it.
BeginKeyUse(w) ==
  \E k \in Key :
    /\ key[k] = "active"
    /\ Begin(w, [Idle EXCEPT !.pc = "key", !.key = k])

\* Variant: the record is written back whole.
KeyWrittenWhole(k) == "active"

\* Only last_used_at differs from the loaded record.
KeyWritten(k) == key[k]

CommitKeyUse(w) ==
  /\ req[w].pc = "key"
  /\ key' = [key EXCEPT ![req[w].key] = KeyWritten(req[w].key)]
  /\ req' = [req EXCEPT ![w] = Idle]
  /\ UNCHANGED <<user, mappings, audit, session, calls>>

\* A wrong password, an error or a crash before the commit.
Fail(w) == req[w].pc # "idle" /\ Refuse(w)

Next ==
  \E w \in Worker :
    \/ BeginLogin(w) \/ DirectoryAccepts(w) \/ CommitLogin(w) \/ FallBack(w) \/ CommitLocal(w)
    \/ BeginSetRoles(w) \/ CommitRoles(w) \/ BeginSetStatus(w) \/ CommitStatus(w)
    \/ CreateMapping(w) \/ DeleteMapping(w)
    \/ IssueKey(w) \/ RevokeKey(w) \/ BeginKeyUse(w) \/ CommitKeyUse(w)
    \/ Fail(w)

Spec == Init /\ [][Next]_vars

----------------------------------------------------------------------------
(* Properties.                                                              *)

Request ==
  [pc : {"idle", "directory", "synced", "local", "roles", "status", "key"},
   name : Account, actor : Account, loaded : UserRow, new : UserRow,
   mappings : SUBSET (Group \X Role), key : Key \cup {NoKey}]

\* Every variable has its type; an account that nobody created holds nothing.
TypeOK ==
  /\ user \in [Account -> UserRow]
  /\ mappings \subseteq Mappings
  /\ key \in [Key -> KeyState]
  /\ audit \in Seq(Event)
  /\ session \subseteq Account
  /\ req \in [Worker -> Request]
  /\ calls \in 0 .. MaxCalls

\* An event that set an account's roles: an override, or a login under any name
\* the directory has the account for.
Grants(e, a) ==
  \/ e.action = "user_roles_changed" /\ e.subject = a
  \/ e.action = "login" /\ e.roles # {} /\ Directory[e.subject] = a

\* The audit trail explains every account's roles, once the names typed at
\* logins are resolved: they are those of the last event that set them.  (An
\* event committed from a row another request had changed meanwhile explains
\* nothing: a login that computes the roles it had loaded writes none, and one
\* of two overlapping overrides is lost.)
RolesExplained ==
  \A a \in Account :
    LET G == {i \in DOMAIN audit : Grants(audit[i], a)}
    IN  \A i \in G :
          (audit[i].current /\ \A j \in G : j <= i) => user[a].roles = audit[i].roles

\* A directory account without roles was emptied by an administrator: a login
\* that grants none leaves nothing behind.
NoRolelessAccount ==
  \A a \in Account :
    (user[a].source = "ldap" /\ user[a].roles = {}) =>
      \E i \in DOMAIN audit :
        audit[i].action = "user_roles_changed" /\ audit[i].subject = a /\ audit[i].roles = {}

\* Administration is traceable to an appointment: whoever changed accounts or
\* keys had been given the role of administrator in an earlier event (an
\* override, or a login under a name the directory resolves to that account),
\* or is the local administrator.
AdminsAppointed ==
  \A i \in DOMAIN audit :
    (audit[i].action # "login" /\ audit[i].actor # LocalAdmin) =>
      \E j \in 1 .. i - 1 :
        Grants(audit[j], audit[i].actor) /\ "admin" \in audit[j].roles

\* Every key is in the state its events leave it in; use of a key that is
\* being revoked does not bring it back.
KeysOnRecord ==
  \A k \in Key :
    LET Has(action) == \E i \in DOMAIN audit : audit[i].action = action /\ audit[i].subject = k
    IN  key[k] = IF Has("apikey_revoked") THEN "revoked"
                 ELSE IF Has("apikey_created") THEN "active" ELSE "unissued"
=============================================================================
