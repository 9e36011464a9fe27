--------------------------- MODULE Identity_proofs ---------------------------
(* What accounts and keys may do is what the audit trail says, for any      *)
(* number of overlapping requests, accounts, groups and keys.               *)
EXTENDS Identity, TLAPS

\* An account that somebody created.
Created == [source : {"local", "ldap"}, roles : SUBSET Role, active : BOOLEAN]

\* An event made somebody an administrator, or start-up did.
Appointed(a) ==
  a = LocalAdmin \/ \E i \in DOMAIN audit : Grants(audit[i], a) /\ "admin" \in audit[i].roles

\* An administrator took all roles of an account away.
Emptied(a) ==
  \E i \in DOMAIN audit :
    audit[i].action = "user_roles_changed" /\ audit[i].subject = a /\ audit[i].roles = {}

\* What a request means to write, against the row it loaded and the rights of
\* whoever sent it.
Intent(r) ==
  /\ r.loaded # NoUser => user[r.name] # NoUser
  /\ r.pc = "directory" => r.actor = r.name
  /\ r.pc \in {"synced", "local", "roles", "status"} => r.new \in Created
  /\ r.pc = "synced" =>
       r.name = Directory[r.actor] /\ r.new.source = "ldap" /\ r.new.active /\ r.new.roles # {}
  /\ r.pc = "local" => r.actor = r.name /\ r.new = r.loaded /\ r.loaded # NoUser
  /\ r.pc = "roles" =>
       /\ r.loaded # NoUser
       /\ r.new.source = r.loaded.source /\ r.new.active = r.loaded.active
       /\ Appointed(r.actor)
  /\ r.pc = "status" =>
       /\ r.loaded # NoUser
       /\ r.new.source = r.loaded.source /\ r.new.roles = r.loaded.roles
       /\ r.new.active \/ r.name # r.actor
       /\ Appointed(r.actor)
  /\ r.pc = "key" => r.key \in Key

Inv ==
  /\ TypeOK
  /\ \A w \in Worker : Intent(req[w])
  /\ \A a \in Account : "admin" \in user[a].roles => Appointed(a)
  /\ \A a \in Account : user[a] # NoUser /\ user[a].roles = {} => Emptied(a)
  /\ RolesExplained
  /\ AdminsAppointed
  /\ KeysOnRecord

-----------------------------------------------------------------------------
(* The audit trail with one event more.                                     *)
LEMMA Longer ==
  ASSUME audit \in Seq(Event), NEW e \in Event, audit' = Append(audit, e)
  PROVE  /\ audit' \in Seq(Event)
         /\ Len(audit) \in Nat
         /\ DOMAIN audit = 1..Len(audit)
         /\ DOMAIN audit' = 1..(Len(audit) + 1)
         /\ \A i \in 1..Len(audit) : audit'[i] = audit[i]
         /\ audit'[Len(audit) + 1] = e
OBVIOUS

(* Events stay on record.                                                   *)
LEMMA StayOnRecord ==
  ASSUME audit \in Seq(Event), NEW e \in Event, audit' = Append(audit, e)
  PROVE  /\ \A a : Appointed(a) => Appointed(a)'
         /\ \A a : Emptied(a) => Emptied(a)'
<1>1. \A i \in DOMAIN audit : i \in DOMAIN audit' /\ audit'[i] = audit[i]
  BY Longer
<1> QED
  BY <1>1 DEF Appointed, Emptied, Grants

(* An event whose actor had been appointed keeps the trail of appointments  *)
(* complete.                                                                *)
LEMMA TrailKept ==
  ASSUME audit \in Seq(Event), AdminsAppointed, NEW e \in Event, audit' = Append(audit, e),
         e.action # "login" => Appointed(e.actor)
  PROVE  AdminsAppointed'
<1> DEFINE n == Len(audit) + 1
<1>1. /\ n \in Nat /\ DOMAIN audit = 1..(n - 1) /\ DOMAIN audit' = 1..n
      /\ \A i \in 1..(n - 1) : audit'[i] = audit[i]
      /\ audit'[n] = e
  BY Longer
<1> HIDE DEF n
<1> SUFFICES ASSUME NEW i \in DOMAIN audit', audit'[i].action # "login",
                    audit'[i].actor # LocalAdmin
             PROVE  \E j \in 1..i - 1 :
                      Grants(audit'[j], audit'[i].actor) /\ "admin" \in audit'[j].roles
  BY DEF AdminsAppointed, Grants
<1>2. CASE i \in 1..(n - 1)
  <2>1. PICK j \in 1..i - 1 : Grants(audit[j], audit[i].actor) /\ "admin" \in audit[j].roles
    BY <1>1, <1>2 DEF AdminsAppointed
  <2>2. j \in 1..(n - 1) /\ audit'[j] = audit[j] /\ audit'[i] = audit[i]
    BY <1>1, <1>2
  <2> QED
    BY <2>1, <2>2 DEF Grants
<1>3. CASE i = n
  <2>1. PICK j \in DOMAIN audit : Grants(audit[j], e.actor) /\ "admin" \in audit[j].roles
    BY <1>1, <1>3 DEF Appointed
  <2>2. j \in 1..i - 1 /\ audit'[j] = audit[j]
    BY <1>1, <1>3, <2>1
  <2> QED
    BY <1>1, <1>3, <2>1, <2>2 DEF Grants
<1> QED
  BY <1>1, <1>2, <1>3

(* Only administrators manage accounts and keys (PERMISSIONS, deps.py).     *)
LEMMA ManagersAreAdmins ==
  ASSUME NEW roles \in SUBSET Role, NEW permission \in {"user:manage", "apikey:manage"},
         HasPermission(roles, permission)
  PROVE  "admin" \in roles
BY DEF HasPermission, PERMISSIONS, Role

(* The row a commit leaves, column by column.                               *)
LEMMA WrittenRow ==
  ASSUME NEW row \in UserRow, NEW loaded \in UserRow, NEW new \in Created,
         loaded # NoUser => row # NoUser,
         loaded = NoUser => row = NoUser /\ new.active /\ new.roles # {}
  PROVE  LET after == Written(row, loaded, new) IN
         /\ after \in Created
         /\ after.roles = IF new.roles = loaded.roles THEN row.roles ELSE new.roles
         /\ after.active = IF new.active = loaded.active THEN row.active ELSE new.active
BY DEF Written, UserRow, Created, NoUser

(* No row that was created is the one nobody created.                       *)
LEMMA CreatedRow == Created = UserRow \ {NoUser}
<1>1. NoUser \notin Created
  BY DEF Created, NoUser
<1> QED
  BY <1>1 DEF Created, UserRow

-----------------------------------------------------------------------------
(* A step of one request that writes nothing.                               *)
LEMMA RequestStep ==
  ASSUME Inv, NEW w \in Worker, NEW r \in Request, req' = [req EXCEPT ![w] = r], Intent(r),
         UNCHANGED <<user, mappings, key, audit, session>>, calls' \in 0 .. MaxCalls
  PROVE  Inv'
<1>1. /\ \A a : Appointed(a)' = Appointed(a)
      /\ \A a : Emptied(a)' = Emptied(a)
  BY DEF Appointed, Emptied, Grants
<1>2. TypeOK'
  BY DEF Inv, TypeOK
<1>3. \A v \in Worker : Intent(req[v])'
  <2>1. \A v \in Worker : req'[v] = IF v = w THEN r ELSE req[v]
    BY DEF Inv, TypeOK
  <2> QED
    BY <1>1, <2>1 DEF Inv, Intent
<1>4. RolesExplained' /\ AdminsAppointed' /\ KeysOnRecord'
  BY DEF Inv, RolesExplained, AdminsAppointed, KeysOnRecord, Grants
<1> QED
  BY <1>1, <1>2, <1>3, <1>4 DEF Inv

(* A request that is over.                                                  *)
LEMMA IdleIntent == Idle \in Request /\ Idle.pc = "idle" /\ Idle.loaded = NoUser /\ Intent(Idle)
<1>1. NoUser \in UserRow
  BY DEF UserRow
<1>2. Idle \in Request
  BY <1>1, IdentityAssumption DEF Idle, Request
<1> QED
  BY <1>2 DEF Idle, Intent

(* A request refused.                                                       *)
LEMMA RefuseStep == ASSUME Inv, NEW w \in Worker, Refuse(w) PROVE Inv'
<1>1. calls' \in 0 .. MaxCalls
  BY DEF Refuse, Inv, TypeOK
<1> QED
  BY <1>1, IdleIntent, RequestStep DEF Refuse

(* A request begun.                                                         *)
LEMMA BeginStep ==
  ASSUME Inv, NEW w \in Worker, NEW r \in Request, Intent(r), Begin(w, r)
  PROVE  Inv'
<1>1. calls' \in 0 .. MaxCalls
  BY IdentityAssumption DEF Begin, Inv, TypeOK
<1> QED
  BY <1>1, RequestStep DEF Begin

(* The end of a request that writes the account it loaded.                  *)
LEMMA CommitStep ==
  ASSUME Inv, NEW w \in Worker,
         NEW action \in {"login", "user_roles_changed", "user_status_changed"},
         NEW subject \in Account, NEW roles \in SUBSET Role, NEW current \in BOOLEAN,
         req[w].pc \in {"synced", "local", "roles", "status"},
         Commit(w, Entry(action, req[w].actor, subject, roles, current)),
         session' \subseteq Account,
         action # "login" => subject = req[w].name,
         action = "login" /\ roles # {} => req[w].name = Directory[subject],
         req[w].loaded = NoUser => user[req[w].name] = NoUser,
         action # "login" => Appointed(req[w].actor),
         action = "user_roles_changed" \/ (action = "login" /\ roles # {}) =>
           roles = req[w].new.roles /\ (current => RolesCurrent(w)),
         req[w].new.roles # req[w].loaded.roles =>
           /\ action = "user_roles_changed" \/ (action = "login" /\ roles # {})
           /\ roles = {} => action = "user_roles_changed"
  PROVE  Inv'
<1> DEFINE r == req[w]
           e == Entry(action, r.actor, subject, roles, current)
           n == Len(audit) + 1
<1>0. PICK a \in Account : a = r.name
  BY DEF Inv, TypeOK, Request
<1> DEFINE after == Written(user[a], r.loaded, r.new)
<1>1. /\ r \in Request /\ Intent(r) /\ r.actor \in Account
      /\ r.loaded \in UserRow /\ r.new \in Created /\ user[a] \in UserRow
  BY <1>0 DEF Inv, TypeOK, Request, Intent
<1>2. /\ e \in Event /\ e.action = action /\ e.actor = r.actor /\ e.subject = subject
      /\ e.roles = roles /\ e.current = current
  BY <1>1 DEF Entry, Event
<1>2a. /\ action = "user_roles_changed" => e.subject = a
       /\ action = "login" /\ roles # {} => Directory[e.subject] = a
  BY <1>0, <1>2
<1>3. /\ after \in Created
      /\ after.roles = IF r.new.roles = r.loaded.roles THEN user[a].roles ELSE r.new.roles
  <2>1. r.loaded = NoUser => r.new.active /\ r.new.roles # {}
    BY <1>1 DEF Intent
  <2>2. r.loaded # NoUser => user[a] # NoUser
    BY <1>0, <1>1 DEF Intent
  <2>3. r.loaded = NoUser => user[a] = NoUser
    BY <1>0
  <2> HIDE DEF after, r
  <2> QED
    BY <1>1, <2>1, <2>2, <2>3, WrittenRow DEF after
<1>4. /\ user' = [user EXCEPT ![a] = after]
      /\ audit' = Append(audit, e)
      /\ req' = [req EXCEPT ![w] = Idle]
      /\ UNCHANGED <<mappings, key, calls>>
  BY <1>0 DEF Commit
<1>5. RolesCurrent(w) <=> user[a].roles = r.loaded.roles
  BY <1>0 DEF RolesCurrent
<1>6. e.action = "user_roles_changed" \/ (e.action = "login" /\ e.roles # {}) =>
        e.roles = r.new.roles /\ (e.current => RolesCurrent(w))
  BY <1>2
<1>7. r.new.roles # r.loaded.roles =>
        /\ e.action = "user_roles_changed" \/ (e.action = "login" /\ e.roles # {})
        /\ e.roles = {} => e.action = "user_roles_changed"
  BY <1>2
<1>8. e.action # "login" => Appointed(e.actor)
  BY <1>2
<1>9. e.action \notin {"apikey_created", "apikey_revoked"}
  BY <1>2
<1> HIDE DEF r, e, after
<1>10. /\ audit \in Seq(Event) /\ user \in [Account -> UserRow] /\ req \in [Worker -> Request]
       /\ AdminsAppointed /\ RolesExplained /\ KeysOnRecord
  BY DEF Inv, TypeOK
<1>11. /\ n \in Nat \ {0} /\ DOMAIN audit = 1..(n - 1) /\ DOMAIN audit' = 1..n
       /\ \A i \in 1..(n - 1) : audit'[i] = audit[i]
       /\ audit'[n] = e /\ audit' \in Seq(Event)
  BY <1>2, <1>4, <1>10, Longer
<1> HIDE DEF n
<1>12. /\ \A b : Appointed(b) => Appointed(b)'
       /\ \A b : Emptied(b) => Emptied(b)'
  BY <1>2, <1>4, <1>10, StayOnRecord
<1>13. AdminsAppointed'
  BY <1>2, <1>4, <1>8, <1>10, TrailKept
<1>14. user' \in [Account -> UserRow] /\ user'[a] = after /\ user'[a] # NoUser
       /\ \A b \in Account : b # a => user'[b] = user[b]
  BY <1>1, <1>3, <1>4, <1>10, CreatedRow
<1>15. TypeOK'
  BY <1>4, <1>11, <1>14, IdleIntent DEF Inv, TypeOK
<1>16. \A v \in Worker : Intent(req[v])'
  <2>1. \A v \in Worker : req'[v] = IF v = w THEN Idle ELSE req[v]
    BY <1>4, <1>10
  <2>2. \A v \in Worker : req[v].name \in Account /\ Intent(req[v])
    BY <1>10 DEF Inv, Request
  <2>3. \A b \in Account : user[b] # NoUser => user'[b] # NoUser
    BY <1>14
  <2>4. \A v \in Worker \ {w} : Intent(req[v])'
    BY <1>12, <2>1, <2>2, <2>3 DEF Intent
  <2>5. Intent(Idle)'
    BY DEF Idle, Intent
  <2> QED
    BY <2>1, <2>4, <2>5
<1>17. r.new.roles # r.loaded.roles =>
         Grants(e, a) /\ e.roles = r.new.roles
  BY <1>2, <1>2a, <1>6, <1>7 DEF Grants
<1>18. \A b \in Account : "admin" \in user'[b].roles => Appointed(b)'
  <2>1. ASSUME "admin" \in after.roles PROVE Appointed(a)'
    <3>1. CASE r.new.roles = r.loaded.roles
      BY <1>1, <1>3, <1>12, <2>1, <3>1 DEF Inv
    <3>2. CASE r.new.roles # r.loaded.roles
      <4>1. Grants(audit'[n], a) /\ "admin" \in audit'[n].roles /\ n \in DOMAIN audit'
        <5>1. Grants(e, a) /\ e.roles = r.new.roles /\ "admin" \in r.new.roles
          BY <1>3, <1>17, <2>1, <3>2
        <5> QED
          BY <1>11, <5>1
      <4> QED
        BY <4>1 DEF Appointed, Grants
    <3> QED
      BY <3>1, <3>2
  <2> QED
    BY <1>12, <1>14, <2>1 DEF Inv
<1>19. \A b \in Account : user'[b] # NoUser /\ user'[b].roles = {} => Emptied(b)'
  <2>1. ASSUME after.roles = {} PROVE Emptied(a)'
    <3>1. CASE r.new.roles = r.loaded.roles
      <4>1. user[a].roles = {}
        BY <1>3, <2>1, <3>1
      <4>2. CASE user[a] # NoUser
        BY <1>1, <1>12, <4>1, <4>2 DEF Inv
      <4>3. CASE user[a] = NoUser
        <5>1. r.loaded = NoUser
          BY <1>0, <1>1, <4>3 DEF Intent
        <5>2. r.new.roles # {}
          BY <1>1, <5>1 DEF Intent, r
        <5> QED
          BY <3>1, <5>1, <5>2 DEF NoUser
      <4> QED
        BY <4>2, <4>3
    <3>2. CASE r.new.roles # r.loaded.roles
      <4>1. /\ audit'[n].action = "user_roles_changed" /\ audit'[n].subject = a
            /\ audit'[n].roles = {} /\ n \in DOMAIN audit'
        BY <1>2, <1>2a, <1>3, <1>7, <1>11, <1>17, <2>1, <3>2
      <4> QED
        BY <4>1 DEF Emptied
    <3> QED
      BY <3>1, <3>2
  <2> QED
    BY <1>12, <1>14, <2>1 DEF Inv
<1>20. RolesExplained'
  <2> SUFFICES ASSUME NEW b \in Account, NEW i \in DOMAIN audit', Grants(audit'[i], b),
                      audit'[i].current,
                      \A j \in DOMAIN audit' : Grants(audit'[j], b) => j <= i
               PROVE  user'[b].roles = audit'[i].roles
    BY DEF RolesExplained, Grants
  <2>1. CASE i = n
    <3>1. Grants(e, b) /\ e.current /\ b = a
      BY <1>2, <1>2a, <1>11, <2>1 DEF Grants
    <3>2. e.roles = r.new.roles /\ user[a].roles = r.loaded.roles
      BY <1>5, <1>6, <3>1 DEF Grants
    <3> QED
      BY <1>3, <1>11, <1>14, <2>1, <3>1, <3>2
  <2>2. CASE i \in 1..(n - 1)
    <3>1. ~Grants(e, b)
      BY <1>11, <2>2
    <3>2. user[b].roles = audit[i].roles
      <4>1. audit[i] = audit'[i] /\ i \in DOMAIN audit
        BY <1>11, <2>2
      <4>2. \A j \in DOMAIN audit : Grants(audit[j], b) => j <= i
        BY <1>11
      <4> QED
        BY <1>10, <4>1, <4>2 DEF RolesExplained
    <3>3. user'[b].roles = user[b].roles
      BY <1>3, <1>14, <1>17, <3>1
    <3> QED
      BY <1>11, <2>2, <3>2, <3>3
  <2> QED
    BY <1>11, <2>1, <2>2
<1>21. KeysOnRecord'
  <2>1. \A k \in Key, what \in {"apikey_created", "apikey_revoked"} :
          (\E i \in DOMAIN audit' : audit'[i].action = what /\ audit'[i].subject = k) <=>
          (\E i \in DOMAIN audit : audit[i].action = what /\ audit[i].subject = k)
    BY <1>9, <1>11
  <2> QED
    BY <1>4, <1>10, <2>1 DEF KeysOnRecord
<1> QED
  BY <1>13, <1>15, <1>16, <1>18, <1>19, <1>20, <1>21 DEF Inv

-----------------------------------------------------------------------------
(* Logins.                                                                  *)
LEMMA BeginLoginStep == ASSUME Inv, NEW w \in Worker, BeginLogin(w) PROVE Inv'
<1>1. PICK a \in Account :
        Begin(w, [Idle EXCEPT !.pc = "directory", !.name = a, !.actor = a, !.mappings = mappings])
  BY DEF BeginLogin
<1> DEFINE r == [Idle EXCEPT !.pc = "directory", !.name = a, !.actor = a, !.mappings = mappings]
<1>2. mappings \in SUBSET (Group \X Role)
  BY IdentityAssumption DEF Inv, TypeOK
<1>3. r \in Request
  BY <1>2, IdleIntent DEF Request, Idle
<1>4. Intent(r)
  BY DEF Idle, Intent
<1> QED
  BY <1>1, <1>3, <1>4, BeginStep

(* The roles of a login are roles.                                          *)
LEMMA MappedRoles ==
  ASSUME NEW groups, NEW pairs \in SUBSET (Group \X Role)
  PROVE  MapRoles(groups, pairs) \in SUBSET Role
<1>1. \A p \in Group \X Role : p[2] \in Role
  OBVIOUS
<1> QED
  BY <1>1, IdentityAssumption DEF MapRoles

(* The directory answers a login: its intent follows from the row loaded.   *)
LEMMA DirectoryStep == ASSUME Inv, NEW w \in Worker, DirectoryAccepts(w) PROVE Inv'
<1>1. PICK groups \in SUBSET Group :
        LET a == Resolved(req[w].name)
            roles == MapRoles(groups, req[w].mappings)
        IN  IF Granting(roles)
              THEN /\ req' = [req EXCEPT ![w] = [@ EXCEPT !.pc = "synced", !.name = a,
                                                  !.loaded = user[a], !.new = Sync(roles)]]
                   /\ UNCHANGED <<user, mappings, key, audit, session, calls>>
              ELSE Refuse(w)
  BY DEF DirectoryAccepts
<1>2. PICK roles, a : roles = MapRoles(groups, req[w].mappings) /\ a = Resolved(req[w].name)
  OBVIOUS
<1>3. CASE ~Granting(roles)
  BY <1>1, <1>2, <1>3, RefuseStep
<1>4. CASE Granting(roles)
  <2>1. req[w] \in Request /\ req[w].pc = "directory" /\ Intent(req[w]) /\ req \in [Worker -> Request]
    BY DEF Inv, TypeOK, DirectoryAccepts
  <2>2. PICK r : r = [req[w] EXCEPT !.pc = "synced", !.name = a, !.loaded = user[a],
                                    !.new = Sync(roles)]
    OBVIOUS
  <2>3. roles \in SUBSET Role /\ roles # {}
    BY <1>2, <1>4, <2>1, MappedRoles DEF Request, Granting
  <2>4. Sync(roles) \in Created /\ Sync(roles) \in UserRow
    BY <2>3 DEF Sync, Created, UserRow
  <2>5. a \in Account /\ a = Directory[req[w].actor] /\ user[a] \in UserRow
    <3>1. req[w].actor \in Account /\ req[w].name = req[w].actor
      BY <2>1 DEF Intent, Request
    <3>2. a = Directory[req[w].actor]
      BY <1>2, <3>1 DEF Resolved
    <3> QED
      BY <3>1, <3>2, IdentityAssumption DEF Inv, TypeOK
  <2>6. r \in Request
    BY <2>1, <2>2, <2>4, <2>5 DEF Request
  <2>7. r.pc = "synced" /\ r.name = a /\ r.actor = req[w].actor
        /\ r.loaded = user[r.name] /\ r.new = Sync(roles)
    BY <2>1, <2>2 DEF Request
  <2>8. Intent(r)
    BY <2>1, <2>3, <2>4, <2>5, <2>7 DEF Intent, Sync
  <2>9. req' = [req EXCEPT ![w] = r] /\ UNCHANGED <<user, mappings, key, audit, session, calls>>
    BY <1>1, <1>2, <1>4, <2>2
  <2>10. calls' \in 0 .. MaxCalls
    BY <2>9 DEF Inv, TypeOK
  <2> QED
    BY <2>6, <2>8, <2>9, <2>10, RequestStep
<1> QED
  BY <1>3, <1>4

(* Without a directory, a login falls back to what is stored.               *)
LEMMA FallBackStep == ASSUME Inv, NEW w \in Worker, FallBack(w) PROVE Inv'
<1>1. PICK row : row = user[req[w].name]
  OBVIOUS
<1>2. CASE ~(row.source = "local" /\ row.active)
  BY <1>1, <1>2, RefuseStep DEF FallBack
<1>3. CASE row.source = "local" /\ row.active
  <2>1. req[w] \in Request /\ req[w].pc = "directory" /\ Intent(req[w]) /\ req \in [Worker -> Request]
    BY DEF Inv, TypeOK, FallBack
  <2>2. PICK r : r = [req[w] EXCEPT !.pc = "local", !.loaded = row, !.new = row]
    OBVIOUS
  <2>3. row \in UserRow
    BY <1>1, <2>1 DEF Inv, TypeOK, Request
  <2>4. row # NoUser /\ row \in Created
    BY <1>3, <2>3, CreatedRow DEF NoUser
  <2>5. r \in Request
    BY <2>1, <2>2, <2>3 DEF Request
  <2>6. r.pc = "local" /\ r.name = req[w].name /\ r.actor = req[w].actor
        /\ r.loaded = row /\ r.new = row
    BY <2>1, <2>2 DEF Request
  <2>7. Intent(r)
    BY <1>1, <2>1, <2>4, <2>6 DEF Intent
  <2>8. req' = [req EXCEPT ![w] = r] /\ UNCHANGED <<user, mappings, key, audit, session, calls>>
    BY <1>1, <1>3, <2>2 DEF FallBack
  <2>9. calls' \in 0 .. MaxCalls
    BY <2>8 DEF Inv, TypeOK
  <2> QED
    BY <2>5, <2>7, <2>8, <2>9, RequestStep
<1> QED
  BY <1>2, <1>3

(* A directory login commits the row and its event.                         *)
LEMMA CommitLoginStep == ASSUME Inv, NEW w \in Worker, CommitLogin(w) PROVE Inv'
<1>1. CASE req[w].loaded = NoUser /\ user[req[w].name] # NoUser
  BY <1>1, RefuseStep DEF CommitLogin
<1>2. CASE ~(req[w].loaded = NoUser /\ user[req[w].name] # NoUser)
  <2>1. /\ req[w].pc = "synced"
        /\ SignIn(w)
        /\ Commit(w, Entry("login", req[w].actor, req[w].actor, req[w].new.roles,
                           RolesCurrent(w)))
    BY <1>2 DEF CommitLogin
  <2>2. Intent(req[w])
    BY DEF Inv
  <2>3. /\ req[w].name = Directory[req[w].actor] /\ req[w].new \in Created
        /\ req[w].new.roles # {} /\ req[w].actor \in Account
        /\ session' \subseteq Account
    BY <2>1, <2>2 DEF Intent, SignIn, Inv, TypeOK, Request
  <2>4. PICK roles \in SUBSET Role : roles = req[w].new.roles
    BY <2>3 DEF Created
  <2>5. PICK current \in BOOLEAN : current <=> RolesCurrent(w)
    OBVIOUS
  <2>6. RolesCurrent(w) = current
    BY <2>5 DEF RolesCurrent
  <2>7. Commit(w, Entry("login", req[w].actor, req[w].actor, roles, current))
    BY <2>1, <2>3, <2>4, <2>6
  <2> QED
    BY <1>2, <2>1, <2>3, <2>4, <2>5, <2>7, CommitStep
<1> QED
  BY <1>1, <1>2

(* A local login commits its last use.                                      *)
LEMMA CommitLocalStep == ASSUME Inv, NEW w \in Worker, CommitLocal(w) PROVE Inv'
<1>1. /\ req[w].pc = "local" /\ SignIn(w)
      /\ Commit(w, Entry("login", req[w].actor, req[w].actor, {}, FALSE))
  BY DEF CommitLocal
<1>2. Intent(req[w])
  BY DEF Inv
<1>3. /\ req[w].new = req[w].loaded /\ req[w].loaded # NoUser /\ req[w].actor \in Account
      /\ session' \subseteq Account
  BY <1>1, <1>2 DEF Intent, SignIn, Inv, TypeOK, Request
<1> QED
  BY <1>1, <1>3, CommitStep

-----------------------------------------------------------------------------
(* Administration.                                                          *)

(* An administrator's rights come from an event, whatever is asked.         *)
LEMMA AuthorisedAppointed ==
  ASSUME Inv, NEW actor \in Account, NEW permission \in {"user:manage", "apikey:manage"},
         Authorised(actor, permission)
  PROVE  Appointed(actor)
<1>1. user[actor].roles \in SUBSET Role
  BY DEF Inv, TypeOK, UserRow, NoUser
<1>2. "admin" \in user[actor].roles
  BY <1>1, ManagersAreAdmins DEF Authorised
<1> QED
  BY <1>2 DEF Inv

(* An override of roles intends what its event will say.                    *)
LEMMA BeginSetRolesStep == ASSUME Inv, NEW w \in Worker, BeginSetRoles(w) PROVE Inv'
<1>1. PICK actor \in Account, a \in Account, roles \in Overrides :
        /\ Authorised(actor, "user:manage")
        /\ Exists(a)
        /\ Begin(w, [Idle EXCEPT !.pc = "roles", !.name = a, !.actor = actor,
                             !.loaded = user[a], !.new = [user[a] EXCEPT !.roles = roles]])
  BY DEF BeginSetRoles
<1>2. PICK row : row = user[a]
  OBVIOUS
<1>3. PICK new : new = [row EXCEPT !.roles = roles]
  OBVIOUS
<1>4. row \in Created
  BY <1>1, <1>2, CreatedRow DEF Inv, TypeOK, Exists
<1>5. roles \in SUBSET Role
  BY IdentityAssumption
<1>6. new \in Created /\ new.source = row.source /\ new.active = row.active
  BY <1>3, <1>4, <1>5 DEF Created
<1>7. PICK r : r = [Idle EXCEPT !.pc = "roles", !.name = a, !.actor = actor,
                             !.loaded = row, !.new = new]
  OBVIOUS
<1>8. r \in Request
  BY <1>4, <1>6, <1>7, IdleIntent, CreatedRow DEF Request, Idle
<1>9. r.pc = "roles" /\ r.name = a /\ r.actor = actor /\ r.loaded = row /\ r.new = new
  BY <1>7 DEF Idle
<1>10. Appointed(actor)
  BY <1>1, AuthorisedAppointed
<1>11. row # NoUser
  BY <1>4, CreatedRow
<1>12. Intent(r)
  BY <1>2, <1>6, <1>9, <1>10, <1>11 DEF Intent
<1>13. Begin(w, r)
  BY <1>1, <1>2, <1>3, <1>7
<1> QED
  BY <1>8, <1>12, <1>13, BeginStep

(* The override is committed with its event.                                *)
LEMMA CommitRolesStep == ASSUME Inv, NEW w \in Worker, CommitRoles(w) PROVE Inv'
<1>1. /\ req[w].pc = "roles"
      /\ Commit(w, Entry("user_roles_changed", req[w].actor, req[w].name, req[w].new.roles,
                         RolesCurrent(w)))
      /\ UNCHANGED session
  BY DEF CommitRoles
<1>2. Intent(req[w])
  BY DEF Inv
<1>3. /\ req[w].loaded # NoUser /\ req[w].new \in Created /\ Appointed(req[w].actor)
      /\ req[w].name \in Account /\ session' \subseteq Account
  BY <1>1, <1>2 DEF Intent, Inv, TypeOK, Request
<1>4. PICK roles \in SUBSET Role : roles = req[w].new.roles
  BY <1>3 DEF Created
<1>5. PICK current \in BOOLEAN : current <=> RolesCurrent(w)
  OBVIOUS
<1>6. RolesCurrent(w) = current
  BY <1>5 DEF RolesCurrent
<1>7. Commit(w, Entry("user_roles_changed", req[w].actor, req[w].name, roles, current))
  BY <1>1, <1>4, <1>6
<1> QED
  BY <1>1, <1>3, <1>4, <1>5, <1>7, CommitStep

(* A change of status spares its actor.                                     *)
LEMMA BeginSetStatusStep == ASSUME Inv, NEW w \in Worker, BeginSetStatus(w) PROVE Inv'
<1>1. PICK actor \in Account, a \in Account, active \in BOOLEAN :
        /\ Authorised(actor, "user:manage")
        /\ Exists(a)
        /\ OtherAccount(actor, a, active)
        /\ Begin(w, [Idle EXCEPT !.pc = "status", !.name = a, !.actor = actor,
                             !.loaded = user[a], !.new = [user[a] EXCEPT !.active = active]])
  BY DEF BeginSetStatus
<1>2. PICK row : row = user[a]
  OBVIOUS
<1>3. PICK new : new = [row EXCEPT !.active = active]
  OBVIOUS
<1>4. row \in Created
  BY <1>1, <1>2, CreatedRow DEF Inv, TypeOK, Exists
<1>5. /\ new \in Created /\ new.source = row.source /\ new.roles = row.roles
      /\ new.active = active
  BY <1>3, <1>4 DEF Created
<1>6. active \/ a # actor
  BY <1>1 DEF OtherAccount
<1>7. PICK r : r = [Idle EXCEPT !.pc = "status", !.name = a, !.actor = actor,
                             !.loaded = row, !.new = new]
  OBVIOUS
<1>8. r \in Request
  BY <1>4, <1>5, <1>7, IdleIntent, CreatedRow DEF Request, Idle
<1>9. r.pc = "status" /\ r.name = a /\ r.actor = actor /\ r.loaded = row /\ r.new = new
  BY <1>7 DEF Idle
<1>10. Appointed(actor)
  BY <1>1, AuthorisedAppointed
<1>11. row # NoUser
  BY <1>4, CreatedRow
<1>12. Intent(r)
  BY <1>2, <1>5, <1>6, <1>9, <1>10, <1>11 DEF Intent
<1>13. Begin(w, r)
  BY <1>1, <1>2, <1>3, <1>7
<1> QED
  BY <1>8, <1>12, <1>13, BeginStep

(* It is committed over whatever the roles have become.                     *)
LEMMA CommitStatusStep == ASSUME Inv, NEW w \in Worker, CommitStatus(w) PROVE Inv'
<1>1. /\ req[w].pc = "status"
      /\ Commit(w, Entry("user_status_changed", req[w].actor, req[w].name, {}, FALSE))
      /\ UNCHANGED session
  BY DEF CommitStatus
<1>2. Intent(req[w])
  BY DEF Inv
<1>3. /\ req[w].loaded # NoUser /\ req[w].new.roles = req[w].loaded.roles
      /\ Appointed(req[w].actor) /\ req[w].name \in Account /\ session' \subseteq Account
  BY <1>1, <1>2 DEF Intent, Inv, TypeOK, Request
<1> QED
  BY <1>1, <1>3, CommitStep

-----------------------------------------------------------------------------
(* Group mappings and keys.                                                 *)

(* A change of the mappings only: no account and no key depends on it.      *)
LEMMA MappingStep ==
  ASSUME Inv, NEW w \in Worker, Short(w), mappings' \subseteq Mappings, UNCHANGED <<key, audit>>
  PROVE  Inv'
<1>1. /\ \A a : Appointed(a)' = Appointed(a)
      /\ \A a : Emptied(a)' = Emptied(a)
  BY DEF Appointed, Emptied, Grants
<1>2. TypeOK'
  BY IdentityAssumption DEF Inv, TypeOK, Short
<1>3. \A v \in Worker : Intent(req[v])'
  BY <1>1 DEF Inv, Intent, Short
<1>4. RolesExplained' /\ AdminsAppointed' /\ KeysOnRecord'
  BY DEF Inv, RolesExplained, AdminsAppointed, KeysOnRecord, Grants, Short
<1> QED
  BY <1>1, <1>2, <1>3, <1>4 DEF Inv, Short

(* Mappings grant what the next login reads: no account changes.            *)
LEMMA CreateMappingStep == ASSUME Inv, NEW w \in Worker, CreateMapping(w) PROVE Inv'
<1>1. mappings' \subseteq Mappings
  BY DEF Inv, TypeOK, CreateMapping
<1> QED
  BY <1>1, MappingStep DEF CreateMapping

(* Nor does it when one is deleted.                                         *)
LEMMA DeleteMappingStep == ASSUME Inv, NEW w \in Worker, DeleteMapping(w) PROVE Inv'
<1>1. mappings' \subseteq Mappings
  BY DEF Inv, TypeOK, DeleteMapping
<1> QED
  BY <1>1, MappingStep DEF DeleteMapping

(* An administrator's event about a key, and the state it puts the key in.  *)
LEMMA KeyStep ==
  ASSUME Inv, NEW w \in Worker, NEW actor \in Account, NEW k \in Key, Appointed(actor),
         NEW action \in {"apikey_created", "apikey_revoked"},
         Short(w), UNCHANGED mappings,
         audit' = Append(audit, Entry(action, actor, k, {}, FALSE)),
         key' = [key EXCEPT ![k] = IF action = "apikey_created" THEN "active" ELSE "revoked"],
         action = "apikey_created" => key[k] = "unissued"
  PROVE  Inv'
<1> DEFINE n == Len(audit) + 1
<1>1. PICK e : e = Entry(action, actor, k, {}, FALSE)
  OBVIOUS
<1>2. /\ e \in Event /\ e.action = action /\ e.actor = actor /\ e.subject = k
      /\ audit' = Append(audit, e)
  BY <1>1 DEF Entry, Event
<1>3. /\ audit \in Seq(Event) /\ key \in [Key -> KeyState] /\ AdminsAppointed
      /\ RolesExplained /\ KeysOnRecord
  BY DEF Inv, TypeOK
<1>4. /\ n \in Nat \ {0} /\ DOMAIN audit = 1..(n - 1) /\ DOMAIN audit' = 1..n
      /\ \A i \in 1..(n - 1) : audit'[i] = audit[i]
      /\ audit'[n] = e /\ audit' \in Seq(Event)
  <2>1. /\ audit' \in Seq(Event)
        /\ Len(audit) \in Nat
        /\ DOMAIN audit = 1..Len(audit)
        /\ DOMAIN audit' = 1..(Len(audit) + 1)
        /\ \A i \in 1..Len(audit) : audit'[i] = audit[i]
        /\ audit'[Len(audit) + 1] = e
    <3> HIDE DEF n
    <3> QED
      BY <1>2, <1>3, Longer
  <2>2. DOMAIN audit = 1..(n - 1) /\ n \in Nat \ {0}
    BY <2>1
  <2>3. \A i \in 1..(n - 1) : audit'[i] = audit[i]
    BY <2>1, <2>2
  <2> QED
    BY <2>1, <2>2, <2>3
<1> HIDE DEF n
<1> DEFINE Same(i) == i \in DOMAIN audit /\ audit'[i] = audit[i]
<1>4a. /\ \A i \in DOMAIN audit : i \in DOMAIN audit' /\ Same(i)
       /\ \A i \in DOMAIN audit' : i = n \/ Same(i)
       /\ n \in DOMAIN audit' /\ audit'[n] = e /\ n \notin DOMAIN audit
  <2>1. /\ \A i \in 1..(n - 1) : i \in 1..n
        /\ \A i \in 1..n : i = n \/ i \in 1..(n - 1)
        /\ n \in 1..n /\ n \notin 1..(n - 1)
    BY <1>4
  <2> QED
    BY <1>4, <2>1, Zenon
<1>5. /\ \A a : Appointed(a) => Appointed(a)'
      /\ \A a : Emptied(a) => Emptied(a)'
  BY <1>2, <1>3, StayOnRecord
<1>6. AdminsAppointed'
  BY <1>2, <1>3, TrailKept
<1>7. TypeOK'
  <2>1. key' \in [Key -> KeyState]
    BY <1>3 DEF KeyState
  <2>2. calls' \in 0 .. MaxCalls
    BY IdentityAssumption DEF Inv, TypeOK, Short
  <2>3. /\ user \in [Account -> UserRow] /\ mappings \subseteq Mappings /\ session \subseteq Account
        /\ req \in [Worker -> Request]
    BY DEF Inv, TypeOK
  <2> QED
    BY <1>4, <2>1, <2>2, <2>3 DEF TypeOK, Short
<1>8. \A v \in Worker : Intent(req[v])'
  BY <1>5 DEF Inv, Intent, Short
<1>9. RolesExplained'
  <2>1. \A b \in Account, i \in DOMAIN audit' :
          Grants(audit'[i], b) <=> i \in DOMAIN audit /\ Grants(audit[i], b)
    BY <1>2, <1>4a DEF Grants
  <2> SUFFICES ASSUME NEW b \in Account, NEW i \in DOMAIN audit', Grants(audit'[i], b),
                      audit'[i].current,
                      \A j \in DOMAIN audit' : Grants(audit'[j], b) => j <= i
               PROVE  user'[b].roles = audit'[i].roles
    BY DEF RolesExplained, Grants
  <2>2. i \in DOMAIN audit /\ audit[i] = audit'[i] /\ Grants(audit[i], b)
    BY <1>4, <2>1
  <2>3. \A j \in DOMAIN audit : Grants(audit[j], b) => j <= i
    BY <1>4a
  <2>4. user[b].roles = audit[i].roles
    BY <1>3, <2>2, <2>3 DEF RolesExplained
  <2> QED
    BY <2>2, <2>4 DEF Short
<1>10. KeysOnRecord'
  <2> DEFINE Has(what, j) == \E i \in DOMAIN audit : audit[i].action = what /\ audit[i].subject = j
             Has2(what, j) == \E i \in DOMAIN audit' : audit'[i].action = what /\ audit'[i].subject = j
  <2>1. \A j \in Key, what \in {"apikey_created", "apikey_revoked"} :
          Has2(what, j) <=> Has(what, j) \/ (j = k /\ what = action)
    BY <1>2, <1>4a
  <2>2. \A j \in Key : key[j] = IF Has("apikey_revoked", j) THEN "revoked"
                                ELSE IF Has("apikey_created", j) THEN "active" ELSE "unissued"
    BY <1>3 DEF KeysOnRecord
  <2>3. \A j \in Key : key'[j] = IF j = k THEN IF action = "apikey_created" THEN "active" ELSE "revoked"
                                 ELSE key[j]
    BY <1>3
  <2> HIDE DEF Has, Has2
  <2>4. \A j \in Key : key'[j] = IF Has2("apikey_revoked", j) THEN "revoked"
                                 ELSE IF Has2("apikey_created", j) THEN "active" ELSE "unissued"
    BY <2>1, <2>2, <2>3
  <2> QED
    BY <2>4 DEF KeysOnRecord, Has2
<1> QED
  BY <1>5, <1>6, <1>7, <1>8, <1>9, <1>10 DEF Inv, Short

(* A key is issued with its event.                                          *)
LEMMA IssueKeyStep == ASSUME Inv, NEW w \in Worker, IssueKey(w) PROVE Inv'
<1>1. PICK actor \in Account, k \in Key :
        /\ Authorised(actor, "apikey:manage")
        /\ key[k] = "unissued"
        /\ Short(w)
        /\ key' = [key EXCEPT ![k] = "active"]
        /\ audit' = Append(audit, Entry("apikey_created", actor, k, {}, FALSE))
        /\ UNCHANGED mappings
  BY DEF IssueKey
<1>2. Appointed(actor)
  BY <1>1, AuthorisedAppointed
<1> QED
  BY <1>1, <1>2, KeyStep

(* So it is revoked.                                                        *)
LEMMA RevokeKeyStep == ASSUME Inv, NEW w \in Worker, RevokeKey(w) PROVE Inv'
<1>1. PICK actor \in Account, k \in Key :
        /\ Authorised(actor, "apikey:manage")
        /\ Short(w)
        /\ key' = [key EXCEPT ![k] = "revoked"]
        /\ audit' = Append(audit, Entry("apikey_revoked", actor, k, {}, FALSE))
        /\ UNCHANGED mappings
  BY DEF RevokeKey
<1>2. Appointed(actor)
  BY <1>1, AuthorisedAppointed
<1> QED
  BY <1>1, <1>2, KeyStep

(* A request that found a key active will write its last use only.          *)
LEMMA BeginKeyUseStep == ASSUME Inv, NEW w \in Worker, BeginKeyUse(w) PROVE Inv'
<1>1. PICK k \in Key : Begin(w, [Idle EXCEPT !.pc = "key", !.key = k])
  BY DEF BeginKeyUse
<1> DEFINE r == [Idle EXCEPT !.pc = "key", !.key = k]
<1>2. r \in Request
  BY IdleIntent DEF Request, Idle
<1>3. Intent(r)
  BY DEF Idle, Intent
<1> QED
  BY <1>1, <1>2, <1>3, BeginStep

(* The use of a key writes its record back as it is, not as it was loaded.  *)
LEMMA CommitKeyUseStep == ASSUME Inv, NEW w \in Worker, CommitKeyUse(w) PROVE Inv'
<1>1. req[w].key \in Key
  BY DEF Inv, Intent, CommitKeyUse
<1>2. key' = key
  BY <1>1 DEF CommitKeyUse, KeyWritten, Inv, TypeOK
<1>3. calls' \in 0 .. MaxCalls
  BY DEF CommitKeyUse, Inv, TypeOK
<1> QED
  BY <1>2, <1>3, IdleIntent, RequestStep DEF CommitKeyUse

-----------------------------------------------------------------------------
(* The invariant.                                                           *)

(* At first there is the administrator of the settings, and nobody else.    *)
LEMMA InvInit == Init => Inv
<1> SUFFICES ASSUME Init PROVE Inv
  OBVIOUS
<1>1. /\ audit = <<>> /\ audit \in Seq(Event) /\ DOMAIN audit = {}
      /\ user \in [Account -> UserRow]
      /\ \A a \in Account : user[a] = IF a = LocalAdmin
           THEN [source |-> "local", roles |-> {"admin"}, active |-> TRUE] ELSE NoUser
  <2>1. {"admin"} \in SUBSET Role
    BY DEF Role
  <2> QED
    BY <2>1 DEF Init, UserRow
<1>2. TypeOK
  BY <1>1, IdleIntent, IdentityAssumption DEF Init, TypeOK, KeyState
<1>3. \A w \in Worker : Intent(req[w])
  BY IdleIntent DEF Init
<1>4. \A a \in Account : "admin" \in user[a].roles => Appointed(a)
  BY <1>1 DEF Appointed, NoUser
<1>5. \A a \in Account : user[a] # NoUser /\ user[a].roles = {} => Emptied(a)
  BY <1>1
<1>6. RolesExplained /\ AdminsAppointed /\ KeysOnRecord
  BY <1>1 DEF RolesExplained, AdminsAppointed, KeysOnRecord, Init
<1> QED
  BY <1>2, <1>3, <1>4, <1>5, <1>6 DEF Inv

(* Every handler keeps the invariant.                                       *)
LEMMA InvStep == Inv /\ [Next]_vars => Inv'
<1> SUFFICES ASSUME Inv, [Next]_vars PROVE Inv'
  OBVIOUS
<1>1. CASE UNCHANGED vars
  <2>1. UNCHANGED <<user, mappings, key, audit, session, req, calls>>
    BY <1>1 DEF vars
  <2>2. /\ \A a : Appointed(a)' = Appointed(a)
        /\ \A a : Emptied(a)' = Emptied(a)
    BY <2>1 DEF Appointed, Emptied, Grants
  <2>3. TypeOK' /\ AdminsAppointed' /\ KeysOnRecord' /\ RolesExplained'
    BY <2>1 DEF Inv, TypeOK, AdminsAppointed, KeysOnRecord, RolesExplained, Grants
  <2>4. \A w \in Worker : Intent(req[w])'
    BY <2>1, <2>2 DEF Inv, Intent
  <2> QED
    BY <2>1, <2>2, <2>3, <2>4 DEF Inv
<1>2. ASSUME NEW w \in Worker, Fail(w) PROVE Inv'
  BY <1>2, RefuseStep DEF Fail
<1> QED
  BY <1>1, <1>2, BeginLoginStep, DirectoryStep, CommitLoginStep, FallBackStep, CommitLocalStep,
     BeginSetRolesStep, CommitRolesStep, BeginSetStatusStep, CommitStatusStep,
     CreateMappingStep, DeleteMappingStep, IssueKeyStep, RevokeKeyStep, BeginKeyUseStep,
     CommitKeyUseStep DEF Next

(* So it always holds.                                                      *)
LEMMA InvAlways == Spec => []Inv
BY InvInit, InvStep, PTL DEF Spec

-----------------------------------------------------------------------------
(* Every variable has its type, whatever requests overlap.                  *)
THEOREM TypeCorrect == Spec => []TypeOK
<1>1. Inv => TypeOK
  BY DEF Inv
<1> QED
  BY <1>1, InvAlways, PTL

(* The roles of an account are those of the last event that set them, be it *)
(* a login under any name the directory has the account for                 *)
(* (_upsert_ldap_user, set_user_roles; the columns the ORM writes).         *)
THEOREM AlwaysExplained == Spec => []RolesExplained
<1>1. Inv => RolesExplained
  BY DEF Inv
<1> QED
  BY <1>1, InvAlways, PTL

(* A directory account without roles was emptied by an administrator: a     *)
(* login that grants none is refused before anything of it is committed.    *)
THEOREM NeverRoleless == Spec => []NoRolelessAccount
<1>1. Inv => NoRolelessAccount
  <2> SUFFICES ASSUME Inv, NEW a \in Account, user[a].source = "ldap", user[a].roles = {}
               PROVE  Emptied(a)
    BY DEF NoRolelessAccount, Emptied
  <2>1. user[a] # NoUser
    BY DEF NoUser
  <2> QED
    BY <2>1 DEF Inv
<1> QED
  BY <1>1, InvAlways, PTL

(* Whoever changed accounts or keys had been made an administrator by an    *)
(* earlier event (get_current_principal, require_permission).               *)
THEOREM AlwaysAppointed == Spec => []AdminsAppointed
<1>1. Inv => AdminsAppointed
  BY DEF Inv
<1> QED
  BY <1>1, InvAlways, PTL

(* A key is in the state its events leave it in, whatever uses of it are    *)
(* under way when it is revoked (authenticate_api_key, revoke_api_key).     *)
THEOREM AlwaysOnRecord == Spec => []KeysOnRecord
<1>1. Inv => KeysOnRecord
  BY DEF Inv
<1> QED
  BY <1>1, InvAlways, PTL
=============================================================================
