------------------------------ MODULE Registry ------------------------------
(****************************************************************************)
(* The model registry: the definition of one entity name, its versions, and *)
(* the four tables publishing deploys for it.                               *)
(*                                                                          *)
(* A Worker is one HTTP request in flight.  get_entity loads the entity and *)
(* its attributes into the request's ORM session; what the session writes   *)
(* is committed in one step when the request ends, and it writes only the   *)
(* columns whose value differs from the loaded one.  Publishing and         *)
(* dropping tables run in transactions of their own on the DDL engine, so   *)
(* planning, applying and recording are steps of their own, and other       *)
(* requests and crashes come in between.  At READ COMMITTED every statement *)
(* sees what is committed when it starts: a migration is planned from up to *)
(* seven queries of the catalog, and a deletion drops the tables in four    *)
(* statements; each of these is a step too.                                 *)
(****************************************************************************)
EXTENDS ColumnTypes, FiniteSets

CONSTANTS
  Worker,       \* requests that can be in flight together
  Col,          \* attribute names
  Definitions,  \* bound: the attribute definitions in use
  Payloads,     \* bound: the models a PUT, a POST or an import carries
  MaxEntities,  \* bound: no creation begins after that many entities
  MaxVersion,   \* bound: no change of the definition begins at that version
  MaxCalls,     \* bound: requests in a behaviour
  MayCrash      \* whether the behaviours include crashes

Definition ==
  [type : LogicalType, required : BOOLEAN, default : {"none", "literal", "junk"},
   unique : BOOLEAN, indexed : BOOLEAN]

Model == UNION {[S -> Definitions] : S \in SUBSET Col}

ASSUME RegistryAssumption ==
  /\ Definitions \subseteq Definition
  /\ Payloads \subseteq Model
  /\ MaxEntities \in Nat
  /\ MaxVersion \in Nat
  /\ MaxCalls \in Nat
  /\ MayCrash \in BOOLEAN

VARIABLES
  entity,    \* the row of mdm_meta.entity with this name, and its attributes
  versions,  \* mdm_meta.model_version
  tables,    \* the table of this name in each of the four schemas
  audit,     \* the committed registry events
  born,      \* identifiers handed out so far
  req,       \* the request each worker is serving
  calls      \* requests left

vars == <<entity, versions, tables, audit, born, req, calls>>

Tier == {"landing", "staging", "live", "history"}

\* The tiers with business columns.
Typed == Tier \ {"landing"}

NoModel == [c \in {} |-> 0]

NoEntity == [id |-> 0, status |-> "draft", version |-> 0, published |-> 0, model |-> NoModel]

EntityRow ==
  [id : Nat, status : {"draft", "published", "modified"}, version : Nat, published : Nat,
   model : Model]

VersionRow == [id : Nat, version : Nat, snapshot : Model]

Column == [type : ColumnType, required : BOOLEAN]

NoTable == [exists |-> FALSE, columns |-> NoModel, unique |-> {}]

Event ==
  [action : {"model_create", "model_import", "model_publish", "model_delete"},
   id : Nat, version : Nat]

NoTables == [t \in Tier |-> NoTable]

NoPlan ==
  [create |-> {}, model |-> NoModel, add |-> [t \in Tier |-> NoModel],
   alter |-> [t \in Tier |-> NoModel], unique |-> {}, indexed |-> {}, destructive |-> {}]

\* What a request has in hand: the tiers its statements have looked at so far,
\* in "read", and what they saw there, in "seen".
Idle ==
  [pc |-> "idle", loaded |-> NoEntity, payload |-> NoModel, replace |-> FALSE,
   confirm |-> FALSE, read |-> {}, seen |-> NoTables]

Init ==
  /\ entity = NoEntity
  /\ versions = {}
  /\ tables = NoTables
  /\ audit = {}
  /\ born = 0
  /\ req = [w \in Worker |-> Idle]
  /\ calls = MaxCalls

----------------------------------------------------------------------------
(* The life of a request.                                                   *)

\* A request and what it loaded; without an entity of the name, all but a
\* creation and an import answer 404.
Begin(w, pc, payload, replace, confirm) ==
  /\ req[w].pc = "idle"
  /\ calls > 0
  /\ calls' = calls - 1
  /\ req' = [req EXCEPT ![w] =
       [pc |-> pc, loaded |-> entity, payload |-> payload, replace |-> replace,
        confirm |-> confirm, read |-> {}, seen |-> NoTables]]
  /\ UNCHANGED <<entity, versions, tables, audit, born>>

\* create_entity refuses a name in use and an empty model, update_entity takes any.
BeginCreate(w) ==
  \E p \in Payloads :
    /\ entity.id = 0 /\ born < MaxEntities
    /\ p # NoModel
    /\ Begin(w, "create", p, FALSE, FALSE)

BeginImport(w) ==
  \E p \in Payloads, replace \in BOOLEAN :
    /\ entity.version < MaxVersion /\ born < MaxEntities
    /\ p # NoModel
    /\ Begin(w, "import", p, replace, FALSE)

BeginUpdate(w) ==
  \E p \in Payloads :
    /\ entity.id # 0 /\ entity.version < MaxVersion
    /\ Begin(w, "update", p, TRUE, FALSE)

BeginPublish(w) ==
  \E confirm \in BOOLEAN : entity.id # 0 /\ Begin(w, "plan", NoModel, FALSE, confirm)

Deployed(e) == e.status \in {"published", "modified"}

\* delete_entity: tables are dropped only on request and only if deployed.
BeginDelete(w) ==
  \E drop \in BOOLEAN :
    /\ entity.id # 0
    /\ Begin(w, IF drop /\ Deployed(entity) THEN "drop" ELSE "unlink", NoModel, FALSE, drop)

\* The request ends without writing: refused, or rolled back by an exception.
Fail(w) ==
  /\ req' = [req EXCEPT ![w] = Idle]
  /\ UNCHANGED <<entity, versions, tables, audit, born, calls>>

\* The process dies; what it had not committed is gone.
Crash(w) == MayCrash /\ req[w].pc # "idle" /\ Fail(w)

----------------------------------------------------------------------------
(* Changing the definition.                                                 *)

Happened(action, id, version) == [action |-> action, id |-> id, version |-> version]

Snapshot(id, version, model) == [id |-> id, version |-> version, snapshot |-> model]

\* A new entity, unless another request has taken the name (uq_entity_name).
Insert(w, action) ==
  \/ /\ entity.id = 0
     /\ born' = born + 1
     /\ entity' = [id |-> born + 1, status |-> "draft", version |-> 1, published |-> 0,
                   model |-> req[w].payload]
     /\ versions' = versions \cup {Snapshot(born + 1, 1, req[w].payload)}
     /\ audit' = audit \cup {Happened(action, born + 1, 1)}
     /\ req' = [req EXCEPT ![w] = Idle]
     /\ UNCHANGED <<tables, calls>>
  \/ entity.id # 0 /\ Fail(w)

SaveCreate(w) == req[w].pc = "create" /\ Insert(w, "model_create")

\* Variants: a new version need not be the only one of its number; a change
\* leaves the status alone.
NoConflict(loaded) == FALSE
StatusKept(loaded) == entity.status

\* uq_model_version: somebody has saved this version since it was loaded.
VersionTaken(loaded) ==
  \E v \in versions : v.id = loaded.id /\ v.version = loaded.version + 1

StatusAfterChange(loaded) == IF loaded.status = "published" THEN "modified" ELSE entity.status

\* The definition replaced; without "replace", attributes the payload leaves
\* out are kept.
Merged(loaded, payload, replace) ==
  [c \in DOMAIN payload \cup (IF replace THEN {} ELSE DOMAIN loaded.model) |->
    IF c \in DOMAIN payload THEN payload[c] ELSE loaded.model[c]]

\* A new version over the loaded one.  The UPDATE of an entity that is gone
\* matches no row and fails the request, and so does a version number taken.
Revise(w, events) ==
  LET old   == req[w].loaded
      model == Merged(old, req[w].payload, req[w].replace)
  IN
  \/ /\ entity.id = old.id
     /\ ~VersionTaken(old)
     /\ entity' = [id |-> old.id, status |-> StatusAfterChange(old),
                   version |-> old.version + 1, published |-> entity.published,
                   model |-> model]
     /\ versions' = versions \cup {Snapshot(old.id, old.version + 1, model)}
     /\ audit' = audit \cup events
     /\ req' = [req EXCEPT ![w] = Idle]
     /\ UNCHANGED <<tables, born, calls>>
  \/ (entity.id # old.id \/ VersionTaken(old)) /\ Fail(w)

SaveUpdate(w) == req[w].pc = "update" /\ Revise(w, {})

\* apply_import: creates or revises, as it found the entity when it loaded it.
SaveImport(w) ==
  LET old == req[w].loaded IN
  /\ req[w].pc = "import"
  /\ \/ old.id = 0 /\ Insert(w, "model_import")
     \/ old.id # 0 /\ Revise(w, {Happened("model_import", old.id, old.version + 1)})

----------------------------------------------------------------------------
(* Plans.                                                                   *)

\* The business columns of a new table; only live enforces NOT NULL.
Columns(t, model) ==
  IF t = "landing" THEN NoModel
  ELSE [c \in DOMAIN model |->
         [type |-> PgType(model[c].type), required |-> t = "live" /\ model[c].required]]

\* A column added to a table that may hold rows: NOT NULL needs a default.
AddedColumn(t, d) ==
  [type |-> PgType(d.type), required |-> t = "live" /\ d.required /\ d.default # "none"]

Unique(model) == {c \in DOMAIN model : model[c].unique}
Indexed(model) == {c \in DOMAIN model : model[c].unique \/ model[c].indexed}

\* Variant: one builder is forgotten.
CreatePlanNoHistory(model) ==
  [NoPlan EXCEPT !.create = Tier \ {"history"}, !.model = model,
                 !.unique = Unique(model), !.indexed = Indexed(model)]

CreatePlan(model) ==
  [NoPlan EXCEPT !.create = Tier, !.model = model,
                 !.unique = Unique(model), !.indexed = Indexed(model)]

\* Variant: history is not migrated.
MissingButHistory(t, model, now) ==
  IF now[t].exists /\ t \in {"staging", "live"} THEN DOMAIN model \ DOMAIN now[t].columns ELSE {}

\* Columns whose attribute is new, has another type, or is gone.
Missing(t, model, now) ==
  IF now[t].exists /\ t \in Typed THEN DOMAIN model \ DOMAIN now[t].columns ELSE {}

Changed(t, model, now) ==
  {c \in DOMAIN model \cap DOMAIN now[t].columns :
     Retyped(now[t].columns[c].type, model[c].type)}

Removed(t, model, now) == DOMAIN now[t].columns \ DOMAIN model

\* Unsafe changes and removals are listed as destructive; no statement of the
\* plan carries them out.
AlterPlan(model, now) ==
  LET safe == [t \in Tier |-> {c \in Changed(t, model, now) :
                                 Safe(now[t].columns[c].type, model[c].type)}]
  IN [create |-> {t \in Tier : ~now[t].exists},
      model  |-> model,
      add    |-> [t \in Tier |-> [c \in Missing(t, model, now) |-> AddedColumn(t, model[c])]],
      alter  |-> [t \in Tier |-> [c \in safe[t] |-> PgType(model[c].type)]],
      unique |-> Unique(model),
      indexed |-> Indexed(model),
      destructive |->
        UNION {{<<t, c>> : c \in (Changed(t, model, now) \ safe[t]) \cup Removed(t, model, now)}
               : t \in Tier}]

\* The plan of a publication, once it has read what it needs.
PlanOf(r) ==
  IF Deployed(r.loaded) THEN AlterPlan(r.loaded.model, r.seen) ELSE CreatePlan(r.loaded.model)

\* Columns whose definition the plan renders, default included.
Rendered(plan) ==
  (IF plan.create \cap Typed = {} THEN {} ELSE DOMAIN plan.model)
    \cup UNION {DOMAIN plan.add[t] : t \in Typed}

\* columns_from_entity needs an attribute, _render_default a default of the type.
Renderable(plan) ==
  /\ plan.model # NoModel
  /\ \A c \in Rendered(plan) : plan.model[c].default # "junk"

----------------------------------------------------------------------------
(* Publishing and deleting.                                                 *)

\* The tiers the planner looks at before a tier; a deletion goes the other way.
Before ==
  [landing |-> {}, staging |-> {"landing"}, live |-> {"landing", "staging"},
   history |-> Tier \ {"history"}]

After(t) == Tier \ (Before[t] \cup {t})

\* What one look at a table shows, and a request that has had it.
Shown(exists, columns) == [exists |-> exists, columns |-> columns, unique |-> {}]

Looked(r, t, shown, pc) ==
  [r EXCEPT !.seen = [@ EXCEPT ![t] = shown], !.read = @ \cup {t}, !.pc = pc]

\* table_exists for the next tier of a migration.  Of landing the planner asks
\* no more.
LookForTable(w) ==
  \E t \in Tier :
    /\ req[w].pc = "plan" /\ Deployed(req[w].loaded)
    /\ req[w].read = Before[t]
    /\ IF tables[t].exists /\ t \in Typed
       THEN req' = [req EXCEPT ![w] = [@ EXCEPT !.pc = "reflect"]]
       ELSE req' = [req EXCEPT ![w] = Looked(@, t, Shown(tables[t].exists, NoModel), "plan")]
    /\ UNCHANGED <<entity, versions, tables, audit, born, calls>>

\* reflect_columns for the table found: none, if it was dropped meanwhile.
ReflectColumns(w) ==
  \E t \in Typed :
    /\ req[w].pc = "reflect"
    /\ req[w].read = Before[t]
    /\ req' = [req EXCEPT ![w] = Looked(@, t, Shown(TRUE, tables[t].columns), "plan")]
    /\ UNCHANGED <<entity, versions, tables, audit, born, calls>>

\* publish_entity up to its refusals: the loaded definition against what was
\* read.  A refusal and a dry run write nothing.
PlanPublish(w) ==
  LET r    == req[w]
      plan == PlanOf(r)
  IN
  /\ r.pc = "plan"
  /\ Deployed(r.loaded) => r.read = Tier
  /\ \/ /\ Renderable(plan)
        /\ plan.destructive # {} => r.confirm
        /\ req' = [req EXCEPT ![w] = [@ EXCEPT !.pc = "apply"]]
        /\ UNCHANGED <<entity, versions, tables, audit, born, calls>>
     \/ Fail(w)

\* The statements of the plan on a table as it is by now.  CREATE TABLE IF NOT
\* EXISTS leaves a table that is there as it is.
Executed(plan, now, t) ==
  [exists  |-> now[t].exists \/ t \in plan.create,
   columns |->
     IF t \in plan.create
     THEN IF now[t].exists THEN now[t].columns ELSE Columns(t, plan.model)
     ELSE [c \in DOMAIN plan.add[t] \cup DOMAIN now[t].columns |->
             IF c \in DOMAIN plan.add[t] THEN plan.add[t][c]
             ELSE IF c \in DOMAIN plan.alter[t]
             THEN [now[t].columns[c] EXCEPT !.type = plan.alter[t][c]]
             ELSE now[t].columns[c]],
   unique  |-> IF t = "live" THEN now[t].unique \cup plan.unique ELSE {}]

\* Variant: nothing is checked.
ExecutableAlways(plan, now) == TRUE

\* No statement names a column that is there already, one that is not, or a
\* type the present one has no cast to.
Executable(plan, now) ==
  /\ \A t \in Typed \ plan.create :
       /\ DOMAIN plan.add[t] # {} => now[t].exists
       /\ DOMAIN plan.add[t] \cap DOMAIN now[t].columns = {}
       /\ \A c \in DOMAIN plan.alter[t] :
            /\ c \in DOMAIN now[t].columns
            /\ Castable(now[t].columns[c].type, plan.alter[t][c])
  /\ plan.indexed \subseteq DOMAIN Executed(plan, now, "live").columns

\* Rows can stand in the way of a lossy type or a new unique index.
DataMayRefuse(plan, now) ==
  \/ \E t \in Typed \ plan.create : \E c \in DOMAIN plan.alter[t] :
       ~Lossless(now[t].columns[c].type, plan.alter[t][c])
  \/ now["live"].exists /\ ~(plan.unique \subseteq now["live"].unique)

\* The tables a plan has statements for, and those a deletion has locked: the
\* ones it found, until it commits.
Touched(plan) ==
  plan.create \cup {t \in Tier : DOMAIN plan.add[t] \cup DOMAIN plan.alter[t] # {}}
              \cup (IF plan.indexed = {} THEN {} ELSE {"live"})

Locked(v) == IF req[v].pc = "drop" THEN {t \in req[v].read : req[v].seen[t].exists} ELSE {}

Waits(w, v) == req[w].pc = "apply" /\ Touched(PlanOf(req[w])) \cap Locked(v) # {}

\* apply_plan, one transaction: all of it or nothing.  While it waits for a
\* deletion it may fail, as the victim of a deadlock or because the deletion
\* leaves its next statement without a table.
ApplyPublish(w) ==
  LET plan == PlanOf(req[w]) IN
  /\ req[w].pc = "apply"
  /\ \/ /\ \A v \in Worker : ~Waits(w, v)
        /\ Executable(plan, tables)
        /\ tables' = [t \in Tier |-> Executed(plan, tables, t)]
        /\ req' = [req EXCEPT ![w] = [@ EXCEPT !.pc = "record"]]
        /\ UNCHANGED <<entity, versions, audit, born, calls>>
     \/ ~Executable(plan, tables) /\ Fail(w)
     \/ Executable(plan, tables) /\ DataMayRefuse(plan, tables) /\ Fail(w)
     \/ (\E v \in Worker : Waits(w, v)) /\ Fail(w)

\* Variant: the publication inserts a version row of its own, which violates
\* uq_model_version; the rollback takes the status change with it.
RecordDuplicate(w) == req[w].pc = "record" /\ Fail(w)

\* The version row the applied DDL is recorded with: found, or else inserted.
WithVersionOf(old) ==
  IF \E v \in versions : v.id = old.id /\ v.version = old.version
  THEN versions ELSE versions \cup {Snapshot(old.id, old.version, old.model)}

\* The rest of publish_entity, committed after the response.  The status is
\* written unless the session had loaded it as published.
RecordPublish(w) ==
  LET old == req[w].loaded IN
  /\ req[w].pc = "record"
  /\ \/ /\ entity.id = old.id
        /\ entity' = [entity EXCEPT
             !.status = IF old.status = "published" THEN entity.status ELSE "published",
             !.published = IF old.published = old.version THEN entity.published
                                                          ELSE old.version]
        /\ versions' = WithVersionOf(old)
        /\ audit' = audit \cup {Happened("model_publish", old.id, old.version)}
        /\ req' = [req EXCEPT ![w] = Idle]
        /\ UNCHANGED <<tables, born, calls>>
     \/ entity.id # old.id /\ Fail(w)

\* build_drop_plan and apply_plan: DROP TABLE IF EXISTS for the tables of the
\* name, whoever's they are.  A table that is not there is passed over, one that
\* is stays locked until the last statement has been executed and the
\* transaction commits.
DropTable(w) ==
  \E t \in Tier :
    /\ req[w].pc = "drop" /\ req[w].read = After(t)
    /\ \A v \in Worker \ {w} : t \notin Locked(v)
    /\ IF t # "landing"
       THEN /\ req' = [req EXCEPT ![w] = Looked(@, t, Shown(tables[t].exists, NoModel), "drop")]
            /\ UNCHANGED tables
       ELSE /\ tables' = [u \in Tier |-> IF u = t \/ req[w].seen[u].exists THEN NoTable
                                                                         ELSE tables[u]]
            /\ req' = [req EXCEPT ![w] = [@ EXCEPT !.pc = "unlink"]]
    /\ UNCHANGED <<entity, versions, audit, born, calls>>

\* A publication and a deletion wait for each other, and the deletion is aborted.
DropDeadlock(w) == (\E v \in Worker : Waits(v, w)) /\ Fail(w)

\* The entity with its attributes and versions; deleting one that is gone
\* already is no error.
Unlink(w) ==
  LET old == req[w].loaded IN
  /\ req[w].pc = "unlink"
  /\ entity' = IF entity.id = old.id THEN NoEntity ELSE entity
  /\ versions' = {v \in versions : v.id # old.id}
  /\ audit' = audit \cup {Happened("model_delete", old.id, old.version)}
  /\ req' = [req EXCEPT ![w] = Idle]
  /\ UNCHANGED <<tables, born, calls>>

Next ==
  \E w \in Worker :
    \/ BeginCreate(w) \/ BeginImport(w) \/ BeginUpdate(w) \/ BeginPublish(w) \/ BeginDelete(w)
    \/ SaveCreate(w) \/ SaveImport(w) \/ SaveUpdate(w)
    \/ LookForTable(w) \/ ReflectColumns(w)
    \/ PlanPublish(w) \/ ApplyPublish(w) \/ RecordPublish(w)
    \/ DropTable(w) \/ DropDeadlock(w) \/ Unlink(w) \/ Crash(w)

Spec == Init /\ [][Next]_vars

----------------------------------------------------------------------------
(* What the registry promises.                                              *)

\* The entity, its versions, its tables and the requests have their shape.
TypeOK ==
  /\ entity \in EntityRow
  /\ versions \subseteq VersionRow
  /\ \A t \in Tier :
       /\ tables[t].exists \in BOOLEAN
       /\ tables[t].unique \subseteq DOMAIN tables[t].columns
       /\ DOMAIN tables[t].columns \subseteq Col
       /\ \A c \in DOMAIN tables[t].columns : tables[t].columns[c] \in Column
  /\ audit \subseteq Event
  /\ born \in Nat
  /\ \A w \in Worker :
       /\ req[w].loaded \in EntityRow
       /\ req[w].payload \in Model
       /\ req[w].read \subseteq Tier
       /\ \A t \in Tier :
            /\ DOMAIN req[w].seen[t].columns \subseteq Col
            /\ \A c \in DOMAIN req[w].seen[t].columns : req[w].seen[t].columns[c] \in Column

\* Every version of the entity has one snapshot and the last one is the
\* definition as it is, whatever changes overlap ("Immutable snapshot of an
\* entity definition, written on every change", models/meta.py).
VersionsComplete ==
  entity.id # 0 =>
    /\ \A n \in 1..entity.version :
         Cardinality({v \in versions : v.id = entity.id /\ v.version = n}) = 1
    /\ \A v \in versions :
         /\ v.id = entity.id /\ v.version \in 1..entity.version
         /\ v.version = entity.version => v.snapshot = entity.model

\* A snapshot on record is never replaced by another of its number.
SnapshotsImmutable ==
  [][\A v \in versions, u \in versions' :
       v.id = u.id /\ v.version = u.version => v.snapshot = u.snapshot]_vars

\* As long as requests do not overlap the status tells whether the definition
\* has changed since it was published (EntityStatus: "in sync", "model has
\* since changed", "no DDL deployed").
StatusHonest ==
  entity.id # 0 =>
    /\ entity.status = "published" <=> entity.published = entity.version
    /\ entity.status = "modified" <=> entity.published \in 1..(entity.version - 1)

\* Without overlap or crash a deployed entity has its four tables, but for
\* the time between dropping them and deleting the entity (delete_entity).
DeployedHasTables ==
  Deployed(entity) =>
    \/ \A t \in Tier : tables[t].exists
    \/ \E w \in Worker : req[w].pc = "unlink" /\ req[w].loaded.id = entity.id

\* The status ceases to tell the truth in two ways only: a publication is
\* recorded although a newer version was saved since it loaded the entity, or a
\* change is saved although a publication was recorded since it loaded it.  No
\* other overlap does it, of changes, publications, deletions or crashes
\* (publish_entity and update_entity after their get_entity).
StatusLostOnlyByOverlap ==
  [][StatusHonest /\ ~StatusHonest' =>
       \E w \in Worker :
         LET old == req[w].loaded IN
         /\ req[w].pc # "idle" /\ req'[w].pc = "idle" /\ old.id = entity.id
         /\ \/ req[w].pc = "record" /\ old.version < entity.version
            \/ /\ req[w].pc \in {"update", "import"}
               /\ entity.status = "published" /\ old.status # "published"]_vars

TypesOf(x) == [c \in DOMAIN x.columns |-> x.columns[c].type]

\* Staging, live and history are there or not there together, with the same
\* columns of the same types: what is staged fits live, what is live fits history.
Together(x) ==
  \A t \in {"staging", "history"} :
    x[t].exists = x["live"].exists /\ TypesOf(x[t]) = TypesOf(x["live"])

\* Only a request whose own statements saw them disagree can tear the three
\* tables apart: a plan made of queries, or a deletion made of statements, that
\* straddled the DDL of another request (build_alter_plan, build_drop_plan).  A
\* plan made of tables that agreed keeps them so, however stale it is when it is
\* applied, over whatever tables, and wherever crashes fall.
TornOnlyByTornReads ==
  [][Together(tables) /\ ~Together(tables') =>
       \E w \in Worker : req'[w].pc # req[w].pc /\ ~Together(req[w].seen)]_vars

\* A publication that had nothing destructive to do, and for which the tables
\* still are what it read of them or, for a first one, not there, leaves exactly
\* the columns and types of its definition: nothing is left to migrate.
PublishDeploysModel ==
  [][\A w \in Worker :
       LET r == req[w] IN
       /\ r.pc = "apply" /\ req'[w].pc = "record"
       /\ PlanOf(r).destructive = {}
       /\ \A t \in Tier :
            IF Deployed(r.loaded)
            THEN tables[t].exists = r.seen[t].exists /\ tables[t].columns = r.seen[t].columns
            ELSE ~tables[t].exists
       => \A t \in Typed :
            /\ tables'[t].exists
            /\ TypesOf(tables'[t]) = [c \in DOMAIN r.loaded.model |->
                                       PgType(r.loaded.model[c].type)]]_vars

\* DDL that was applied is put on record: the entity is marked published at the
\* version applied, with an audit event, unless it was deleted meanwhile.
AppliedIsRecorded ==
  [][\A w \in Worker :
       req[w].pc = "record" /\ req'[w].pc = "idle" /\ entity.id = req[w].loaded.id =>
         /\ entity'.published = req[w].loaded.version
         /\ Happened("model_publish", entity.id, entity'.published) \in audit']_vars
=============================================================================
