# A verification project for open-mdm

open-mdm is a master-data service: FastAPI in front of PostgreSQL. Model designers define
entities, publishing creates four tables for each, and every write travels
`landing -> staging -> [steward review] -> live`, with `history` behind `live`. This directory
holds TLA+ modules that model it from its source, TLC configurations that check them on small
instances, and TLAPS proofs of what holds for every instance.

    tlc -config StewardshipSeq.cfg MCStewardship.tla      # one run
    tlapm Stewardship_proofs.tla                          # the proofs about one module

`PROJECT.json` lists the components, runs, findings, hazards and theorems, and maps each
definition to the source lines it stands for.

## 1. Inventory

| component | source | state | operations |
|---|---|---|---|
| Landing tier | `services/pipeline.py` 70-132, `api/v1/data.py` | `mdm_landing.<entity>`: operation, payload, target, idempotency key, status | `create`, `put`, `patch`, `upsert`, `delete`, `bulk_write`, `import_csv` |
| Promotion | `pipeline.py` 136-291, `stewardship.py` 287-298 | landing status; new staging rows; `PromotionBatch` | driven by every write (`_auto_promote`) or by `run_promotion` |
| Validation, resolution | `validation.py`, `pipeline.py` 294-380 | none | `validate_record`, `build_match_key`, `_resolve_target` |
| Stewardship | `pipeline.py` 391-693, `stewardship.py` | `mdm_staging.<entity>`: values, supplied fields, validity, status, who submitted, edited, reviewed | approve, reject, edit, bulk approve, bulk reject |
| Live and history | `pipeline.py` 483-596, `ddl.py` 210-271 | golden records with version, tombstone, approver, back-reference; one history row per update or deletion | `_apply_insert`, `_apply_update`, `_apply_delete`, `_write_history` |
| Model registry | `models_api.py`, `ddl.py`, `identifiers.py` | entities, attributes, versions, status draft/published/modified; the tables of the four tiers | create, update, preview, publish, delete |
| Model documents | `model_io.py` | none | export, validate, plan and apply an import |
| Identity | `auth.py`, `deps.py`, `admin.py`, `ldap_auth.py` | users, roles, group mappings, API keys | log in, set roles, set status, map groups, issue, use and revoke keys |
| Sessions and pools | `db.py`, `config.py`, `deps.py` | pooled connections of two engines, server threads | session per request, blocks of a handler, commit after the response, roll back on an exception |
| Audit trail | `models/meta.py` 269-317 | `mdm_meta.audit_event`, promotion batches | written through the request's session |
| Reading, presentation, start-up | `main.py`, `ui.py`, `static/`, `bootstrap.py`, `scripts/` | none | |

How they interact. A request handler is a plain function on a server thread, except `import_csv`
(data.py:236) and `import_models` (models_api.py:375): these are `async`, do the same blocking work
and hold up the event loop while they do it. The components share nothing but tables. Handlers use
up to three kinds of transaction: `get_engine().begin()` for the data, committed as soon as its
block ends; the DDL engine for publishing and dropping tables, likewise; and the ORM session of
`get_db` for the registry, identity, audit events and promotion batches, committed after the
response was sent and rolled back when the handler raises. The isolation level is PostgreSQL's
default, READ COMMITTED, and nothing is read `FOR UPDATE`.

What is hard here, and therefore what the properties are for:

* two requests that read the same row before either writes it (approve/approve, approve/edit,
  approve/reject, update/update, promote/promote, retry/retry, change/publish, login/override);
* several commits per request, with a crash, a failure or a retry between them;
* plans and deletions made of several statements, each of which sees another moment; plans that are
  stale when they are applied; statements left out of a plan;
* names that are written differently by those who type them and those who store them;
* one failing item in a promotion or a bulk decision;
* long legal sequences: submit, reject, edit, approve; delete, then update the tombstone; an
  update whose target never existed, repaired into an insert; publish, narrow, publish;
* limits: the promotion limit, the batch limit, the pools, lengths and scales of types.

What makes each component correct:

* landing: an idempotency key names one row; what was answered with 202 is there; a landed row is
  staged or put aside and not both, not twice, not never;
* stewardship: only valid rows are applied, four eyes, a decision is overruled by an edit or a lost
  race only, an edit changes what it names;
* live and history: only clean data, no change without a history row, every prior version kept,
  untouched fields stay untouched, every record leads back to a reviewed staging row;
* audit: nothing is reported that did not happen, everything that happened is reported;
* registry: every version has its snapshot and it never changes, the three typed tiers fit each
  other unless somebody's own reads were torn, a publication leaves the tables of the definition,
  applied DDL is on record, the status tells the truth unless a change and a publication overlap;
* identity: the audit trail explains what an account or a key may do, a login that grants nothing
  leaves nothing;
* pools: what is taken comes back, and requests do not wait for each other forever.

## 2. Modules

| module | what it is |
|---|---|
| `Records` | values, payloads, validation, target resolution, the fields an update writes, the constraints of a live table: operators, no state |
| `Stewardship` | EXTENDS `Records`. Staging, live, history, audit and the requests in flight: promotion, approval, rejection, repair |
| `GoldenStore` | the abstract specification: a store of versioned records in which every change leaves an archived row |
| `StewardshipStore` | the refinement mapping from `Stewardship` to `GoldenStore` |
| `Landing` | the landing table, promotion and the three transactions of a write request, without the contents of a row |
| `ColumnTypes` | logical types, the columns they render to, and the rule that calls a change of type safe: operators, no state |
| `Registry` | EXTENDS `ColumnTypes`. One entity name: definition, versions, the four tables, requests in flight |
| `RegistryClaims` | two statements of the repository about publishing that the code does not keep |
| `Identity` | accounts, mappings, keys, the audit trail, requests in flight |
| `Pool` | threads and connections of one worker process |
| `MCStewardship`, `MCLanding`, `MCRegistry`, `MCIdentity` | instances for TLC (`Pool` needs none) |
| `Stewardship_proofs` | lemmas about the operators of `Records`; types, and what each handler knows at each step |
| `StewardshipSafety_proofs`, `StewardshipStore_proofs`, `StewardshipApart_proofs` | EXTEND it: golden records; history and the refinement; what holds while requests keep apart |
| `Landing_proofs`, `Registry_proofs`, `Identity_proofs`, `Pool_proofs` | types and safety of the module of that name |

### Records

A value is a member of `Value`; what the system tells apart is what normalising and typing make of
it (`Normal`: another value, null, or `Mistyped`), whether the outcome breaks a rule (`OffLimits`),
is null (`None`), which values the match key identifies (`Fold`), and whether a key is no attribute
at all (`Stray`). `Normal` is any function: that a stored value is in normal form is not supposed,
nor that normalising twice is normalising once. `ValidateRecord` keeps the control of
`validate_record`: partial records skip absent fields, a default fills an absent field only and is
not normalised, a type error suppresses the checks of that field. `StagedValues` adds what
PostgreSQL does with columns an INSERT leaves out. `ResolveTarget` returns the set of possible
outcomes, because `scalar()` takes whichever matching row comes first. `Refused` is NOT NULL and the
partial unique index of `build_live_ddl`.

Two choices to know: `DefaultAssumption` supposes that no configured default breaks the attribute's
own rules; and the model takes coerced values to be storable (values a column type refuses are the
`breaks` rows of `Landing`).

### Stewardship

A `Worker` is a request in flight with a program counter and a snapshot of what it has read:

| step | code |
|---|---|
| `BeginReview`, `BeginEdit` | the handler starts; a single decision is a batch of one |
| `ReadStaging` | `select * from staging` and the checks of `apply_staging_to_live`; a refused item is reported, the batch goes on |
| `ReadGolden` | `select * from live` at the head of `_apply_update` and `_apply_delete` |
| `ApplyInsert`, `ApplyUpdate`, `ApplyDelete` | history row, live row, `mdm_status = 'applied'`, commit; a refused statement fails the request |
| `Reject` | the guarded UPDATE of `reject_staging` |
| `ReadForEdit`, `SaveEdit` | `edit_staging` before and at its UPDATE, which writes every column of the merged row, normalised anew |
| `EndRequest`, `Fail`, `Crash` | the session commits, or is lost |

The writes of one transaction are one step. They hold their row locks until the commit and always
take live before staging, so another request cannot see the first without the second, nor can two
requests wait for each other; moving the first write to the commit changes nothing observable. The
unlocked reads are steps of their own, and that is where all the interleavings come from.
`Promote` stages one write atomically: what was resolved may be stale the next moment, which the
model gets by changing `live` afterwards. Whether deletion is soft is chosen at every deletion: the
entity's setting can change between two of them.

### GoldenStore and StewardshipStore

`GoldenStore` has no staging, no requests and no people: records are created with permitted
contents at version 1, amended or retired into the next version, purged, and each of these but the
creation archives one row of that record in the same step. `Note`, an archived row without a change,
is what the code does when the record was hard-deleted between the read and the UPDATE of an
approval. The mapping takes a golden record with the number of its history rows; the contents a
removed record last had do not matter. `RefinesGoldenStore` is the abstract specification under
that mapping.

### Landing

Here a request is followed through all its transactions: `LookUp`, `Insert`, `Commit` (the landing
transaction; an INSERT waits for an open transaction with the same key, then the unique index
refuses it), `Select`, `Stage` (the promotion), `Answer` (the 202), `Close` (the session commit). A
row has a kind: `plain`; `raises`, when its validation raises a Python exception, which the per-row
handler puts aside; `breaks`, when PostgreSQL refuses a statement of its promotion (a `record_id`
that is not a uuid, a value too large for its staging column), which aborts the transaction that
handler wants to use; `unlandable`, when the landing INSERT itself is refused. A submission comes
`via` a single write, a bulk write or a CSV file. Only a single write carries a key and is `Filed`
in the audit trail; a bulk write over `MaxBulkRows` is `Refused`, a file is `Taken` up to there.
`staged` counts the staging rows per landing row, `acked` is what clients were told.

### ColumnTypes and Registry

`ColumnTypes` renders a logical type as the code does (`PgType`), gives back what
`information_schema` says of the column (`Catalog`) and the type the planner makes of that
(`RenderPg`, `LogicalOf`), decides whether the two differ (`Retyped`) and whether the change counts
as safe (`Safe`, from `is_safe_widening`). `Castable` and `Lossless` are the reference: what
PostgreSQL can convert, and what it can convert without changing a value.

A request loads the entity (`Begin...`) and then takes the steps of its handler:

| step | code |
|---|---|
| `SaveCreate`, `SaveImport`, `SaveUpdate` | `create_entity`, `apply_import`, `update_entity`; the unique constraints on the name and on (entity, version) refuse all but one of those that overlap |
| `LookForTable`, `ReflectColumns` | `table_exists` and `reflect_columns`, tier by tier: what `build_alter_plan` reads |
| `PlanPublish` | `build_create_plan`, or `build_alter_plan` on what was read, and the refusals |
| `ApplyPublish` | `apply_plan`: the statements on the tables as they are by then, all or none |
| `RecordPublish` | status, published version, version row and event, in the session's commit |
| `DropTable` | one `DROP TABLE IF EXISTS` of `build_drop_plan`; the last one commits them all |
| `DropDeadlock` | the deletion is aborted, as it and a publication wait for each other |
| `Unlink` | the entity is deleted, in another transaction |
| `Fail`, `Crash` | a refusal, a dry run, an exception; the process dies |

At READ COMMITTED each of a migration's up to seven catalog queries sees the moment it is executed,
so the tiers a plan is made of (`seen`) need never have existed together. A deletion passes over a
table it does not find and keeps those it found locked until it commits (`Locked`), while
publications wait (`Waits`); its own drops take effect together. A plan is executed in one step,
since what it touches it has locked.

`Revise` writes only what the ORM writes: the columns that differ from what the session loaded,
which is why the status of an entity that a change and a publication touch together may be either.

### Identity

`BeginLogin` reads the group mappings, `DirectoryAccepts` and `FallBack` are the two answers of the
directory (which is external and may answer anything), `CommitLogin` and `CommitLocal` the end of
the request. Accounts of the directory carry the name the directory returns, whatever was typed:
`Directory` maps one to the other, as a filter that ignores case does. The login event is written
under the name that was typed, the account and the token under the directory's. `session` holds the
accounts a token was issued for. `BeginSetRoles`/`CommitRoles` and `BeginSetStatus`/`CommitStatus`
are the administration of accounts: authorised and loaded in one step, committed in another.
Mappings and keys are single steps, since nothing they read is used after other requests could have
changed it; the use of a key has two, because its commit writes the row it loaded. `Authorised`
reads the account from the database, as `get_current_principal` does on every request.

### Pool

A request takes a thread for the dependency that finds the principal, and a runtime connection that
the session keeps until it is closed after the response; gives the thread back and waits for one
again for its handler; and opens up to `MaxBlocks` connections of its own, one after the other, of
the runtime or of the DDL engine. A wait for a connection may time out, whenever, and becomes an
error; a wait for a thread does not. An `async` handler takes no thread and blocks the event loop
instead: until it ends nothing that needs the loop happens (`LoopFree`), neither an arrival nor the
end of anybody else's function. `get_db` is closed in a thread of its own (FastAPI limits exits of
dependencies separately), so `Close` needs none of the pool.

## 3. Runs

| run | instance | shows |
|---|---|---|
| `StewardshipSeq` | 1 worker, 2 golden records, 2 staging rows, 2 stewards, 3 requests, batches of 2, crashes, soft and hard deletion | the promises of section 1 when requests do not overlap: what was ever reviewed, by whom, what it changed, what it archived, what was reported |
| `StewardshipConc` | 2 workers, one unique required attribute, single decisions, crashes, soft and hard deletion | `GoldenClean`, `FourEyes`, `NoUnrecordedChange`, `LineageSound` survive every interleaving, nothing but a lost race overrules a decision (`OverruledOnlyByOverlap`), and the whole implements `GoldenStore` |
| `LandingSeq` | 1 worker, 4 requests, rows of every kind, bulk writes and files up to and over the limit, crashes | nothing accepted is lost and rows are staged once, whatever crashes and retries |
| `LandingConc` | 2 workers, 3 requests, one shared key, bulk writes and files, fairness | one row per key, every single write and every promotion is on record at rest, every landed row is settled |
| `RegistrySeq` | 1 worker, 6 requests, 2 attributes, 5 definitions, 2 entities of the name one after the other | the status tells the truth, a publication leaves exactly the columns of the definition, what was applied is on record |
| `RegistryConc` | 2 workers, 5 requests, crashes | versions complete and immutable under every interleaving of catalog queries, plans, drops and changes; only a request whose own statements were torn tears the tiers apart, and the status is lost in two ways only |
| `Identity` | 2 workers, 5 requests, the local administrator and one person of the directory whose name is typed in two ways, one group, one key | the audit trail explains roles and keys, administrators were appointed, no account without roles |
| `Pool` | 3 requests, 3 runtime connections, 2 threads, 1 DDL connection, 2 blocks, handlers with a thread and `async` ones | nothing leaks, no gridlock below the size of the pool, every request ends |
| `AppliedReopened` | 2 workers | an applied row is reopened by an overlapping edit |
| `PoisonRow` | 1 worker, fairness | a row that stays pending, and all others with it |
| `ConfirmedIgnored`, `NarrowedUnasked` | 1 worker | statements about publishing that the code does not keep |

Bounds. Two golden records and two staging rows are the least with which a unique attribute, a
duplicate, a stale target and a batch of two exist; two values per attribute, with one that is not
in normal form, one forbidden and one untypable, take every branch of validation. Three steward
requests are enough for approve, edit, approve again and for reject, edit, approve, the longest
sequences a property speaks of; promotions do not count as requests, only the staging rows bound
them. Two workers suffice for the races, each of which is between two requests. In `LandingSeq` the
limit (3) is below the number of rows that can be pending and in `LandingConc` above it, as 1000
usually is; a submission has up to three rows there, one more than `MaxBulkRows`. Six registry
requests reach create, publish, change, publish, delete and create again; the definitions include a
shorter and a longer string, two scales of a decimal, a change of family, a column that comes and
goes and a default that cannot be rendered. Five identity requests reach: log in, get disabled, log
in again, override, log in. In `Pool` there are as many requests as connections, so that everybody
can wait.

`CHECK_DEADLOCK FALSE`: requests are bounded, so every behaviour ends. `Pool` has no such bound,
its requests come again, and TLC checks it for deadlock.

Fairness. `Landing`'s `FairSpec` asks only that a request which was accepted takes its next step
(weak fairness of `Run`): a server thread runs and PostgreSQL answers. Nothing is assumed of
clients, of stewards, or of a manual promotion; no background job exists in the code. It is used
without crashes. `Pool` asks weak fairness of the steps of a request that was started, its timeout
included (`create_engine` sets no `pool_timeout`, SQLAlchemy's default is 30 seconds): weak fairness
of what a request's code does by itself (`Work`), strong fairness of what the event loop takes part
in (`Turn`), because the loop and the thread pool serve their waiters first come, first served. It
asks nothing of arrivals. A block's statements are taken to end, as no lock is held across a wait
there.

Symmetry is used in runs without liveness only.

Each `Variant` in a module is a wrong form of the definition below it. Substituting it makes the
properties of a run fail, which is how they are known to depend on that definition.

## 4. Where the code departs from what is said of it

With a run of their own:

* `AppliedReopened`. `edit_staging` (pipeline.py:635) reads the row, an approval applies it, and the
  UPDATE sets `pending_review` by identifier. The row can be applied again.
* `PoisonRow`. The handler of pipeline.py:264 runs in the transaction the error aborted; promotion of
  the entity fails from then on, driven by any write.
* `ConfirmedIgnored`. `confirm_destructive` lifts a refusal, but no statement of the plan narrows or
  drops anything: the publication succeeds and the columns stay (ddl.py:494).
* `NarrowedUnasked`. `is_safe_widening` does not look at precision and scale (identifiers.py:165).

Met while modelling, and to be seen in the models by checking the property named on two workers or
by reading the line named; the hazards of `PROJECT.json` refer to these.

Stewardship:

* two overlapping approvals of one row pass the status check on the same read, and both insert
  (`CreatedOnce`); an approval writes over a rejection that came between its read and its write.
  `OverruledOnlyByOverlap` says that these, and the edit of `AppliedReopened`, are all there is;
* overlapping updates archive the same version twice, so the one between them is in no history row
  (`PriorVersionsKept`);
* an edit normalises and writes the whole merged row (pipeline.py:650-664): a field it does not name
  is brought to its normal form, if it was stored from a default, and goes back to what it was, if
  another edit saved it since the row was read (`EditOnlyNamed`);
* after an edit by somebody else only the editor is barred from approving, the submitter is not
  (pipeline.py:428);
* a database error in one item of a bulk approval ends the request (stewardship.py:256): the
  remaining items are not tried, and the audit events of the items committed already are rolled back;
* with no supplied field the fallback that the comment at pipeline.py:514 warns of runs, and an empty
  PATCH writes the defaults;
* a history row names the staging row of the state it archives, not the one that triggered it
  (pipeline.py:585, ARCHITECTURE.md:314); an insert writes no history row, although docs/API.md:2050
  expects one.

Landing:

* overlapping promotions stage a row twice (`StagedOnce`);
* 10000 rows may land and one promotion takes 1000: the rest waits for the next write of that entity;
* docs/API.md:845 says of a bulk write that "a failure on one row does not prevent the others from being
  recorded"; its rows are landed in one transaction (data.py:215), which one unlandable row ends;
* a CSV file is cut at `MAX_BULK_ROWS` without a word to the client (docs/API.md:905 says so), while a
  bulk write over the limit is refused;
* bulk writes and CSV imports write no audit event (data.py:196-278).

Registry:

* a change that overlaps a publication leaves the status wrong: published at a version whose DDL was
  never applied, or never marked modified (`StatusHonest`); `StatusLostOnlyByOverlap` says in which two
  ways;
* nothing keeps DDL of another request from falling between the catalog queries of a migration
  (ddl.py:349-366) or the statements of a deletion (ddl.py:476-484): a migration that read staging
  before a deletion and live and history after it creates live and history without staging, and a
  deletion that passes over a table just being published leaves the others. `TornOnlyByTornReads` says
  that only requests torn in this way tear the tiers apart;
* a deletion drops the tables of the name: those of an entity created anew in the meantime too;
* tables left behind by an entity that was deleted without them meet `CREATE TABLE IF NOT EXISTS`,
  and keep their old columns;
* a crash between dropping the tables and deleting the entity leaves a published entity without
  tables; publishing it again creates them, since a migration plans the tables it does not find;
* `update_entity` writes no audit event, although docs/API.md:1767 says model changes are recorded.

Identity:

* the events of failed logins are written to a session that the error answer rolls back (auth.py:124,
  155; docs/API.md:1767, ARCHITECTURE.md section 9);
* a directory login under the local administrator's name makes it a directory account, which the
  fallback for a directory that is down no longer finds; and a directory login enables an account an
  administrator had disabled;
* a login is recorded under the name that was typed (auth.py:132), while the account it changes has
  the directory's (auth.py:163-166, ldap_auth.py:279): who reads the trail has to know that both are
  one person, as `RolesExplained` and `AdminsAppointed` do;
* two administrators who disable each other at the same time leave none, as the check of admin.py:86
  is about oneself only; no property is claimed;
* of a login and an override that overlap, one is lost (`RolesExplained` without `current`).

Pool:

* FastAPI closes a dependency with `yield` after the response was sent, so a slow client holds the
  session's connection;
* `import_csv` and `import_models` are `async` but never await while they work: until one ends, the
  worker process answers nobody, and a wait of theirs for a connection lasts until the timeout if
  those who hold one need the event loop to give it back.

## 5. Proofs

Proved by TLAPS for every value of the constants that satisfies the assumptions the modules name
(`EntityAssumption`, `DefaultAssumption`, `StewardshipAssumption`, `LandingAssumption`,
`RegistryAssumption`, `IdentityAssumption`, `PoolAssumption`): any number of requests in flight,
users, records, staging rows, keys, groups, submissions, attributes, versions, connections and
threads. "Under" names a hypothesis of the theorem itself, explained below.

| theorem | module | states | under | run that checks it |
|---|---|---|---|---|
| `TypeCorrect` | `Stewardship_proofs` | `TypeOK` | | `StewardshipSeq` |
| `AlwaysClean` | `StewardshipSafety_proofs` | `GoldenClean` | | `StewardshipConc` |
| `AlwaysFourEyes` | `StewardshipSafety_proofs` | `FourEyes` | | `StewardshipConc` |
| `AlwaysTraceable` | `StewardshipSafety_proofs` | `LineageSound` | | `StewardshipConc` |
| `OverruledOnlyThus` | `StewardshipSafety_proofs` | `OverruledOnlyByOverlap` | | `StewardshipConc` |
| `EditsNamedOnly` | `StewardshipSafety_proofs` | `EditOnlyNamed` | | `StewardshipSeq` |
| `AlwaysRecorded` | `StewardshipStore_proofs` | `NoUnrecordedChange` | | `StewardshipConc` |
| `StoreImplemented` | `StewardshipStore_proofs` | `RefinesGoldenStore` | | `StewardshipConc` |
| `NeverOwnReviewer` | `StewardshipApart_proofs` | `LastTouchNotReviewer` | `Apart` | `StewardshipSeq` |
| `AlwaysKeepsVersions` | `StewardshipApart_proofs` | `PriorVersionsKept` | `Apart` | `StewardshipSeq` |
| `AlwaysTruthful` | `StewardshipApart_proofs` | `AuditTruthful` | `Apart` | `StewardshipSeq` |
| `HistoryAlwaysExact` | `StewardshipApart_proofs` | `HistoryExact` | `Apart` | `StewardshipSeq` |
| `UnclaimedAlwaysKept` | `StewardshipApart_proofs` | `UnclaimedFieldsKept` | `Apart` | `StewardshipSeq` |
| `TypeCorrect` | `Landing_proofs` | `TypeOK` | | `LandingSeq` |
| `AlwaysOneRow` | `Landing_proofs` | `OneRowPerKey` | | `LandingConc` |
| `AlwaysAccepted` | `Landing_proofs` | `AcceptedIsLanded` | | `LandingSeq`, `LandingConc` |
| `AlwaysOnRecord` | `Landing_proofs` | `OnRecord` | no crashes | `LandingConc` |
| `AlwaysStagedOnce` | `Landing_proofs` | `StagedOnce` | `Apart` | `LandingSeq` |
| `TypeCorrect` | `Registry_proofs` | `TypeOK` | | `RegistrySeq` |
| `AlwaysComplete` | `Registry_proofs` | `VersionsComplete` | | `RegistryConc` |
| `AlwaysImmutable` | `Registry_proofs` | `SnapshotsImmutable` | | `RegistryConc` |
| `TornOnlyThus` | `Registry_proofs` | `TornOnlyByTornReads` | | `RegistryConc` |
| `StatusLostOnlyThus` | `Registry_proofs` | `StatusLostOnlyByOverlap` | | `RegistryConc` |
| `AlwaysDeploysModel` | `Registry_proofs` | `PublishDeploysModel` | | `RegistrySeq` |
| `TypeCorrect` | `Identity_proofs` | `TypeOK` | | `Identity` |
| `AlwaysExplained` | `Identity_proofs` | `RolesExplained` | | `Identity` |
| `NeverRoleless` | `Identity_proofs` | `NoRolelessAccount` | | `Identity` |
| `AlwaysAppointed` | `Identity_proofs` | `AdminsAppointed` | | `Identity` |
| `AlwaysOnRecord` | `Identity_proofs` | `KeysOnRecord` | | `Identity` |
| `TypeCorrect` | `Pool_proofs` | `TypeOK` | | `Pool` |
| `NothingEverLeaks` | `Pool_proofs` | `NothingLeaks` | | `Pool` |
| `NoGridlock` | `Pool_proofs` | `NoGridlockBelowSize` | | `Pool` |

*Stewardship.* `Typed` adds to `TypeOK` what a handler holds at each program counter. The three
safety properties speak of `live` alone and are not inductive: an approval writes what it read
earlier, and by then the staging row may have been edited, rejected or applied by another request.
`Safe` is their strengthening: every row marked valid is clean (`SafeRows`), the snapshot of an
approval passed the checks when it was read and agrees with the row, as it is now, in the marks
that never change (`SafeRequests`, `Applying`), and every golden record is clean and rooted in a
staging row (`SafeLive`). It is inductive because the marks of a staging row only move one way,
whoever writes it (`Kept`): submitter and target never change, an editor or reviewer once set stays
set. That is why `FourEyes` is stated for rows nobody edited: for an edited one, another request may
edit it again between the read and the write of an approval, and only the snapshot was checked.

*Stewardship, decisions and edits.* `OverruledOnlyByOverlap` and `EditOnlyNamed` are about steps,
and follow from `Typed` and `Safe`: a handler about to write holds the status that admitted it
(`Applying`, `Editing`), so if the row has another one by now, its read was earlier than that
decision (`OverruledStale`). `EditNormalises` says that validating a merged row gives a field the
edit does not name its normal form or null, whatever `Normal` is.

*History.* `NoUnrecordedChange` is inductive on top of `Typed`. The work is in counting:
`ArchivedGrows` shows that one `Archive` adds exactly one history row to its record and none to the
others, with the cardinality theorems of the library. Overlapping updates write two history rows
with the same version, which is why the property counts rows and `PriorVersionsKept`, which names
versions, needs a hypothesis.

*Refinement.* `StoreStep` maps each action: an approval to `Create`, `Amend`, `Retire`, `Purge` or
`Note` of one record, everything else, failures and crashes included, to a stutter. `StoredStep`
does the counting with `ArchivedGrows`; that the contents written are permitted ones comes from
`Safe` of the next state, so the refinement rests on `AlwaysClean`'s invariant.

*Keeping apart.* `LastTouchNotReviewer`, `PriorVersionsKept`, `AuditTruthful`, `HistoryExact` and
`UnclaimedFieldsKept` are false when requests overlap on one row: a handler reads without a lock and
writes by identifier. What they need is stated as a hypothesis, `Spec /\ []Apart`: the staging rows
that two requests have read are different, and so are the golden records they are reading or about
to write. (A rejection reads and writes in one statement, so every row it has been asked to reject
counts.) Locking what is read would serve that end. It is weaker than one request at a time: any
number of approvals, edits and rejections of different rows overlap under it, bulk requests may list
the same rows, promotions and crashes come whenever they like, and approvals create records side by
side. TLC finds states with two approvals about to write on the instance of `StewardshipConc`
restricted to `Apart`, and no violation there. The invariant is `Whole`: what a handler has read is
still what is there (`Fresh`), versions are gapless and all but the last are in the history
(`Numbered`), and `LastTouchNotReviewer` and `AuditTruthful`, which support each other. Two lemmas
carry it: `RowsMove`, that a step does one of four things to a staging row, and `FreshBeside`, that
a request's step leaves alone whatever another one has read.

*Landing.* `Owned` says which identifiers a request holds: fresh ones whose rows are absent until
its commit, its own landed rows after it. `Keyed` says that the key of a request with an open INSERT
is on no row and in no other open INSERT, which is what the unique index and its wait give; the
lookup that precedes it is not needed for `OneRowPerKey`. `Granted` says that any two requests, or a
request and an answer, hold the same write or no common row, which `AcceptedIsLanded` follows from.

*Landing, the record.* `AlwaysOnRecord` assumes `~MayCrash`: a crash between staging and the
session's commit leaves promoted rows without a batch, and the code has no repair for it. Its
invariant `Recorded` says that what is not in the journal yet is in the log of a request that will
commit it. `AlwaysStagedOnce` has crashes and any overlap but one: `Apart` forbids two promotions to
have read the same landing row, which is what `FOR UPDATE` would rule out. Under it the rows a
promotion has read are pending when it stages them, whatever lands or is answered in between.

*Registry, versions.* `Loaded` says what a request may believe about the entity it loaded: its
version is not ahead, and if it is the present one, so is the definition. `Numbered` says the
version rows are those of the entity, one for each number. `OnlyTheLatest` is the point of the
proof: as every number up to the present one is taken, the unique constraint lets through only a
change that was made from the present version. The constraint works as an optimistic lock, though
the code never speaks of it as one. `SnapshotsImmutable` follows, as a step only ever adds the next
number, or removes rows.

*Registry, tiers.* A plan is `Even` if it does the same to staging, live and history. A plan is even
when the tiers it read agreed (`CreateEven`, `AlterEven`, `PlanEven`), whether or not they were ever
there at one moment, and an even plan keeps tiers in agreement even if they are no longer those it
was made of (`ExecutedEven`). `TablesChange` says that only a plan or the last statement of a
deletion changes tables. So no staleness, interleaving or crash tears the tiers apart, only torn
reads do.

*Registry, status.* `StatusInv` says what a request that loaded the entity as published knows: at
the same version it still is (`KnowsPublished`), because only a new version takes the mark back, and
the version constraint refuses a change that was not made from the present one (`OnlyTheLatest`).

*Registry, types.* `ShapeInv` says that tables and plans have the shape the code gives them
(`SoundTable`, `SoundPlan`): every column has a type some attribute renders to, unique columns
exist, the statements of a plan name attributes and types of attributes. It holds for stale plans
too (`ExecutedSound`), so `TypeCorrect` needs no hypothesis. `RoundTrip` is the fact about
`identifiers.py` and `ddl.py` everything about migration rests on: what the catalog reports of a
column that was rendered from an attribute renders to the same type again, for every logical type
and every length, precision and scale. Without it a publication would find differences for ever.

*Registry, deployment.* `PublishDeploysModel` is about plans for the tables as they are when they
are executed, which its own condition says (`StillSo`). It follows from `CreatedDeploys` and
`MigratedDeploys`: the statements of a plan with nothing destructive in it leave the columns of the
definition. Changes of the definition may overlap at will; they are a later publication's business.

*Identity.* One invariant, `Inv`, gives all five. What a request is going to write is part of it
(`Intent`): an override or a change of status is under way only for somebody who was appointed, and
a login writes its own account, with the roles its event will name. Then an account with the role
was appointed by an event (`Appointed`), an account without roles was emptied by one (`Emptied`),
and both survive any later event, as the trail only grows (`StayOnRecord`). A login counts for the
account the directory resolves its name to; nothing is assumed of `Directory` but that it is a
function. `RolesExplained` speaks of events whose request had loaded the row as it was at the
commit, which the event's `current` records; without that it is false, as section 4 tells.

*Pool.* What is not free is held by somebody: each action changes one request and at most one count
(`Recount`, `OneMoves`), which makes `NothingLeaks` inductive with the types. The bounds of `TypeOK`
follow from it. For `NoGridlock`: if everybody is stuck, no handler has a connection of its own
open, so with fewer requests than runtime connections one is free and nobody waits for one; then no
`async` handler is blocking the loop, all wait for a thread, and nobody holds one.

Model-checked only: `PendingIsSettled` and `EveryRequestEnds`, which are liveness under fairness,
out of this prover's reach (so is `ENABLED`, which `NoGridlockBelowSize` therefore does without);
and what holds of one request at a time but has no hypothesis worth proving it from: `CreatedOnce`
and `AppliedIsFinal` (`OverruledOnlyThus` says what is left of them under overlap), `StatusHonest`
(likewise `StatusLostOnlyThus`), `DeployedHasTables` and `AppliedIsRecorded`, which a crash between
the DDL and the session's commit makes false.

## 6. Not modelled, and why

The parsing of data types, regular expressions and normalisation rules (a set of values each);
timestamps, source systems, review notes and wording; expiry of sessions and keys, passwords and
the scopes of keys; the directory's protocol, which answers nondeterministically; the documents of
`model_io.py` but for what an import refuses and changes; descriptions, positions and index names of
the registry; rows in the tables a publication alters, which appear as a statement that may be
refused. The read-only endpoints, presentation and start-up change no state a property could be
about. Each component stands alone: that a table is there and has the columns of the definition,
which `Registry` is about, is taken for granted in `Landing` and `Stewardship`.

## 7. Plan

1. A second abstract specification, of the landing tier: a set of accepted writes, each of which is
   staged at most once, implemented by `Landing` while promotions keep apart.
2. The target of an update is resolved at promotion and not again at approval (pipeline.py:330): a
   property of the two together that says what a steward may rely on.
3. Weaken `Apart` of review where one of its two halves is enough: the history needs the golden
   records to be disjoint, the decisions the staging rows.
