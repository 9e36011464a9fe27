----------------------------- MODULE Stewardship -----------------------------
(****************************************************************************)
(* Staging, review, live and history: tiers 2 to 4 of the pipeline, and the *)
(* audit trail.                                                             *)
(*                                                                          *)
(* A Worker is one HTTP request in flight.  Every handler runs its data     *)
(* statements in a READ COMMITTED transaction of its own connection and     *)
(* takes no lock when it reads, so each unlocked SELECT is a step, and what *)
(* it returned is kept in the worker's snapshot.  The writes of one         *)
(* transaction and its commit are one step: they hold row locks until the   *)
(* commit and always in the order live, staging, so delaying the first to   *)
(* the commit changes nothing another request can see.                      *)
(*                                                                          *)
(* Audit events go through the request's ORM session, which commits when    *)
(* the request ends and rolls back when it fails: "log" is what it holds.   *)
(****************************************************************************)
EXTENDS Records, Integers, Sequences

CONSTANTS
  Worker,      \* requests that can be in flight together
  User,        \* usernames
  Steward,     \* the users holding staging:approve, :edit and :reject
  StagingId,   \* bound: staging rows
  Writes,      \* bound: the inbound writes [op, payload, target]
  Edits,       \* bound: the updates a steward may type in
  MaxBulk,     \* bound: rows of one bulk request
  MaxCalls,    \* bound: steward requests in a behaviour
  EnforceSoD,  \* settings.ENFORCE_SEGREGATION_OF_DUTIES
  SoftDelete,  \* the values entity.soft_delete and settings.SOFT_DELETE take: both can change
  MayCrash     \* whether the behaviours include crashes

ASSUME StewardshipAssumption ==
  /\ Steward \subseteq User
  /\ Writes \subseteq [op : Operation, payload : Payload, target : Golden \cup {None}]
  /\ Edits \subseteq Payload
  /\ MaxBulk \in Nat
  /\ MaxCalls \in Nat
  /\ EnforceSoD \in BOOLEAN
  /\ SoftDelete \subseteq BOOLEAN
  /\ MayCrash \in BOOLEAN
  /\ None \notin User
  /\ None \notin StagingId

VARIABLES
  staging,  \* mdm_staging.<entity>
  live,     \* mdm.<entity>
  history,  \* mdm_history.<entity>, in the order of mdm_history_id
  audit,    \* the committed events of mdm_meta.audit_event
  req,      \* the request each worker is serving
  calls     \* steward requests left

vars == <<staging, live, history, audit, req, calls>>

Status == {"absent", "pending_review", "rejected", "applied"}

StagingRow ==
  [status : Status, op : Operation, target : Golden \cup {None},
   values : Record, supplied : SUBSET Attr, valid : BOOLEAN,
   submitted : User \cup {None}, edited : User \cup {None},
   reviewed : User \cup {None}]

LiveRow ==
  [state : {"unborn", "active", "deleted", "purged"}, version : Nat,
   values : Record, approved : User \cup {None}, staging : StagingId \cup {None}]

HistoryRow ==
  [id : Golden, change : {"update", "delete"}, version : Nat, values : Record,
   deleted : BOOLEAN, staging : StagingId \cup {None}]

Event == [action : {"approve", "reject", "edit_staging"}, actor : User, staging : StagingId]

Request ==
  [pc : {"idle", "approve", "golden", "write", "edit", "save", "reject"},
   actor : User \cup {None}, todo : SUBSET StagingId, sid : StagingId \cup {None},
   row : StagingRow, current : LiveRow, updates : Payload, log : SUBSET Event]

Blank == [a \in Attr |-> None]

NoRow == [status |-> "absent", op |-> "INSERT", target |-> None, values |-> Blank,
          supplied |-> {}, valid |-> FALSE, submitted |-> None, edited |-> None,
          reviewed |-> None]

NoRecord(state) == [state |-> state, version |-> 0, values |-> Blank,
                    approved |-> None, staging |-> None]

NoUpdates == [a \in {} |-> None]

Idle == [pc |-> "idle", actor |-> None, todo |-> {}, sid |-> None, row |-> NoRow,
         current |-> NoRecord("unborn"), updates |-> NoUpdates, log |-> {}]

Init ==
  /\ staging = [s \in StagingId |-> NoRow]
  /\ live = [g \in Golden |-> NoRecord("unborn")]
  /\ history = <<>>
  /\ audit = {}
  /\ req = [w \in Worker |-> Idle]
  /\ calls = MaxCalls

----------------------------------------------------------------------------
(* Tier 1 to 2: the body of the promotion loop for one landing row.         *)

\* Variant, to test the properties with: every key counts as a field.
PromotedAnyKey(write, by, outcome) ==
  [NoRow EXCEPT !.status = "pending_review", !.op = write.op, !.target = outcome.target,
                !.supplied = DOMAIN write.payload, !.submitted = by]

PromotedRow(write, by, outcome) ==
  LET checked == ValidateRecord(write.payload, write.op \in {"UPDATE", "DELETE"})
      missing == write.op = "DELETE" /\ outcome.target = None
  IN [status |-> "pending_review", op |-> write.op, target |-> outcome.target,
      values |-> StagedValues(checked.values),
      supplied |-> Attr \cap DOMAIN write.payload,
      valid |-> checked.errors = {} /\ outcome.errors = {} /\ ~missing,
      submitted |-> by, edited |-> None, reviewed |-> None]

Promote(write, by) ==
  LET values == ValidateRecord(write.payload, write.op \in {"UPDATE", "DELETE"}).values IN
  /\ \E s \in StagingId, outcome \in ResolveTarget(live, values, write.target, write.op) :
       /\ staging[s].status = "absent"
       /\ staging' = [staging EXCEPT ![s] = PromotedRow(write, by, outcome)]
  /\ UNCHANGED <<live, history, audit, req, calls>>

----------------------------------------------------------------------------
(* The life of a request.                                                   *)

Begin(w, pc, actor, todo, updates) ==
  /\ req[w].pc = "idle"
  /\ calls > 0
  /\ calls' = calls - 1
  /\ req' = [req EXCEPT ![w] = [Idle EXCEPT !.pc = pc, !.actor = actor,
                                            !.todo = todo, !.updates = updates]]
  /\ UNCHANGED <<staging, live, history, audit>>

\* approve_record and bulk_approve, reject_record and bulk_reject: a single
\* decision is a batch of one.
BeginReview(w) ==
  \E pc \in {"approve", "reject"}, actor \in Steward, todo \in SUBSET StagingId :
    /\ Cardinality(todo) \in 1..MaxBulk
    /\ Begin(w, pc, actor, todo, NoUpdates)

BeginEdit(w) ==
  \E actor \in Steward, s \in StagingId, updates \in Edits :
    Begin(w, "edit", actor, {s}, updates)

\* The item is done, with the events it adds to the session; on to the next.
ItemDone(r, pc, events) ==
  [r EXCEPT !.pc = pc, !.todo = @ \ {r.sid}, !.sid = None, !.row = NoRow,
            !.current = NoRecord("unborn"), !.log = @ \cup events]

\* The batch is finished: get_db commits the session.
EndRequest(w) ==
  /\ req[w].pc \in {"approve", "reject", "edit"}
  /\ req[w].todo = {}
  /\ audit' = audit \cup req[w].log
  /\ req' = [req EXCEPT ![w] = Idle]
  /\ UNCHANGED <<staging, live, history, calls>>

\* An exception no handler catches: the transaction and the session roll back.
Fail(w) ==
  /\ req' = [req EXCEPT ![w] = Idle]
  /\ UNCHANGED <<staging, live, history, audit, calls>>

\* The process dies between two statements; what it had not committed is gone.
Crash(w) == MayCrash /\ req[w].pc # "idle" /\ Fail(w)

----------------------------------------------------------------------------
(* Approval: apply_staging_to_live.                                         *)

Originator(row) == IF row.edited # None THEN row.edited ELSE row.submitted

\* Variants: one of the three checks forgotten.
ApprovableInAnyStatus(row, actor) ==
  row.status # "absent" /\ row.valid /\ (EnforceSoD => Originator(row) # actor)

ApprovableInvalid(row, actor) ==
  row.status = "pending_review" /\ (EnforceSoD => Originator(row) # actor)

ApprovableByAnyone(row, actor) == row.status = "pending_review" /\ row.valid

Approvable(row, actor) ==
  /\ row.status \notin {"absent", "applied", "rejected"}
  /\ row.valid
  /\ EnforceSoD => Originator(row) # actor

\* select * from staging, and the checks on what it returned.  A refused item
\* is reported and the batch goes on.
ReadStaging(w) ==
  /\ req[w].pc = "approve"
  /\ \E s \in req[w].todo :
       LET picked == [req[w] EXCEPT !.sid = s] IN
       \/ /\ Approvable(staging[s], req[w].actor)
          /\ req' = [req EXCEPT ![w] = [picked EXCEPT
               !.row = staging[s],
               !.pc = IF staging[s].op = "DELETE" \/ staging[s].target # None
                      THEN "golden" ELSE "write"]]
       \/ /\ ~Approvable(staging[s], req[w].actor)
          /\ req' = [req EXCEPT ![w] = ItemDone(picked, "approve", {})]
  /\ UNCHANGED <<staging, live, history, audit, calls>>

\* select * from live, at the head of _apply_update and _apply_delete.  A
\* golden record that is gone is reported; a DELETE of no record at all does
\* not cast to a uuid and fails the request.
ReadGolden(w) ==
  LET target == req[w].row.target IN
  /\ req[w].pc = "golden"
  /\ \/ /\ target # None
        /\ HasRow(live[target])
        /\ req' = [req EXCEPT ![w] = [@ EXCEPT !.current = live[target], !.pc = "write"]]
     \/ /\ target # None
        /\ ~HasRow(live[target])
        /\ req' = [req EXCEPT ![w] = ItemDone(req[w], "approve", {})]
     \/ /\ target = None
        /\ req' = [req EXCEPT ![w] = Idle]
  /\ UNCHANGED <<staging, live, history, audit, calls>>

\* Variant: the reviewer is not recorded.
ReviewedByNobody(row, status, actor) == [row EXCEPT !.status = status]

Reviewed(row, status, actor) == [row EXCEPT !.status = status, !.reviewed = actor]

\* update staging set mdm_status = 'applied': by identifier alone.
MarkApplied(w) ==
  LET r == req[w] IN
  /\ staging' = [staging EXCEPT ![r.sid] = Reviewed(@, "applied", r.actor)]
  /\ req' = [req EXCEPT ![w] = ItemDone(r, "approve",
       {[action |-> "approve", actor |-> r.actor, staging |-> r.sid]})]
  /\ UNCHANGED <<audit, calls>>

\* Variant: no history.
ArchiveNothing(current, id, change) == UNCHANGED history

\* _write_history: the record as this request read it, and the staging row
\* that record came from.
Archive(current, id, change) ==
  history' = Append(history,
    [id |-> id, change |-> change, version |-> current.version,
     values |-> current.values, deleted |-> current.state = "deleted",
     staging |-> current.staging])

ApplyInsert(w) ==
  LET r == req[w] IN
  /\ r.pc = "write"
  /\ r.row.op # "DELETE" /\ r.row.target = None
  /\ \E g \in Golden :
       /\ live[g].state = "unborn"
       /\ \/ /\ ~Refused(live, g, TRUE, r.row.values)
             /\ live' = [live EXCEPT ![g] =
                  [state |-> "active", version |-> 1, values |-> r.row.values,
                   approved |-> r.actor, staging |-> r.sid]]
             /\ MarkApplied(w)
             /\ UNCHANGED history
          \/ /\ Refused(live, g, TRUE, r.row.values)
             /\ Fail(w)

Written(rec, values, actor, sid) ==
  [rec EXCEPT !.values = values, !.version = @ + 1, !.approved = actor, !.staging = sid]

\* The UPDATE of the live row runs on the row as it is by then: it may have
\* moved on since this request read it, or be gone, and then it changes nothing.
ApplyUpdate(w) ==
  LET r      == req[w]
      g      == r.row.target
      fields == WrittenFields(r.row.supplied, r.row.values)
      after  == Overlay(r.row.values, fields, live[g].values)
  IN
  /\ r.pc = "write"
  /\ r.row.op # "DELETE" /\ g # None
  /\ \/ /\ fields = {} \/ ~HasRow(live[g])
        /\ UNCHANGED live
        /\ Archive(r.current, g, "update")
        /\ MarkApplied(w)
     \/ /\ fields # {} /\ HasRow(live[g])
        /\ ~Refused(live, g, live[g].state = "active", after)
        /\ live' = [live EXCEPT ![g] = Written(@, after, r.actor, r.sid)]
        /\ Archive(r.current, g, "update")
        /\ MarkApplied(w)
     \/ /\ fields # {} /\ HasRow(live[g])
        /\ Refused(live, g, live[g].state = "active", after)
        /\ Fail(w)

\* The tombstone; mdm_staging_id is left as it was.
Retired(rec, actor) ==
  [rec EXCEPT !.state = "deleted", !.version = @ + 1, !.approved = actor]

ApplyDelete(w) ==
  LET r == req[w]
      g == r.row.target
  IN
  /\ r.pc = "write"
  /\ r.row.op = "DELETE"
  /\ Archive(r.current, g, "delete")
  /\ MarkApplied(w)
  /\ \/ /\ ~HasRow(live[g])
        /\ UNCHANGED live
     \/ /\ HasRow(live[g])
        /\ TRUE \in SoftDelete
        /\ live' = [live EXCEPT ![g] = Retired(@, r.actor)]
     \/ /\ HasRow(live[g])
        /\ FALSE \in SoftDelete
        /\ live' = [live EXCEPT ![g] = NoRecord("purged")]

----------------------------------------------------------------------------
(* Rejection and repair.                                                    *)

\* Variant: an applied row can be rejected.
RejectableInAnyStatus(row) == row.status # "absent"

Rejectable(row) == row.status \notin {"absent", "applied"}

\* reject_staging: one UPDATE, guarded by the status it finds.
Reject(w) ==
  /\ req[w].pc = "reject"
  /\ \E s \in req[w].todo :
       LET picked == [req[w] EXCEPT !.sid = s] IN
       \/ /\ Rejectable(staging[s])
          /\ staging' = [staging EXCEPT ![s] = Reviewed(@, "rejected", req[w].actor)]
          /\ req' = [req EXCEPT ![w] = ItemDone(picked, "reject",
               {[action |-> "reject", actor |-> req[w].actor, staging |-> s]})]
       \/ /\ ~Rejectable(staging[s])
          /\ UNCHANGED staging
          /\ req' = [req EXCEPT ![w] = ItemDone(picked, "reject", {})]
  /\ UNCHANGED <<live, history, audit, calls>>

\* Variant: an applied row can be edited.
EditableInAnyStatus(row, updates) == row.status # "absent" /\ DOMAIN updates \subseteq Attr

Editable(row, updates) ==
  /\ row.status \notin {"absent", "applied"}
  /\ DOMAIN updates \subseteq Attr

\* edit_staging, up to its UPDATE: read the row, refuse an applied one and a
\* field the entity does not have.
ReadForEdit(w) ==
  /\ req[w].pc = "edit"
  /\ \E s \in req[w].todo :
       LET picked == [req[w] EXCEPT !.sid = s] IN
       \/ /\ Editable(staging[s], req[w].updates)
          /\ req' = [req EXCEPT ![w] = [picked EXCEPT !.row = staging[s], !.pc = "save"]]
       \/ /\ ~Editable(staging[s], req[w].updates)
          /\ req' = [req EXCEPT ![w] = ItemDone(picked, "edit", {})]
  /\ UNCHANGED <<staging, live, history, audit, calls>>

\* Variant: the updates alone are validated and stored.
EditedAlone(row, updates) ==
  LET checked == ValidateRecord(updates, TRUE)
  IN [values |-> StagedValues(checked.values), valid |-> checked.errors = {},
      supplied |-> row.supplied \cup DOMAIN updates]

\* The row read, overlaid with the updates and validated as a whole: every
\* attribute is present, so every required one is checked.
EditedRow(row, updates) ==
  LET merged  == [a \in Attr |-> IF a \in DOMAIN updates THEN updates[a]
                                                         ELSE row.values[a]]
      checked == ValidateRecord(merged, row.op \in {"UPDATE", "DELETE"})
  IN [values |-> checked.values, valid |-> checked.errors = {},
      supplied |-> row.supplied \cup DOMAIN updates]

Saved(row, edit, actor) ==
  [row EXCEPT !.values = edit.values, !.valid = edit.valid, !.supplied = edit.supplied,
              !.edited = actor, !.status = "pending_review"]

\* Its UPDATE, by identifier alone: back to pending_review, whatever the
\* status is by now.  The target is not resolved again.
SaveEdit(w) ==
  LET r == req[w]
      e == EditedRow(r.row, r.updates)
  IN
  /\ r.pc = "save"
  /\ staging' = [staging EXCEPT ![r.sid] = Saved(@, e, r.actor)]
  /\ req' = [req EXCEPT ![w] = ItemDone(r, "edit",
       {[action |-> "edit_staging", actor |-> r.actor, staging |-> r.sid]})]
  /\ UNCHANGED <<live, history, audit, calls>>

----------------------------------------------------------------------------
Next ==
  \/ \E write \in Writes, by \in User : Promote(write, by)
  \/ \E w \in Worker :
       \/ BeginReview(w) \/ BeginEdit(w) \/ EndRequest(w) \/ Crash(w)
       \/ ReadStaging(w) \/ ReadGolden(w)
       \/ ApplyInsert(w) \/ ApplyUpdate(w) \/ ApplyDelete(w)
       \/ Reject(w) \/ ReadForEdit(w) \/ SaveEdit(w)

Spec == Init /\ [][Next]_vars

----------------------------------------------------------------------------
(* What the tiers promise.                                                  *)

\* Every table row and every request in flight has the shape the code gives it.
TypeOK ==
  /\ staging \in [StagingId -> StagingRow]
  /\ live \in [Golden -> LiveRow]
  /\ history \in Seq(HistoryRow)
  /\ audit \subseteq Event
  /\ req \in [Worker -> Request]
  /\ calls \in 0..MaxCalls

\* What a handler knows at each of its steps: who is asking, which row it works
\* on, that a deletion has a target and an edit names attributes only.
RequestOK ==
  \A w \in Worker :
    LET r == req[w] IN
    /\ r.pc # "idle" => r.actor \in Steward
    /\ r.pc \in {"golden", "write", "save"} => r.sid \in StagingId
    /\ r.pc = "write" /\ r.row.op = "DELETE" => r.row.target # None
    /\ r.pc = "save" => DOMAIN r.updates \subseteq Attr

\* Only validated data is ever in a golden record: no value a rule forbids,
\* no missing required field, whatever edits, partial updates, defaults and
\* overlapping requests produced it (validate_record, edit_staging and the
\* mdm_is_valid check of apply_staging_to_live).
Clean(values) ==
  \A a \in Attr : values[a] \notin OffLimits /\ (a \in Required => values[a] # None)

GoldenClean == \A g \in Golden : HasRow(live[g]) => Clean(live[g].values)

\* The check of segregation of duties survives every interleaving for a row
\* nobody edited: who approved the present version of a golden record did not
\* submit the staging row it came from.  (A soft delete names its approver
\* but keeps the staging row of the version before.)
FourEyes ==
  EnforceSoD => \A g \in Golden :
    LET origin == staging[live[g].staging] IN
    live[g].state = "active" /\ origin.edited = None => live[g].approved # origin.submitted

\* As long as requests do not overlap, the reviewer of an applied row is never
\* the one who last touched it (originator in apply_staging_to_live).
LastTouchNotReviewer ==
  EnforceSoD => \A s \in StagingId :
    staging[s].status = "applied" => staging[s].reviewed # Originator(staging[s])

\* Nothing changes or removes a golden record without a history row of that
\* record: version n has at least n - 1 of them behind it ("Writes a history
\* row for every change", apply_staging_to_live).
Archived(g) == {i \in DOMAIN history : history[i].id = g}

NoUnrecordedChange ==
  \A g \in Golden :
    /\ HasRow(live[g]) => live[g].version <= Cardinality(Archived(g)) + 1
    /\ live[g].state = "purged" => Archived(g) # {}

\* Every version a golden record has left behind is in its history ("History
\* records every prior version of a golden record").
PriorVersionsKept ==
  \A g \in Golden : HasRow(live[g]) =>
    \A v \in 1..(live[g].version - 1) : \E i \in Archived(g) : history[i].version = v

\* The back-reference of a golden record leads to a staging row a steward
\* decided on, one that was staged for this record or for a new one.
LineageSound ==
  \A g \in Golden : HasRow(live[g]) =>
    /\ live[g].staging # None
    /\ staging[live[g].staging].reviewed # None
    /\ staging[live[g].staging].target \in {None, g}

\* One staging row creates at most one golden record (the status check of
\* apply_staging_to_live; test_cannot_approve_twice).
CreatedOnce ==
  \A g, h \in Golden :
    /\ HasRow(live[g]) /\ live[g].version = 1
    /\ HasRow(live[h]) /\ live[h].version = 1
    /\ live[g].staging = live[h].staging
    => g = h

\* The audit trail never reports an approval that is not in the tables, and
\* reports who gave it.
AuditTruthful ==
  \A e \in audit : e.action = "approve" =>
    staging[e.staging].status = "applied" /\ staging[e.staging].reviewed = e.actor

\* An applied staging row stays applied (edit_staging and reject_staging
\* refuse it: "cannot be reopened").
AppliedIsFinal ==
  [][\A s \in StagingId : staging[s].status = "applied" => staging'[s].status = "applied"]_vars

\* When a golden record changes or goes, the history row written with it is
\* that record as it was (_write_history: the pre-change state).
HistoryExact ==
  [][\A g \in Golden :
       HasRow(live[g]) /\ live'[g] # live[g] =>
         /\ Len(history') = Len(history) + 1
         /\ LET h == history'[Len(history')] IN
            /\ h.id = g
            /\ h.version = live[g].version
            /\ h.values = live[g].values
            /\ h.deleted = (live[g].state = "deleted")]_vars

\* An update leaves alone the fields its staging row does not claim.
Claimed(s) == staging[s].supplied

UnclaimedFieldsKept ==
  [][\A g \in Golden :
       /\ HasRow(live[g]) /\ HasRow(live'[g])
       /\ live'[g].staging # live[g].staging
       /\ Claimed(live'[g].staging) # {}
       => \A a \in Attr \ Claimed(live'[g].staging) :
            live'[g].values[a] = live[g].values[a]]_vars

\* A decision on s is overruled: taken back, replaced, or carried out again on
\* another golden record.
Overruled(s) ==
  \/ staging[s].status = "applied" /\ staging'[s].status # "applied"
  \/ staging[s].status = "rejected" /\ staging'[s].status = "applied"
  \/ /\ staging[s].status = "applied"
     /\ \E g \in Golden : live[g].staging # s /\ live'[g].staging = s

\* Nothing but a lost race overrules a decision: whoever does it read the row
\* before the decision was made (the handlers check the status they read and
\* then write by identifier alone; reject_staging checks in its UPDATE).
OverruledOnlyByOverlap ==
  [][\A s \in StagingId : Overruled(s) =>
       \E w \in Worker :
         /\ req[w].pc \in {"write", "save"} /\ req[w].sid = s
         /\ req[w].row.status # staging[s].status]_vars

\* An edit changes only the fields it names, but for bringing the others to
\* their normal form (edit_staging validates and writes the whole row), and it
\* loses what another edit saved only if it read the row before that.
EditOnlyNamed ==
  [][\A s \in StagingId, a \in Attr :
       LET before == staging[s].values
       IN  /\ staging[s].status # "absent"
           /\ staging'[s].values[a] \notin {before[a], Coerced(before, a)}
           => \E w \in Worker :
                /\ req[w].pc = "save" /\ req[w].sid = s
                /\ a \in DOMAIN req[w].updates \/ req[w].row.values # before]_vars
=============================================================================
