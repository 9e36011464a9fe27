------------------------- MODULE Stewardship_proofs -------------------------
(* Theorems about review and apply, for any number of overlapping requests, *)
(* staging rows, golden records, users, fields and values, with crashes.    *)
EXTENDS Stewardship, TLAPS

-----------------------------------------------------------------------------
(* What validation, resolution and overlaying return, for every entity.     *)

(* A payload maps some known or unknown keys to raw values. *)
LEMMA PayloadType ==
  ASSUME NEW p \in Payload
  PROVE  /\ DOMAIN p \subseteq Attr \cup {Stray}
         /\ \A k \in DOMAIN p : p[k] \in Raw
<1>1. PICK K \in SUBSET (Attr \cup {Stray}) : p \in [K -> Raw]
  BY DEF Payload
<1> QED
  BY <1>1

(* Coercion (coerce_value, validate_record) always yields a column value. *)
LEMMA CoercedType ==
  ASSUME NEW p \in Payload, NEW a \in Attr
  PROVE  Coerced(p, a) \in Column
BY PayloadType, EntityAssumption DEF Coerced, Normalised, Raw, Column

(* validate_record returns a column value for each field it checked, and the *)
(* fields it checked are attributes of the entity.                          *)
LEMMA ValidatedType ==
  ASSUME NEW p \in Payload, NEW partial
  PROVE  /\ CheckedFields(p, partial) \subseteq Attr
         /\ ValidateRecord(p, partial).values \in [CheckedFields(p, partial) -> Column]
<1>1. CheckedFields(p, partial) \subseteq Attr
  BY DEF CheckedFields
<1>2. \A a \in CheckedFields(p, partial) : Coerced(p, a) \in Column
  BY <1>1, CoercedType
<1> QED
  BY <1>1, <1>2 DEF ValidateRecord

(* What validate_record accepts breaks no rule: no error means every checked *)
(* field holds an allowed value.                                            *)
LEMMA AcceptedIsAllowed ==
  ASSUME NEW p \in Payload, NEW partial,
         ValidateRecord(p, partial).errors = {}
  PROVE  \A a \in CheckedFields(p, partial) :
           ValidateRecord(p, partial).values[a] \notin OffLimits
<1> DEFINE fields == CheckedFields(p, partial)
<1>1. RecordErrors(p, fields) = {}
  BY DEF ValidateRecord
<1>2. \A a \in fields : Coerced(p, a) \notin OffLimits
  <2> SUFFICES ASSUME NEW a \in fields, Coerced(p, a) \in OffLimits
               PROVE  FALSE
    OBVIOUS
  <2>1. <<a, "constraint">> \in RecordErrors(p, fields)
    BY DEF RecordErrors
  <2> QED
    BY <1>1, <2>1
<1> QED
  BY <1>2 DEF ValidateRecord

(* The staging row of validated values is a record of the entity, and keeps  *)
(* to the rules when what was validated did.                                *)
LEMMA StagedType ==
  ASSUME NEW p \in Payload, NEW partial
  PROVE  /\ StagedValues(ValidateRecord(p, partial).values) \in Record
         /\ ValidateRecord(p, partial).errors = {} =>
              \A a \in Attr :
                StagedValues(ValidateRecord(p, partial).values)[a] \notin OffLimits
<1> DEFINE v == ValidateRecord(p, partial).values
<1>1. /\ CheckedFields(p, partial) \subseteq Attr
      /\ v \in [CheckedFields(p, partial) -> Column]
  BY ValidatedType
<1>2. \A a \in Attr : Default[a] \in Column /\ Default[a] \notin OffLimits
  BY EntityAssumption, DefaultAssumption
<1>3. StagedValues(v) \in Record
  BY <1>1, <1>2 DEF StagedValues, Record
<1>4. ASSUME ValidateRecord(p, partial).errors = {}, NEW a \in Attr
      PROVE  StagedValues(v)[a] \notin OffLimits
  <2>1. \A b \in CheckedFields(p, partial) : v[b] \notin OffLimits
    BY <1>4, AcceptedIsAllowed
  <2> QED
    BY <1>1, <1>2, <2>1 DEF StagedValues
<1> QED
  BY <1>3, <1>4

(* _resolve_target finds a golden record or none. *)
LEMMA ResolvedType ==
  ASSUME NEW golden, NEW values, NEW target \in Golden \cup {None}, NEW operation,
         NEW outcome \in ResolveTarget(golden, values, target, operation)
  PROVE  outcome.target \in Golden \cup {None}
<1>1. ASSUME NEW found \in SUBSET Golden, NEW code,
             NEW o \in KeyLookup(found, operation, code)
      PROVE  o.target \in Golden \cup {None}
  BY <1>1 DEF KeyLookup
<1>2. ByBusinessKey(golden, values) \in SUBSET Golden
  BY DEF ByBusinessKey
<1>3. ByMatchKey(golden, values) \in SUBSET Golden
  BY DEF ByMatchKey
<1> QED
  BY <1>1, <1>2, <1>3 DEF ResolveTarget

(* Writing fields of one record over another gives a record. *)
LEMMA OverlayType ==
  ASSUME NEW values \in Record, NEW onto \in Record, NEW fields
  PROVE  Overlay(values, fields, onto) \in Record
BY DEF Overlay, Record

-----------------------------------------------------------------------------
(* The rows the handlers write, and the requests they leave.                *)

(* The row a promotion inserts has the columns of the staging table. *)
LEMMA PromotedRowType ==
  ASSUME NEW write \in Writes, NEW by \in User,
         NEW outcome, outcome.target \in Golden \cup {None}
  PROVE  PromotedRow(write, by, outcome) \in StagingRow
<1> DEFINE partial == write.op \in {"UPDATE", "DELETE"}
<1>1. /\ write.op \in Operation
      /\ write.payload \in Payload
  BY StewardshipAssumption
<1>2. StagedValues(ValidateRecord(write.payload, partial).values) \in Record
  BY <1>1, StagedType
<1> QED
  BY <1>1, <1>2 DEF PromotedRow, StagingRow, Status

(* What an edit writes fits the columns too, and breaks no rule when the edit *)
(* validated (edit_staging).                                                *)
LEMMA EditedRowType ==
  ASSUME NEW row \in StagingRow, NEW updates \in Payload, DOMAIN updates \subseteq Attr
  PROVE  LET e == EditedRow(row, updates) IN
         /\ e.values \in Record
         /\ e.valid \in BOOLEAN
         /\ e.supplied \in SUBSET Attr
         /\ e.valid => \A a \in Attr : e.values[a] \notin OffLimits
<1> DEFINE merged == [a \in Attr |-> IF a \in DOMAIN updates THEN updates[a]
                                                            ELSE row.values[a]]
           partial == row.op \in {"UPDATE", "DELETE"}
           v == ValidateRecord(merged, partial)
<1>1. merged \in [Attr -> Raw]
  BY PayloadType DEF StagingRow, Record, Raw
<1>2. merged \in Payload
  BY <1>1 DEF Payload
<1>3. CheckedFields(merged, partial) = Attr
  BY DEF CheckedFields
<1> HIDE DEF merged
<1>4. v.values \in Record
  BY <1>2, <1>3, ValidatedType DEF Record
<1>5. v.errors = {} => \A a \in Attr : v.values[a] \notin OffLimits
  BY <1>2, <1>3, AcceptedIsAllowed
<1>6. /\ EditedRow(row, updates).values = v.values
      /\ EditedRow(row, updates).valid = (v.errors = {})
      /\ EditedRow(row, updates).supplied = row.supplied \cup DOMAIN updates
  BY DEF EditedRow, merged
<1>7. row.supplied \in SUBSET Attr
  BY DEF StagingRow
<1> QED
  BY <1>4, <1>5, <1>6, <1>7

(* The blank rows and the idle request have their types. *)
LEMMA BlankTypes ==
  /\ NoRow \in StagingRow
  /\ \A state \in {"unborn", "purged"} : NoRecord(state) \in LiveRow
  /\ NoUpdates \in Payload
  /\ Idle \in Request
<1>1. Blank \in Record
  BY DEF Blank, Record, Column
<1>2. NoRow \in StagingRow
  BY <1>1 DEF NoRow, StagingRow, Status, Operation
<1>3. \A state \in {"unborn", "purged"} : NoRecord(state) \in LiveRow
  BY <1>1 DEF NoRecord, LiveRow
<1>4. NoUpdates \in Payload
  <2>1. NoUpdates \in [{} -> Raw]
    BY DEF NoUpdates
  <2> QED
    BY <2>1 DEF Payload
<1>5. Idle \in Request
  BY <1>2, <1>3, <1>4 DEF Idle, Request
<1> QED
  BY <1>2, <1>3, <1>4, <1>5

(* The request after an item is done. *)
LEMMA ItemDoneType ==
  ASSUME NEW r \in Request, NEW pc \in {"approve", "edit", "reject"},
         NEW events \in SUBSET Event
  PROVE  ItemDone(r, pc, events) \in Request
BY BlankTypes DEF ItemDone, Request

(* The row an approval or a rejection leaves behind. *)
LEMMA ReviewedRow ==
  ASSUME NEW row \in StagingRow, NEW status \in Status, NEW actor \in User
  PROVE  LET new == Reviewed(row, status, actor) IN
         /\ new \in StagingRow
         /\ new.status = status /\ new.reviewed = actor
         /\ new.submitted = row.submitted /\ new.edited = row.edited
         /\ new.target = row.target /\ new.valid = row.valid /\ new.values = row.values
BY DEF StagingRow, Reviewed

(* A saved edit is a staging row: pending again, its submitter, its reviewer *)
(* and its target as they were.                                             *)
LEMMA SavedRow ==
  ASSUME NEW row \in StagingRow, NEW edit, NEW actor \in User,
         edit.values \in Record, edit.valid \in BOOLEAN, edit.supplied \in SUBSET Attr
  PROVE  LET new == Saved(row, edit, actor) IN
         /\ new \in StagingRow
         /\ new.status = "pending_review" /\ new.edited = actor
         /\ new.submitted = row.submitted /\ new.reviewed = row.reviewed
         /\ new.target = row.target
         /\ new.valid = edit.valid /\ new.values = edit.values
BY DEF StagingRow, Saved, Status

(* An update keeps the record's state and makes its next version. *)
LEMMA WrittenRow ==
  ASSUME NEW row \in LiveRow, NEW values \in Record, NEW actor \in User, NEW s \in StagingId
  PROVE  LET new == Written(row, values, actor, s) IN
         /\ new \in LiveRow
         /\ new.state = row.state /\ new.version = row.version + 1
         /\ new.values = values /\ new.approved = actor /\ new.staging = s
<1>1. row.version + 1 \in Nat
  BY DEF LiveRow
<1>2. ASSUME NEW n \in Nat
      PROVE  LET new == [row EXCEPT !.values = values, !.version = n,
                                    !.approved = actor, !.staging = s] IN
             /\ new \in LiveRow
             /\ new.state = row.state /\ new.version = n
             /\ new.values = values /\ new.approved = actor /\ new.staging = s
  BY DEF LiveRow
<1> QED
  BY <1>1, <1>2 DEF Written

(* A soft delete makes the next version of the same values. *)
LEMMA RetiredRow ==
  ASSUME NEW row \in LiveRow, NEW actor \in User
  PROVE  LET new == Retired(row, actor) IN
         /\ new \in LiveRow
         /\ new.state = "deleted" /\ new.version = row.version + 1
         /\ new.values = row.values /\ new.staging = row.staging
<1>1. row.version + 1 \in Nat
  BY DEF LiveRow
<1>2. ASSUME NEW n \in Nat
      PROVE  LET new == [row EXCEPT !.state = "deleted", !.version = n,
                                    !.approved = actor] IN
             /\ new \in LiveRow
             /\ new.state = "deleted" /\ new.version = n
             /\ new.values = row.values /\ new.staging = row.staging
  BY DEF LiveRow
<1> QED
  BY <1>1, <1>2 DEF Retired

(* Working on an item leaves a request well formed. *)
LEMMA PickedType ==
  ASSUME NEW r \in Request, NEW s \in StagingId
  PROVE  [r EXCEPT !.sid = s] \in Request
BY DEF Request

Typed == TypeOK /\ RequestOK

(* Beginning a request. *)
LEMMA BeginTyped ==
  ASSUME Typed, NEW w \in Worker, NEW pc \in {"approve", "reject", "edit"},
         NEW actor \in Steward, NEW todo \in SUBSET StagingId, NEW updates \in Payload,
         Begin(w, pc, actor, todo, updates)
  PROVE  Typed'
<1> DEFINE r == [Idle EXCEPT !.pc = pc, !.actor = actor, !.todo = todo,
                             !.updates = updates]
<1>1. r \in Request /\ r.pc = pc /\ r.actor = actor
  BY BlankTypes, StewardshipAssumption DEF Request
<1> HIDE DEF r
<1>2. req' = [req EXCEPT ![w] = r]
  BY DEF Begin, r
<1>3. TypeOK'
  BY <1>1, <1>2, StewardshipAssumption DEF Begin, Typed, TypeOK
<1>4. RequestOK'
  BY <1>1, <1>2 DEF Begin, Typed, TypeOK, RequestOK
<1> QED
  BY <1>3, <1>4 DEF Typed

(* A step that changes one request, to a well-formed one, and keeps the tables. *)
LEMMA RequestStep ==
  ASSUME Typed, NEW w \in Worker, NEW r \in Request,
         req' = [req EXCEPT ![w] = r],
         r.pc # "idle" => r.actor \in Steward,
         r.pc \in {"golden", "write", "save"} => r.sid \in StagingId,
         r.pc = "write" /\ r.row.op = "DELETE" => r.row.target # None,
         r.pc = "save" => DOMAIN r.updates \subseteq Attr
  PROVE  /\ req' \in [Worker -> Request]
         /\ RequestOK'
BY DEF Typed, TypeOK, RequestOK

(* Going on to the next item. *)
LEMMA ItemDoneTyped ==
  ASSUME Typed, NEW w \in Worker, NEW r \in Request, NEW pc \in {"approve", "edit", "reject"},
         NEW events \in SUBSET Event, r.actor \in Steward,
         req' = [req EXCEPT ![w] = ItemDone(r, pc, events)]
  PROVE  /\ req' \in [Worker -> Request]
         /\ RequestOK'
<1> DEFINE d == ItemDone(r, pc, events)
<1>1. d \in Request
  BY ItemDoneType
<1>2. d.pc = pc /\ d.actor = r.actor
  BY DEF ItemDone, Request
<1> HIDE DEF d
<1>3. req' = [req EXCEPT ![w] = d]
  BY DEF d
<1> QED
  BY <1>1, <1>2, <1>3, RequestStep

(* Giving a request up. *)
LEMMA FailTyped ==
  ASSUME Typed, NEW w \in Worker, req' = [req EXCEPT ![w] = Idle]
  PROVE  /\ req' \in [Worker -> Request]
         /\ RequestOK'
<1>1. Idle \in Request /\ Idle.pc = "idle"
  BY BlankTypes DEF Idle
<1> QED
  BY <1>1, RequestStep

(* Marking the staging row applied. *)
LEMMA MarkAppliedTyped ==
  ASSUME Typed, NEW w \in Worker, req[w].pc = "write", MarkApplied(w)
  PROVE  /\ staging' \in [StagingId -> StagingRow]
         /\ req' \in [Worker -> Request]
         /\ RequestOK'
         /\ audit' \subseteq Event
         /\ calls' \in 0..MaxCalls
<1> DEFINE r == req[w]
           e == [action |-> "approve", actor |-> r.actor, staging |-> r.sid]
           row == Reviewed(staging[r.sid], "applied", r.actor)
<1>1. /\ r \in Request
      /\ r.actor \in Steward
      /\ r.sid \in StagingId
  BY DEF Typed, TypeOK, RequestOK
<1>2. r.actor \in User
  BY <1>1, StewardshipAssumption
<1>3. {e} \in SUBSET Event
  BY <1>1, <1>2 DEF Event
<1>4. req' = [req EXCEPT ![w] = ItemDone(r, "approve", {e})]
  BY DEF MarkApplied
<1>5. /\ req' \in [Worker -> Request]
      /\ RequestOK'
  BY <1>1, <1>3, <1>4, ItemDoneTyped
<1>6. row \in StagingRow
  BY <1>1, <1>2, ReviewedRow DEF Typed, TypeOK, Status
<1>7. staging' = [staging EXCEPT ![r.sid] = row]
  BY DEF MarkApplied
<1> HIDE DEF row
<1>8. staging' \in [StagingId -> StagingRow]
  BY <1>1, <1>6, <1>7 DEF Typed, TypeOK
<1> QED
  BY <1>5, <1>8 DEF MarkApplied, Typed, TypeOK

(* Writing a history row. *)
LEMMA ArchiveTyped ==
  ASSUME NEW current \in LiveRow, NEW g \in Golden, NEW change \in {"update", "delete"},
         history \in Seq(HistoryRow), Archive(current, g, change)
  PROVE  history' \in Seq(HistoryRow)
BY DEF Archive, LiveRow, HistoryRow

(* Every step keeps the types: one lemma step per action. *)
LEMMA TypedStep == Typed /\ [Next]_vars => Typed'
<1> SUFFICES ASSUME Typed, [Next]_vars
             PROVE  Typed'
  OBVIOUS
<1>1. ASSUME NEW write \in Writes, NEW by \in User, Promote(write, by)
      PROVE  Typed'
  BY <1>1, PromotedRowType, ResolvedType, StewardshipAssumption
     DEF Promote, Typed, TypeOK, RequestOK
<1>2. ASSUME NEW w \in Worker, BeginReview(w)
      PROVE  Typed'
  BY <1>2, BeginTyped, BlankTypes DEF BeginReview
<1>3. ASSUME NEW w \in Worker, BeginEdit(w)
      PROVE  Typed'
  <2>1. PICK actor \in Steward, s \in StagingId, updates \in Edits :
          Begin(w, "edit", actor, {s}, updates)
    BY <1>3 DEF BeginEdit
  <2> QED
    BY <2>1, BeginTyped, StewardshipAssumption
<1>4. ASSUME NEW w \in Worker, EndRequest(w)
      PROVE  Typed'
  BY <1>4, FailTyped DEF EndRequest, Typed, TypeOK, Request
<1>5. ASSUME NEW w \in Worker, Fail(w)
      PROVE  Typed'
  BY <1>5, FailTyped DEF Fail, Typed, TypeOK
<1>6. ASSUME NEW w \in Worker, ReadStaging(w)
      PROVE  Typed'
  <2>1. PICK s \in req[w].todo :
          LET picked == [req[w] EXCEPT !.sid = s] IN
          \/ req' = [req EXCEPT ![w] = [picked EXCEPT
               !.row = staging[s],
               !.pc = IF staging[s].op = "DELETE" \/ staging[s].target # None
                      THEN "golden" ELSE "write"]]
          \/ req' = [req EXCEPT ![w] = ItemDone(picked, "approve", {})]
    BY <1>6 DEF ReadStaging
  <2> DEFINE picked == [req[w] EXCEPT !.sid = s]
             pc == IF staging[s].op = "DELETE" \/ staging[s].target # None
                   THEN "golden" ELSE "write"
             next == [picked EXCEPT !.row = staging[s], !.pc = pc]
  <2>2. s \in StagingId
    BY DEF Request, Typed, TypeOK
  <2>3. picked \in Request /\ picked.actor = req[w].actor /\ picked.sid = s
    BY <2>2 DEF Request, Typed, TypeOK
  <2>4. req[w].actor \in Steward
    BY <1>6 DEF ReadStaging, Typed, RequestOK
  <2>5. pc \in {"golden", "write"} /\ (pc = "write" => staging[s].op # "DELETE")
    OBVIOUS
  <2>6. UNCHANGED <<staging, live, history, audit, calls>>
    BY <1>6 DEF ReadStaging
  <2>7. CASE req' = [req EXCEPT ![w] = ItemDone(picked, "approve", {})]
    <3> HIDE DEF picked
    <3>1. {} \in SUBSET Event
      OBVIOUS
    <3>2. req' \in [Worker -> Request] /\ RequestOK'
      BY <2>3, <2>4, <2>7, <3>1, ItemDoneTyped
    <3> QED
      BY <2>6, <3>2 DEF Typed, TypeOK
  <2>8. CASE req' = [req EXCEPT ![w] = next]
    <3> HIDE DEF picked, pc
    <3>1. /\ next \in Request
          /\ next.pc = pc /\ next.row = staging[s]
          /\ next.actor = req[w].actor /\ next.sid = s
      BY <2>2, <2>3, <2>5 DEF Request, Typed, TypeOK
    <3> HIDE DEF next
    <3>2. req' \in [Worker -> Request] /\ RequestOK'
      BY <2>2, <2>4, <2>5, <2>8, <3>1, RequestStep
    <3> QED
      BY <2>6, <3>2 DEF Typed, TypeOK
  <2> QED
    BY <2>1, <2>7, <2>8
<1>7. ASSUME NEW w \in Worker, ReadGolden(w)
      PROVE  Typed'
  <2> DEFINE r == req[w]
             target == r.row.target
             read == [r EXCEPT !.current = live[target], !.pc = "write"]
  <2>1. /\ r \in Request /\ target \in Golden \cup {None}
        /\ r.pc = "golden" /\ r.actor \in Steward /\ r.sid \in StagingId
    BY <1>7 DEF ReadGolden, Request, StagingRow, Typed, TypeOK, RequestOK
  <2>2. UNCHANGED <<staging, live, history, audit, calls>>
    BY <1>7 DEF ReadGolden
  <2>3. CASE target # None /\ req' = [req EXCEPT ![w] = read]
    <3>1. /\ read \in Request
          /\ read.pc = "write" /\ read.row = r.row
          /\ read.actor = r.actor /\ read.sid = r.sid
      BY <2>1, <2>3 DEF Request, Typed, TypeOK
    <3> HIDE DEF read
    <3>2. req' \in [Worker -> Request] /\ RequestOK'
      BY <2>1, <2>3, <3>1, RequestStep
    <3> QED
      BY <2>2, <3>2 DEF Typed, TypeOK
  <2>4. CASE req' = [req EXCEPT ![w] = ItemDone(r, "approve", {})]
    <3>1. {} \in SUBSET Event
      OBVIOUS
    <3>2. req' \in [Worker -> Request] /\ RequestOK'
      BY <2>1, <2>4, <3>1, ItemDoneTyped
    <3> QED
      BY <2>2, <3>2 DEF Typed, TypeOK
  <2>5. CASE req' = [req EXCEPT ![w] = Idle]
    BY <2>2, <2>5, FailTyped DEF Typed, TypeOK
  <2>6. HasRow(live[target]) => req[w] \in Request
    BY <2>1
  <2> QED
    BY <1>7, <2>3, <2>4, <2>5 DEF ReadGolden, Typed, TypeOK
<1>8. ASSUME NEW w \in Worker, ApplyInsert(w)
      PROVE  Typed'
  <2>1. PICK g \in Golden :
          \/ /\ live' = [live EXCEPT ![g] =
                  [state |-> "active", version |-> 1, values |-> req[w].row.values,
                   approved |-> req[w].actor, staging |-> req[w].sid]]
             /\ MarkApplied(w)
             /\ UNCHANGED history
          \/ Fail(w)
    BY <1>8 DEF ApplyInsert
  <2>2. /\ req[w].pc = "write" /\ req[w].row.values \in Record
        /\ req[w].actor \in User /\ req[w].sid \in StagingId
    BY <1>8, StewardshipAssumption
       DEF ApplyInsert, Typed, TypeOK, RequestOK, Request, StagingRow
  <2>3. CASE Fail(w)
    BY <1>5, <2>3
  <2>4. CASE /\ live' = [live EXCEPT ![g] =
                  [state |-> "active", version |-> 1, values |-> req[w].row.values,
                   approved |-> req[w].actor, staging |-> req[w].sid]]
             /\ MarkApplied(w)
             /\ UNCHANGED history
    <3>1. [state |-> "active", version |-> 1, values |-> req[w].row.values,
           approved |-> req[w].actor, staging |-> req[w].sid] \in LiveRow
      BY <2>2 DEF LiveRow
    <3>2. live' \in [Golden -> LiveRow]
      BY <2>4, <3>1 DEF Typed, TypeOK
    <3> QED
      BY <2>2, <2>4, <3>2, MarkAppliedTyped DEF Typed, TypeOK
  <2> QED
    BY <2>1, <2>3, <2>4
<1>9. ASSUME NEW w \in Worker, ApplyUpdate(w)
      PROVE  Typed'
  <2> DEFINE r == req[w]
             g == r.row.target
             fields == WrittenFields(r.row.supplied, r.row.values)
             after == Overlay(r.row.values, fields, live[g].values)
  <2>1. /\ r.pc = "write" /\ g \in Golden /\ r.current \in LiveRow
        /\ r.row.values \in Record /\ r.actor \in User /\ r.sid \in StagingId
    BY <1>9, StewardshipAssumption
       DEF ApplyUpdate, Typed, TypeOK, RequestOK, Request, StagingRow
  <2>2. CASE Fail(w)
    BY <1>5, <2>2
  <2>3. CASE /\ live' \in [Golden -> LiveRow]
             /\ Archive(r.current, g, "update")
             /\ MarkApplied(w)
    BY <2>1, <2>3, ArchiveTyped, MarkAppliedTyped DEF Typed, TypeOK
  <2>4. after \in Record
    BY <2>1, OverlayType DEF Typed, TypeOK, LiveRow
  <2> DEFINE new == Written(live[g], after, r.actor, r.sid)
  <2>5. new \in LiveRow
    <3> HIDE DEF after
    <3> QED
      BY <2>1, <2>4, WrittenRow DEF Typed, TypeOK
  <2>6. \/ Fail(w)
        \/ /\ UNCHANGED live \/ live' = [live EXCEPT ![g] = new]
           /\ Archive(r.current, g, "update")
           /\ MarkApplied(w)
    BY <1>9 DEF ApplyUpdate
  <2> HIDE DEF new
  <2>7. UNCHANGED live \/ live' = [live EXCEPT ![g] = new] => live' \in [Golden -> LiveRow]
    BY <2>5 DEF Typed, TypeOK
  <2> QED
    BY <2>2, <2>3, <2>6, <2>7
<1>10. ASSUME NEW w \in Worker, ApplyDelete(w)
       PROVE  Typed'
  <2> DEFINE r == req[w]
             g == r.row.target
  <2>1. /\ r.pc = "write" /\ g \in Golden /\ r.current \in LiveRow /\ r.actor \in User
    BY <1>10, StewardshipAssumption
       DEF ApplyDelete, Typed, TypeOK, RequestOK, Request, StagingRow
  <2>2. Retired(live[g], r.actor) \in LiveRow
    BY <2>1, RetiredRow DEF Typed, TypeOK
  <2>3. [live EXCEPT ![g] = NoRecord("purged")] \in [Golden -> LiveRow]
    BY BlankTypes DEF Typed, TypeOK
  <2> DEFINE new == Retired(live[g], r.actor)
  <2>6. \/ UNCHANGED live
        \/ live' = [live EXCEPT ![g] = new]
        \/ live' = [live EXCEPT ![g] = NoRecord("purged")]
    BY <1>10 DEF ApplyDelete
  <2>4. live' \in [Golden -> LiveRow]
    <3> HIDE DEF new
    <3> QED
      BY <2>2, <2>3, <2>6 DEF Typed, TypeOK, new
  <2>5. history' \in Seq(HistoryRow)
    BY <1>10, <2>1, ArchiveTyped DEF ApplyDelete, Typed, TypeOK
  <2> QED
    BY <1>10, <2>1, <2>4, <2>5, MarkAppliedTyped DEF ApplyDelete, Typed, TypeOK
<1>11. ASSUME NEW w \in Worker, Reject(w)
       PROVE  Typed'
  <2>1. PICK s \in req[w].todo :
          LET picked == [req[w] EXCEPT !.sid = s] IN
          \/ /\ staging' = [staging EXCEPT ![s] =
                  Reviewed(@, "rejected", req[w].actor)]
             /\ req' = [req EXCEPT ![w] = ItemDone(picked, "reject",
                  {[action |-> "reject", actor |-> req[w].actor, staging |-> s]})]
          \/ /\ UNCHANGED staging
             /\ req' = [req EXCEPT ![w] = ItemDone(picked, "reject", {})]
    BY <1>11 DEF Reject
  <2> DEFINE picked == [req[w] EXCEPT !.sid = s]
             e == [action |-> "reject", actor |-> req[w].actor, staging |-> s]
  <2>2. /\ s \in StagingId /\ req[w].actor \in Steward /\ req[w].actor \in User
        /\ req[w] \in Request
    BY <1>11, StewardshipAssumption DEF Reject, Request, Typed, TypeOK, RequestOK
  <2>3. picked \in Request /\ picked.actor = req[w].actor
    BY <2>2 DEF Request
  <2>4. {e} \in SUBSET Event
    BY <2>2 DEF Event
  <2>5. Reviewed(staging[s], "rejected", req[w].actor) \in StagingRow
    BY <2>2, ReviewedRow DEF Typed, TypeOK, Status
  <2>7. staging' \in [StagingId -> StagingRow]
    BY <2>1, <2>2, <2>5 DEF Typed, TypeOK
  <2>6. req' \in [Worker -> Request] /\ RequestOK'
    <3> HIDE DEF picked, e
    <3>1. \/ req' = [req EXCEPT ![w] = ItemDone(picked, "reject", {e})]
          \/ req' = [req EXCEPT ![w] = ItemDone(picked, "reject", {})]
      BY <2>1 DEF picked, e
    <3> QED
      BY <2>2, <2>3, <2>4, <3>1, ItemDoneTyped
  <2> QED
    BY <1>11, <2>6, <2>7 DEF Reject, Typed, TypeOK
<1>12. ASSUME NEW w \in Worker, ReadForEdit(w)
       PROVE  Typed'
  <2>1. PICK s \in req[w].todo :
          LET picked == [req[w] EXCEPT !.sid = s] IN
          \/ /\ Editable(staging[s], req[w].updates)
             /\ req' = [req EXCEPT ![w] = [picked EXCEPT !.row = staging[s], !.pc = "save"]]
          \/ req' = [req EXCEPT ![w] = ItemDone(picked, "edit", {})]
    BY <1>12 DEF ReadForEdit
  <2> DEFINE picked == [req[w] EXCEPT !.sid = s]
             next == [picked EXCEPT !.row = staging[s], !.pc = "save"]
  <2>2. /\ s \in StagingId /\ req[w].actor \in Steward /\ req[w] \in Request
        /\ UNCHANGED <<staging, live, history, audit, calls>>
    BY <1>12 DEF ReadForEdit, Request, Typed, TypeOK, RequestOK
  <2>3. /\ picked \in Request /\ picked.actor = req[w].actor
        /\ picked.sid = s /\ picked.updates = req[w].updates
    BY <2>2 DEF Request
  <2>4. CASE req' = [req EXCEPT ![w] = ItemDone(picked, "edit", {})]
    <3> HIDE DEF picked
    <3>1. {} \in SUBSET Event
      OBVIOUS
    <3>2. req' \in [Worker -> Request] /\ RequestOK'
      BY <2>2, <2>3, <2>4, <3>1, ItemDoneTyped
    <3> QED
      BY <2>2, <3>2 DEF Typed, TypeOK
  <2>5. CASE Editable(staging[s], req[w].updates) /\ req' = [req EXCEPT ![w] = next]
    <3> HIDE DEF picked
    <3>1. /\ next \in Request
          /\ next.pc = "save" /\ next.actor = req[w].actor /\ next.sid = s
          /\ next.updates = req[w].updates
      BY <2>2, <2>3 DEF Request, Typed, TypeOK
    <3> HIDE DEF next
    <3>2. req' \in [Worker -> Request] /\ RequestOK'
      BY <2>2, <2>5, <3>1, RequestStep DEF Editable
    <3> QED
      BY <2>2, <3>2 DEF Typed, TypeOK
  <2> QED
    BY <2>1, <2>4, <2>5
<1>13. ASSUME NEW w \in Worker, SaveEdit(w)
       PROVE  Typed'
  <2> DEFINE r == req[w]
             e == EditedRow(r.row, r.updates)
             event == [action |-> "edit_staging", actor |-> r.actor, staging |-> r.sid]
  <2>1. /\ r \in Request /\ r.actor \in Steward /\ r.actor \in User /\ r.sid \in StagingId
        /\ r.row \in StagingRow /\ r.updates \in Payload /\ DOMAIN r.updates \subseteq Attr
    BY <1>13, StewardshipAssumption DEF SaveEdit, Request, Typed, TypeOK, RequestOK
  <2>2. e.values \in Record /\ e.valid \in BOOLEAN /\ e.supplied \in SUBSET Attr
    BY <2>1, EditedRowType
  <2>3. {event} \in SUBSET Event
    BY <2>1 DEF Event
  <2> HIDE DEF e, event
  <2>4. /\ staging' = [staging EXCEPT ![r.sid] = Saved(@, e, r.actor)]
        /\ req' = [req EXCEPT ![w] = ItemDone(r, "edit", {event})]
        /\ UNCHANGED <<live, history, audit, calls>>
    BY <1>13 DEF SaveEdit, e, event
  <2>7. Saved(staging[r.sid], e, r.actor) \in StagingRow
    BY <2>1, <2>2, SavedRow DEF Typed, TypeOK
  <2>5. staging' \in [StagingId -> StagingRow]
    BY <2>1, <2>4, <2>7 DEF Typed, TypeOK
  <2>6. req' \in [Worker -> Request] /\ RequestOK'
    BY <2>1, <2>3, <2>4, ItemDoneTyped
  <2> QED
    BY <2>4, <2>5, <2>6 DEF Typed, TypeOK
<1>14. CASE UNCHANGED vars
  BY <1>14 DEF vars, Typed, TypeOK, RequestOK
<1> QED
  BY <1>1, <1>2, <1>3, <1>4, <1>5, <1>6, <1>7, <1>8, <1>9, <1>10, <1>11, <1>12,
     <1>13, <1>14 DEF Next, Crash

(* Type correctness: the tables and the requests keep the shape the code     *)
(* gives them, and a handler knows what its step assumes.                   *)
THEOREM TypeCorrect == Spec => [](TypeOK /\ RequestOK)
<1>1. Init => Typed
  BY BlankTypes, StewardshipAssumption DEF Init, Typed, TypeOK, RequestOK, Idle
<1> QED
  BY <1>1, TypedStep, PTL DEF Spec, Typed
=============================================================================
