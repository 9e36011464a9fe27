---------------------- MODULE StewardshipSafety_proofs ----------------------
(* Clean golden records, four eyes and lineage, for any number of           *)
(* overlapping requests.  The three share one inductive invariant: what is  *)
(* in a staging row, what a handler still knows of the row it read, and     *)
(* where a golden record comes from.                                        *)
EXTENDS Stewardship_proofs

Allowed(values) == \A a \in Attr : values[a] \notin OffLimits

\* A row marked valid breaks no rule.
RowClean(row) == row.valid => Allowed(row.values)

\* What a handler that is applying a row knows, whatever became of it since.
Applying(w) ==
  LET r   == req[w]
      now == staging[r.sid]
  IN
  /\ r.row.valid /\ RowClean(r.row)
  /\ r.row.status \notin {"applied", "rejected"}
  /\ now.status # "absent"
  /\ r.row.submitted = now.submitted
  /\ r.row.target = now.target
  /\ now.edited = None => r.row.edited = None
  /\ EnforceSoD => Originator(r.row) # r.actor

\* What one that is saving an edit knows.
Editing(w) == staging[req[w].sid].status # "absent" /\ req[w].row.status # "applied"

\* Where a golden record comes from.
Rooted(g) ==
  LET origin == staging[live[g].staging] IN
  /\ live[g].staging # None
  /\ origin.status # "absent"
  /\ origin.reviewed # None
  /\ origin.target \in {None, g}
  /\ EnforceSoD /\ live[g].state = "active" /\ origin.edited = None
       => live[g].approved # origin.submitted

SafeRows == \A s \in StagingId : RowClean(staging[s])

SafeRequests ==
  \A w \in Worker :
    /\ req[w].pc \in {"golden", "write"} => Applying(w)
    /\ req[w].pc = "save" => Editing(w)

SafeLive == \A g \in Golden : HasRow(live[g]) => Clean(live[g].values) /\ Rooted(g)

Safe == SafeRows /\ SafeRequests /\ SafeLive

\* The marks a staging row keeps from one step to the next.
Kept(old, new) ==
  old.status # "absent" =>
    /\ new.status # "absent"
    /\ new.submitted = old.submitted
    /\ new.target = old.target
    /\ new.edited = None => old.edited = None
    /\ old.reviewed # None => new.reviewed # None

StagingKept == \A s \in StagingId : Kept(staging[s], staging'[s])

-----------------------------------------------------------------------------
(* A promoted row that is valid holds allowed values only, those the staging *)
(* table fills in included (DefaultAssumption).                              *)
LEMMA PromotedRowClean ==
  ASSUME NEW write \in Writes, NEW by \in User, NEW outcome
  PROVE  RowClean(PromotedRow(write, by, outcome))
<1> DEFINE partial == write.op \in {"UPDATE", "DELETE"}
           v == ValidateRecord(write.payload, partial)
<1>1. write.payload \in Payload
  BY StewardshipAssumption
<1>2. v.errors = {} => \A a \in Attr : StagedValues(v.values)[a] \notin OffLimits
  BY <1>1, StagedType, DefaultAssumption
<1>3. /\ PromotedRow(write, by, outcome).values = StagedValues(v.values)
      /\ PromotedRow(write, by, outcome).valid => v.errors = {}
  BY DEF PromotedRow
<1> QED
  BY <1>2, <1>3 DEF RowClean, Allowed

(* Requests whose row or identifier nobody needs any more hold nothing. *)
LEMMA IdleRequest ==
  /\ Idle.pc = "idle"
  /\ \A r, pc, events : r \in Request => ItemDone(r, pc, events).pc = pc
BY DEF Idle, ItemDone, Request

(* The staging rows keep their marks and stay clean, and a request that     *)
(* works on a row keeps knowing it, when the rows do and its own state does *)
(* not change.                                                              *)
LEMMA OthersKnow ==
  ASSUME Typed, Typed', Safe, StagingKept, NEW w \in Worker, req'[w] = req[w]
  PROVE  /\ req'[w].pc \in {"golden", "write"} => Applying(w)'
         /\ req'[w].pc = "save" => Editing(w)'
<1>1. req[w].pc \in {"golden", "write", "save"} => req[w].sid \in StagingId
  BY DEF Typed, RequestOK
<1> QED
  BY <1>1 DEF Safe, SafeRequests, Applying, Editing, StagingKept, Kept

(* A golden record that does not change keeps its origin. *)
LEMMA OriginKept ==
  ASSUME Typed, Safe, StagingKept, NEW g \in Golden, live'[g] = live[g]
  PROVE  HasRow(live'[g]) => Clean(live'[g].values) /\ Rooted(g)'
<1>1. HasRow(live[g]) => live[g].staging \in StagingId
  BY DEF Typed, TypeOK, LiveRow, Safe, SafeLive, Rooted
<1> QED
  BY <1>1 DEF Safe, SafeLive, Rooted, StagingKept, Kept

-----------------------------------------------------------------------------
(* Replacing one staging row by a clean one that keeps its marks.           *)
LEMMA OneRow ==
  ASSUME Typed, Safe, NEW s \in StagingId, NEW new, RowClean(new),
         Kept(staging[s], new), staging' = [staging EXCEPT ![s] = new]
  PROVE  StagingKept /\ SafeRows'
<1>1. \A t \in StagingId : staging'[t] = IF t = s THEN new ELSE staging[t]
  BY DEF Typed, TypeOK
<1>2. \A t \in StagingId : Kept(staging[t], staging[t])
  BY DEF Kept
<1> QED
  BY <1>1, <1>2 DEF StagingKept, Safe, SafeRows

(* Replacing one request by one that knows what its step needs.             *)
LEMMA OneRequest ==
  ASSUME Typed, Typed', Safe, StagingKept, NEW w \in Worker, NEW r,
         req' = [req EXCEPT ![w] = r],
         r.pc \in {"golden", "write"} => Applying(w)',
         r.pc = "save" => Editing(w)'
  PROVE  SafeRequests'
<1>1. req'[w] = r /\ \A v \in Worker \ {w} : req'[v] = req[v]
  BY DEF Typed, TypeOK
<1>2. \A v \in Worker \ {w} :
        /\ req'[v].pc \in {"golden", "write"} => Applying(v)'
        /\ req'[v].pc = "save" => Editing(v)'
  BY <1>1, OthersKnow
<1> QED
  BY <1>1, <1>2 DEF SafeRequests

(* Replacing one golden record by a clean one with a sound origin.          *)
LEMMA OneRecord ==
  ASSUME Typed, Safe, StagingKept, NEW g \in Golden, NEW rec,
         live' = [live EXCEPT ![g] = rec],
         HasRow(rec) => Clean(rec.values) /\ Rooted(g)'
  PROVE  SafeLive'
<1>1. live'[g] = rec /\ \A h \in Golden \ {g} : live'[h] = live[h]
  BY DEF Typed, TypeOK
<1>2. \A h \in Golden \ {g} : HasRow(live'[h]) => Clean(live'[h].values) /\ Rooted(h)'
  BY <1>1, OriginKept
<1> QED
  BY <1>1, <1>2 DEF SafeLive

(* The staging row of an approval, at its commit: reviewed, and not by its   *)
(* submitter unless somebody edited it.                                     *)
LEMMA MarkedRow ==
  ASSUME Typed, Safe, NEW w \in Worker, req[w].pc = "write", MarkApplied(w)
  PROVE  LET now == staging'[req[w].sid] IN
         /\ StagingKept /\ SafeRows'
         /\ req[w].sid \in StagingId /\ req[w].sid # None
         /\ req[w].actor \in User
         /\ now.status # "absent"
         /\ now.reviewed # None
         /\ now.target = req[w].row.target
         /\ EnforceSoD /\ now.edited = None => now.submitted # req[w].actor
<1> DEFINE r == req[w]
           new == Reviewed(staging[r.sid], "applied", r.actor)
<1>1. /\ r.sid \in StagingId /\ r.sid # None
      /\ r.actor \in User /\ r.actor # None
      /\ staging[r.sid] \in StagingRow
  BY StewardshipAssumption DEF Typed, TypeOK, RequestOK
<1>9. "applied" \in Status
  BY DEF Status
<1>2. /\ new.status = "applied" /\ new.reviewed = r.actor
      /\ new.submitted = staging[r.sid].submitted /\ new.edited = staging[r.sid].edited
      /\ new.target = staging[r.sid].target
      /\ new.valid = staging[r.sid].valid /\ new.values = staging[r.sid].values
  BY <1>1, <1>9, ReviewedRow
<1>3. staging' = [staging EXCEPT ![r.sid] = new]
  BY DEF MarkApplied
<1>4. Applying(w)
  BY DEF Safe, SafeRequests
<1> HIDE DEF new
<1>5. staging'[r.sid] = new
  BY <1>1, <1>3 DEF Typed, TypeOK
<1>6. RowClean(new) /\ Kept(staging[r.sid], new)
  BY <1>1, <1>2 DEF Safe, SafeRows, RowClean, Kept
<1>7. StagingKept /\ SafeRows'
  BY <1>1, <1>3, <1>6, OneRow
<1>8. EnforceSoD /\ new.edited = None => new.submitted # r.actor
  BY <1>2, <1>4 DEF Applying, Originator
<1> QED
  BY <1>1, <1>2, <1>4, <1>5, <1>7, <1>8 DEF Applying

(* Every step keeps the marks of the staging rows, and keeps them clean.    *)
LEMMA StagingStep ==
  ASSUME Typed, Safe, [Next]_vars
  PROVE  StagingKept /\ SafeRows'
<1>1. CASE UNCHANGED staging
  BY <1>1 DEF StagingKept, Kept, Safe, SafeRows
<1>2. ASSUME NEW write \in Writes, NEW by \in User, Promote(write, by)
      PROVE  StagingKept /\ SafeRows'
  <2>0. PICK s \in StagingId : \E outcome :
          /\ staging[s].status = "absent"
          /\ staging' = [staging EXCEPT ![s] = PromotedRow(write, by, outcome)]
    BY <1>2 DEF Promote
  <2>1. PICK outcome :
          /\ staging[s].status = "absent"
          /\ staging' = [staging EXCEPT ![s] = PromotedRow(write, by, outcome)]
    BY <2>0
  <2>2. Kept(staging[s], PromotedRow(write, by, outcome))
    BY <2>1 DEF Kept
  <2> QED
    BY <2>1, <2>2, PromotedRowClean, OneRow
<1>3. ASSUME NEW w \in Worker, ApplyInsert(w) \/ ApplyUpdate(w) \/ ApplyDelete(w)
      PROVE  StagingKept /\ SafeRows'
  <2>1. req[w].pc = "write" /\ (MarkApplied(w) \/ UNCHANGED staging)
    BY <1>3 DEF ApplyInsert, ApplyUpdate, ApplyDelete, Fail
  <2> QED
    BY <1>1, <2>1, MarkedRow
<1>4. ASSUME NEW w \in Worker, Reject(w)
      PROVE  StagingKept /\ SafeRows'
  <2>1. PICK s \in req[w].todo :
          \/ staging' = [staging EXCEPT ![s] = Reviewed(@, "rejected", req[w].actor)]
          \/ UNCHANGED staging
    BY <1>4 DEF Reject
  <2> DEFINE new == Reviewed(staging[s], "rejected", req[w].actor)
  <2>2. /\ s \in StagingId /\ staging[s] \in StagingRow
        /\ req[w].actor \in User /\ req[w].actor # None
    BY <1>4, StewardshipAssumption DEF Reject, Typed, TypeOK, RequestOK, Request
  <2>6. "rejected" \in Status
    BY DEF Status
  <2>3. /\ new.status = "rejected" /\ new.reviewed = req[w].actor
        /\ new.submitted = staging[s].submitted /\ new.edited = staging[s].edited
        /\ new.target = staging[s].target
        /\ new.valid = staging[s].valid /\ new.values = staging[s].values
    BY <2>2, <2>6, ReviewedRow
  <2> HIDE DEF new
  <2>4. RowClean(new) /\ Kept(staging[s], new)
    BY <2>2, <2>3 DEF Safe, SafeRows, RowClean, Kept
  <2>5. staging' = [staging EXCEPT ![s] = new] \/ UNCHANGED staging
    BY <2>1 DEF new
  <2> QED
    BY <1>1, <2>2, <2>4, <2>5, OneRow
<1>5. ASSUME NEW w \in Worker, SaveEdit(w)
      PROVE  StagingKept /\ SafeRows'
  <2> DEFINE r == req[w]
             e == EditedRow(r.row, r.updates)
             new == Saved(staging[r.sid], e, r.actor)
  <2>1. /\ r.sid \in StagingId /\ staging[r.sid] \in StagingRow
        /\ r.actor \in User /\ r.actor # None
        /\ r.row \in StagingRow /\ r.updates \in Payload /\ DOMAIN r.updates \subseteq Attr
    BY <1>5, StewardshipAssumption DEF SaveEdit, Typed, TypeOK, RequestOK, Request
  <2>2. /\ e.values \in Record /\ e.valid \in BOOLEAN /\ e.supplied \in SUBSET Attr
        /\ e.valid => Allowed(e.values)
    BY <2>1, EditedRowType DEF Allowed
  <2> HIDE DEF e
  <2>3. /\ new.status = "pending_review" /\ new.edited = r.actor
        /\ new.submitted = staging[r.sid].submitted
        /\ new.reviewed = staging[r.sid].reviewed
        /\ new.target = staging[r.sid].target
        /\ new.valid = e.valid /\ new.values = e.values
    BY <2>1, <2>2, SavedRow
  <2>4. staging' = [staging EXCEPT ![r.sid] = new]
    BY <1>5 DEF SaveEdit, e
  <2> HIDE DEF new
  <2>5. RowClean(new) /\ Kept(staging[r.sid], new)
    BY <2>1, <2>2, <2>3 DEF RowClean, Kept
  <2> QED
    BY <2>1, <2>4, <2>5, OneRow
<1> QED
  BY <1>1, <1>2, <1>3, <1>4, <1>5
     DEF Next, vars, BeginReview, BeginEdit, Begin, EndRequest, Crash, Fail, ReadStaging,
         ReadGolden, ReadForEdit

(* Every step leaves each handler with what it needs to know.               *)
LEMMA RequestsStep ==
  ASSUME Typed, Typed', Safe, StagingKept, [Next]_vars
  PROVE  SafeRequests'
<1>1. CASE UNCHANGED req
  BY <1>1, OthersKnow DEF SafeRequests
<1>2. ASSUME NEW w \in Worker, NEW r, req' = [req EXCEPT ![w] = r],
             r.pc \notin {"golden", "write", "save"}
      PROVE  SafeRequests'
  BY <1>2, OneRequest
<1>3. ASSUME NEW w \in Worker, NEW r \in Request, NEW pc \in {"approve", "edit", "reject"},
             NEW events, req' = [req EXCEPT ![w] = ItemDone(r, pc, events)]
      PROVE  SafeRequests'
  BY <1>2, <1>3, IdleRequest
<1>4. ASSUME NEW w \in Worker, req' = [req EXCEPT ![w] = Idle]
      PROVE  SafeRequests'
  BY <1>2, <1>4, IdleRequest
<1>5. ASSUME NEW w \in Worker, NEW pc \in {"approve", "reject", "edit"}, NEW actor,
             NEW todo, NEW updates, Begin(w, pc, actor, todo, updates)
      PROVE  SafeRequests'
  <2> DEFINE r == [Idle EXCEPT !.pc = pc, !.actor = actor, !.todo = todo,
                               !.updates = updates]
  <2>1. r.pc = pc
    BY DEF Idle
  <2>2. req' = [req EXCEPT ![w] = r]
    BY <1>5 DEF Begin
  <2> HIDE DEF r
  <2> QED
    BY <1>2, <1>5, <2>1, <2>2
<1>6. ASSUME NEW w \in Worker, ApplyInsert(w) \/ ApplyUpdate(w) \/ ApplyDelete(w)
      PROVE  SafeRequests'
  <2>1. MarkApplied(w) \/ Fail(w)
    BY <1>6 DEF ApplyInsert, ApplyUpdate, ApplyDelete
  <2>2. req[w] \in Request
    BY DEF Typed, TypeOK
  <2> QED
    BY <1>3, <1>4, <2>1, <2>2 DEF MarkApplied, Fail
<1>7. ASSUME NEW w \in Worker, Reject(w)
      PROVE  SafeRequests'
  <2>1. PICK s \in req[w].todo :
          LET picked == [req[w] EXCEPT !.sid = s] IN
          \E events : req' = [req EXCEPT ![w] = ItemDone(picked, "reject", events)]
    BY <1>7 DEF Reject
  <2>2. [req[w] EXCEPT !.sid = s] \in Request
    BY PickedType DEF Typed, TypeOK, Request
  <2> QED
    BY <1>3, <2>1, <2>2
<1>8. ASSUME NEW w \in Worker, SaveEdit(w)
      PROVE  SafeRequests'
  <2>1. req[w] \in Request
    BY DEF Typed, TypeOK
  <2> QED
    BY <1>3, <1>8, <2>1 DEF SaveEdit
<1>9. ASSUME NEW w \in Worker, ReadStaging(w)
      PROVE  SafeRequests'
  <2>1. PICK s \in req[w].todo :
          LET picked == [req[w] EXCEPT !.sid = s]
              pc == IF staging[s].op = "DELETE" \/ staging[s].target # None
                    THEN "golden" ELSE "write"
          IN
          \/ /\ Approvable(staging[s], req[w].actor)
             /\ req' = [req EXCEPT ![w] = [picked EXCEPT !.row = staging[s], !.pc = pc]]
          \/ req' = [req EXCEPT ![w] = ItemDone(picked, "approve", {})]
    BY <1>9 DEF ReadStaging
  <2> DEFINE picked == [req[w] EXCEPT !.sid = s]
             pc == IF staging[s].op = "DELETE" \/ staging[s].target # None
                   THEN "golden" ELSE "write"
             next == [picked EXCEPT !.row = staging[s], !.pc = pc]
  <2>2. picked \in Request /\ picked.actor = req[w].actor /\ picked.sid = s
    BY DEF Typed, TypeOK, Request
  <2>3. pc \in {"golden", "write"}
    OBVIOUS
  <2>4. s \in StagingId /\ UNCHANGED staging
    BY <1>9 DEF ReadStaging, Typed, TypeOK, Request
  <2>5. CASE Approvable(staging[s], req[w].actor) /\ req' = [req EXCEPT ![w] = next]
    <3> HIDE DEF picked, pc
    <3>1. /\ next.pc = pc /\ next.row = staging[s]
          /\ next.actor = req[w].actor /\ next.sid = s
      BY <2>2 DEF Request
    <3> HIDE DEF next
    <3>2. req'[w] = next
      BY <2>5 DEF Typed, TypeOK
    <3>3. Applying(w)'
      BY <2>4, <2>5, <3>1, <3>2 DEF Approvable, Applying, Safe, SafeRows
    <3> QED
      BY <2>3, <2>5, <3>1, <3>3, OneRequest
  <2>6. CASE req' = [req EXCEPT ![w] = ItemDone(picked, "approve", {})]
    <3> HIDE DEF picked
    <3> QED
      BY <1>3, <2>2, <2>6
  <2> QED
    BY <2>1, <2>5, <2>6
<1>10. ASSUME NEW w \in Worker, ReadGolden(w)
       PROVE  SafeRequests'
  <2> DEFINE r == req[w]
             read == [r EXCEPT !.current = live[r.row.target], !.pc = "write"]
  <2>1. r \in Request /\ r.pc = "golden" /\ UNCHANGED staging
    BY <1>10 DEF ReadGolden, Typed, TypeOK
  <2>2. \/ req' = [req EXCEPT ![w] = read]
        \/ req' = [req EXCEPT ![w] = ItemDone(r, "approve", {})]
        \/ req' = [req EXCEPT ![w] = Idle]
    BY <1>10 DEF ReadGolden
  <2>3. CASE req' = [req EXCEPT ![w] = read]
    <3>1. /\ read.pc = "write" /\ read.row = r.row
          /\ read.actor = r.actor /\ read.sid = r.sid
      BY <2>1 DEF Request
    <3> HIDE DEF read
    <3>2. req'[w] = read
      BY <2>3 DEF Typed, TypeOK
    <3>3. Applying(w)'
      BY <2>1, <3>1, <3>2 DEF Applying, Safe, SafeRequests
    <3> QED
      BY <2>3, <3>1, <3>3, OneRequest
  <2> QED
    BY <1>3, <1>4, <2>1, <2>2, <2>3
<1>11. ASSUME NEW w \in Worker, ReadForEdit(w)
       PROVE  SafeRequests'
  <2>1. PICK s \in req[w].todo :
          LET picked == [req[w] EXCEPT !.sid = s] IN
          \/ /\ Editable(staging[s], req[w].updates)
             /\ req' = [req EXCEPT ![w] = [picked EXCEPT !.row = staging[s], !.pc = "save"]]
          \/ req' = [req EXCEPT ![w] = ItemDone(picked, "edit", {})]
    BY <1>11 DEF ReadForEdit
  <2> DEFINE picked == [req[w] EXCEPT !.sid = s]
             next == [picked EXCEPT !.row = staging[s], !.pc = "save"]
  <2>2. picked \in Request /\ picked.sid = s /\ UNCHANGED staging
    BY <1>11 DEF ReadForEdit, Typed, TypeOK, Request
  <2>3. CASE Editable(staging[s], req[w].updates) /\ req' = [req EXCEPT ![w] = next]
    <3> HIDE DEF picked
    <3>1. next.pc = "save" /\ next.sid = s /\ next.row = staging[s]
      BY <2>2 DEF Request
    <3> HIDE DEF next
    <3>2. req'[w] = next
      BY <2>3 DEF Typed, TypeOK
    <3>3. Editing(w)'
      BY <2>2, <2>3, <3>1, <3>2 DEF Editable, Editing
    <3> QED
      BY <2>3, <3>1, <3>3, OneRequest
  <2>4. CASE req' = [req EXCEPT ![w] = ItemDone(picked, "edit", {})]
    <3> HIDE DEF picked
    <3> QED
      BY <1>3, <2>2, <2>4
  <2> QED
    BY <2>1, <2>3, <2>4
<1>12. ASSUME NEW w \in Worker, BeginReview(w) \/ BeginEdit(w)
       PROVE  SafeRequests'
  BY <1>5, <1>12 DEF BeginReview, BeginEdit
<1>13. ASSUME NEW w \in Worker, EndRequest(w) \/ Crash(w)
       PROVE  SafeRequests'
  BY <1>4, <1>13 DEF EndRequest, Crash, Fail
<1>14. ASSUME NEW write \in Writes, NEW by \in User, Promote(write, by)
       PROVE  UNCHANGED req
  BY <1>14 DEF Promote
<1>15. UNCHANGED vars => UNCHANGED req
  BY DEF vars
<1> QED
  BY <1>1, <1>6, <1>7, <1>8, <1>9, <1>10, <1>11, <1>12, <1>13, <1>14, <1>15 DEF Next

(* Every step leaves every golden record clean and rooted.                  *)
LEMMA LiveStep ==
  ASSUME Typed, Typed', Safe, StagingKept, [Next]_vars
  PROVE  SafeLive'
<1>1. CASE UNCHANGED live
  BY <1>1, OriginKept DEF SafeLive
<1>2. ASSUME NEW w \in Worker, req[w].pc = "write"
      PROVE  /\ req[w] \in Request /\ req[w].row \in StagingRow
             /\ req[w].row.values \in Record /\ Allowed(req[w].row.values)
  BY <1>2 DEF Typed, TypeOK, Request, StagingRow, Safe, SafeRequests, Applying, RowClean
<1>3. ASSUME NEW w \in Worker, ApplyInsert(w)
      PROVE  SafeLive'
  <2> DEFINE r == req[w]
             rec == [state |-> "active", version |-> 1, values |-> r.row.values,
                     approved |-> r.actor, staging |-> r.sid]
  <2>1. PICK g \in Golden :
          \/ /\ ~Refused(live, g, TRUE, r.row.values)
             /\ live' = [live EXCEPT ![g] = rec]
             /\ MarkApplied(w)
          \/ UNCHANGED live
    BY <1>3 DEF ApplyInsert, Fail
  <2>2. r.pc = "write" /\ r.row.target = None
    BY <1>3 DEF ApplyInsert
  <2>3. CASE /\ ~Refused(live, g, TRUE, r.row.values)
             /\ live' = [live EXCEPT ![g] = rec]
             /\ MarkApplied(w)
    <3>1. Clean(rec.values)
      BY <1>2, <2>2, <2>3 DEF Refused, Clean, Allowed
    <3>2. live'[g] = rec
      BY <2>3 DEF Typed, TypeOK
    <3>3. Rooted(g)'
      BY <2>2, <2>3, <3>2, MarkedRow DEF Rooted
    <3> QED
      BY <2>3, <3>1, <3>3, OneRecord
  <2> QED
    BY <1>1, <2>1, <2>3
<1>4. ASSUME NEW w \in Worker, ApplyUpdate(w)
      PROVE  SafeLive'
  <2>4. PICK g \in Golden : g = req[w].row.target
    BY <1>2, <1>4 DEF ApplyUpdate, StagingRow
  <2> DEFINE r == req[w]
             fields == WrittenFields(r.row.supplied, r.row.values)
             after == Overlay(r.row.values, fields, live[g].values)
             rec == Written(live[g], after, r.actor, r.sid)
  <2>1. /\ r.pc = "write" /\ live[g] \in LiveRow /\ live[g].values \in Record
    BY <1>4 DEF ApplyUpdate, Typed, TypeOK, LiveRow
  <2>2. \/ UNCHANGED live
        \/ /\ HasRow(live[g])
           /\ ~Refused(live, g, live[g].state = "active", after)
           /\ live' = [live EXCEPT ![g] = rec]
           /\ MarkApplied(w)
    BY <1>4, <2>4 DEF ApplyUpdate, Fail
  <2>3. CASE /\ HasRow(live[g])
             /\ ~Refused(live, g, live[g].state = "active", after)
             /\ live' = [live EXCEPT ![g] = rec]
             /\ MarkApplied(w)
    <3>1. after \in Record
      BY <1>2, <2>1, OverlayType
    <3>2. Allowed(after)
      BY <1>2, <2>1, <2>3 DEF Overlay, Allowed, Safe, SafeLive, Clean
    <3>3. Clean(after)
      BY <2>3, <3>2 DEF Refused, Clean, Allowed
    <3>4. r.actor \in User /\ r.sid \in StagingId
      BY <2>1, <2>3, MarkedRow
    <3> HIDE DEF after
    <3>5. /\ rec.state = live[g].state /\ rec.values = after
          /\ rec.approved = r.actor /\ rec.staging = r.sid
      BY <2>1, <3>1, <3>4, WrittenRow
    <3> HIDE DEF rec
    <3>6. live'[g] = rec
      BY <2>1, <2>3 DEF Typed, TypeOK
    <3>7. Rooted(g)'
      BY <2>1, <2>3, <2>4, <3>5, <3>6, MarkedRow DEF Rooted
    <3> QED
      BY <2>1, <2>3, <3>3, <3>5, <3>7, OneRecord
  <2> QED
    BY <1>1, <2>2, <2>3
<1>5. ASSUME NEW w \in Worker, ApplyDelete(w)
      PROVE  SafeLive'
  <2>5. PICK g \in Golden : g = req[w].row.target
    BY <1>2, <1>5 DEF ApplyDelete, StagingRow, Typed, RequestOK
  <2> DEFINE r == req[w]
             rec == Retired(live[g], r.actor)
  <2>1. /\ r.pc = "write" /\ live[g] \in LiveRow /\ r.actor \in User
    BY <1>2, <1>5, StewardshipAssumption
       DEF ApplyDelete, Typed, TypeOK, RequestOK, StagingRow
  <2>2. \/ UNCHANGED live
        \/ HasRow(live[g]) /\ live' = [live EXCEPT ![g] = rec]
        \/ live' = [live EXCEPT ![g] = NoRecord("purged")]
    BY <1>5, <2>5 DEF ApplyDelete
  <2>3. CASE HasRow(live[g]) /\ live' = [live EXCEPT ![g] = rec]
    <3>1. /\ rec.state = "deleted" /\ rec.values = live[g].values
          /\ rec.staging = live[g].staging
      BY <2>1, RetiredRow
    <3> HIDE DEF rec
    <3>2. live'[g] = rec
      BY <2>1, <2>3 DEF Typed, TypeOK
    <3>3. Clean(live[g].values) /\ Rooted(g)
      BY <2>1, <2>3 DEF Safe, SafeLive
    <3>4. live[g].staging \in StagingId
      BY <2>1, <3>3 DEF LiveRow, Rooted
    <3>5. Rooted(g)'
      BY <3>1, <3>2, <3>3, <3>4 DEF Rooted, StagingKept, Kept
    <3> QED
      BY <2>1, <2>3, <3>1, <3>3, <3>5, OneRecord
  <2>4. CASE live' = [live EXCEPT ![g] = NoRecord("purged")]
    <3>1. ~HasRow(NoRecord("purged"))
      BY DEF HasRow, NoRecord
    <3> QED
      BY <2>1, <2>4, <3>1, OneRecord
  <2> QED
    BY <1>1, <2>2, <2>3, <2>4
<1> QED
  BY <1>1, <1>3, <1>4, <1>5
     DEF Next, vars, Promote, BeginReview, BeginEdit, Begin, EndRequest, Crash, Fail,
         ReadStaging, ReadGolden, Reject, ReadForEdit, SaveEdit

(* The invariant holds initially and is kept by every step. *)
LEMMA SafeInit == Init => Safe
BY DEF Init, Safe, SafeRows, SafeRequests, SafeLive, RowClean, NoRow, NoRecord, HasRow, Idle

(* Safe is inductive: every request step keeps each of its parts. *)
LEMMA SafeStep == Typed /\ Typed' /\ Safe /\ [Next]_vars => Safe'
BY StagingStep, RequestsStep, LiveStep DEF Safe

(* So it holds in every reachable state. *)
LEMMA SafeAlways == Spec => [](Typed /\ Safe)
<1>1. Init => Typed
  BY BlankTypes, StewardshipAssumption DEF Init, Typed, TypeOK, RequestOK, Idle
<1> QED
  BY <1>1, SafeInit, TypedStep, SafeStep, PTL DEF Spec

(* No golden record ever holds a value the rules forbid or misses a required *)
(* field (validate_record, edit_staging, the checks of apply_staging_to_live *)
(* and the NOT NULL columns), however requests overlap and fail.            *)
THEOREM AlwaysClean == Spec => []GoldenClean
<1>1. Safe => GoldenClean
  BY DEF Safe, SafeLive, GoldenClean
<1> QED
  BY <1>1, SafeAlways, PTL

(* Segregation of duties holds for rows nobody edited, however requests     *)
(* overlap: the check is made on a row read earlier, and what it compares   *)
(* cannot have changed since without leaving an editor.                     *)
THEOREM AlwaysFourEyes == Spec => []FourEyes
<1>1. Safe => FourEyes
  BY DEF Safe, SafeLive, FourEyes, Rooted, HasRow
<1> QED
  BY <1>1, SafeAlways, PTL

(* Every golden record leads back to a staging row a steward decided on that *)
(* was staged for it or for a new record (mdm_staging_id).                  *)
THEOREM AlwaysTraceable == Spec => []LineageSound
<1>1. Safe => LineageSound
  BY DEF Safe, SafeLive, LineageSound, Rooted
<1> QED
  BY <1>1, SafeAlways, PTL

-----------------------------------------------------------------------------
(* Decisions and edits.                                                     *)

(* What an approval's commit does to the golden records: one comes to be    *)
(* from its row, is removed, or keeps the row it came from.                 *)
LEMMA AppliedTo ==
  ASSUME Typed, NEW w \in Worker, ApplyInsert(w) \/ ApplyUpdate(w) \/ ApplyDelete(w)
  PROVE  \A g \in Golden : live'[g].staging \in {req[w].sid, live[g].staging, None}
<1>1. ASSUME NEW g \in Golden, NEW rec, live' = [live EXCEPT ![g] = rec],
             rec.staging \in {req[w].sid, live[g].staging, None}
      PROVE  \A h \in Golden : live'[h].staging \in {req[w].sid, live[h].staging, None}
  BY <1>1 DEF Typed, TypeOK
<1>2. CASE UNCHANGED live
  BY <1>2
<1>3. CASE ApplyInsert(w)
  <2>1. PICK g \in Golden :
          \/ live' = [live EXCEPT ![g] =
               [state |-> "active", version |-> 1, values |-> req[w].row.values,
                approved |-> req[w].actor, staging |-> req[w].sid]]
          \/ UNCHANGED live
    BY <1>3 DEF ApplyInsert, Fail
  <2> QED
    BY <1>1, <1>2, <2>1
<1>4. CASE ApplyUpdate(w)
  <2>1. PICK g, after : /\ g = req[w].row.target
                        /\ after = Overlay(req[w].row.values,
                             WrittenFields(req[w].row.supplied, req[w].row.values), live[g].values)
    OBVIOUS
  <2>2. \/ UNCHANGED live
        \/ live' = [live EXCEPT ![g] = Written(@, after, req[w].actor, req[w].sid)]
    BY <1>4, <2>1 DEF ApplyUpdate, Fail
  <2>3. req[w].row \in StagingRow /\ g # None
    BY <1>4, <2>1 DEF ApplyUpdate, Typed, TypeOK, Request
  <2>4. g \in Golden /\ live[g] \in LiveRow
    BY <2>1, <2>3 DEF StagingRow, Typed, TypeOK
  <2>5. Written(live[g], after, req[w].actor, req[w].sid).staging = req[w].sid
    BY <2>4 DEF Written, LiveRow
  <2> QED
    BY <1>1, <1>2, <2>2, <2>4, <2>5
<1>5. CASE ApplyDelete(w)
  <2>1. PICK g : g = req[w].row.target
    OBVIOUS
  <2>2. \/ UNCHANGED live
        \/ live' = [live EXCEPT ![g] = Retired(@, req[w].actor)]
        \/ live' = [live EXCEPT ![g] = NoRecord("purged")]
    BY <1>5, <2>1 DEF ApplyDelete
  <2>3. req[w].row \in StagingRow /\ g # None
    BY <1>5, <2>1 DEF ApplyDelete, Typed, TypeOK, RequestOK, Request
  <2>4. g \in Golden /\ live[g] \in LiveRow
    BY <2>1, <2>3 DEF StagingRow, Typed, TypeOK
  <2>5. Retired(live[g], req[w].actor).staging = live[g].staging
    BY <2>4 DEF Retired, LiveRow
  <2>6. NoRecord("purged").staging = None
    BY DEF NoRecord
  <2> QED
    BY <1>1, <1>2, <2>2, <2>4, <2>5, <2>6
<1> QED
  BY <1>3, <1>4, <1>5

(* A decision is overruled by a handler that had read something else.       *)
LEMMA OverruledStale ==
  ASSUME Typed, Safe, [Next]_vars, NEW s \in StagingId, Overruled(s)
  PROVE  \E w \in Worker :
           /\ req[w].pc \in {"write", "save"} /\ req[w].sid = s
           /\ req[w].row.status # staging[s].status
<1>0. staging \in [StagingId -> StagingRow] /\ staging[s].status \in {"applied", "rejected"}
  BY DEF Overruled, Typed, TypeOK
<1>1. CASE UNCHANGED <<staging, live>>
  BY <1>1 DEF Overruled
<1>3. ASSUME NEW write \in Writes, NEW by \in User, Promote(write, by) PROVE FALSE
  <2>1. PICK t \in StagingId : \E row : /\ staging[t].status = "absent"
                                        /\ staging' = [staging EXCEPT ![t] = row]
    BY <1>3 DEF Promote
  <2>2. staging'[s] = staging[s] /\ UNCHANGED live
    BY <1>0, <1>3, <2>1 DEF Promote
  <2> QED
    BY <2>2 DEF Overruled
<1>4. ASSUME NEW w \in Worker, ApplyInsert(w) \/ ApplyUpdate(w) \/ ApplyDelete(w)
      PROVE  req[w].pc = "write" /\ req[w].sid = s /\ req[w].row.status # staging[s].status
  <2>1. req[w].pc = "write" /\ (MarkApplied(w) \/ UNCHANGED <<staging, live>>)
    BY <1>4 DEF ApplyInsert, ApplyUpdate, ApplyDelete, Fail
  <2>2. req[w].row.status \notin {"applied", "rejected"} /\ req[w].sid \in StagingId
    BY <2>1 DEF Safe, SafeRequests, Applying, Typed, RequestOK
  <2>3. CASE req[w].sid = s
    BY <1>0, <2>1, <2>2, <2>3
  <2>4. CASE req[w].sid # s
    <3>1. staging'[s] = staging[s]
      BY <1>0, <2>1, <2>4 DEF MarkApplied
    <3>2. s # None
      BY StewardshipAssumption
    <3>3. \A g \in Golden : live'[g].staging = s => live[g].staging = s
      BY <1>4, <2>4, <3>2, AppliedTo
    <3> QED
      BY <3>1, <3>3 DEF Overruled
  <2> QED
    BY <2>3, <2>4
<1>5. ASSUME NEW w \in Worker, Reject(w) PROVE FALSE
  <2>1. PICK t \in req[w].todo :
          \/ /\ Rejectable(staging[t])
             /\ staging' = [staging EXCEPT ![t] = Reviewed(@, "rejected", req[w].actor)]
          \/ UNCHANGED staging
    BY <1>5 DEF Reject
  <2>2. t \in StagingId /\ staging[t] \in StagingRow /\ UNCHANGED live
    BY <1>0, <1>5 DEF Reject, Typed, TypeOK, Request
  <2>3. Reviewed(staging[t], "rejected", req[w].actor).status = "rejected"
    BY <2>2 DEF Reviewed, StagingRow
  <2>4. staging'[s] = staging[s] \/ (staging[s].status # "applied" /\ staging'[s].status = "rejected")
    BY <1>0, <2>1, <2>2, <2>3 DEF Rejectable
  <2> QED
    BY <2>2, <2>4 DEF Overruled
<1>6. ASSUME NEW w \in Worker, SaveEdit(w)
      PROVE  req[w].pc = "save" /\ req[w].sid = s /\ req[w].row.status # staging[s].status
  <2>1. PICK e : staging' = [staging EXCEPT ![req[w].sid] = Saved(@, e, req[w].actor)]
    BY <1>6 DEF SaveEdit
  <2>2. req[w].pc = "save" /\ req[w].sid \in StagingId /\ UNCHANGED live
    BY <1>6 DEF SaveEdit, Typed, RequestOK
  <2>3. req[w].row.status # "applied"
    BY <2>2 DEF Safe, SafeRequests, Editing
  <2>4. Saved(staging[req[w].sid], e, req[w].actor).status = "pending_review"
    BY <1>0, <2>2 DEF Saved, StagingRow
  <2>5. req[w].sid # s => staging'[s] = staging[s]
    BY <1>0, <2>1, <2>2
  <2>6. req[w].sid = s => staging'[s].status = "pending_review"
    BY <1>0, <2>1, <2>2, <2>4
  <2> QED
    BY <2>2, <2>3, <2>5, <2>6 DEF Overruled
<1> QED
  BY <1>1, <1>3, <1>4, <1>5, <1>6
     DEF Next, vars, BeginReview, BeginEdit, Begin, EndRequest, Crash, Fail, ReadStaging,
         ReadGolden, ReadForEdit

(* A decision is overruled only by a request that read the row before it    *)
(* was made, however many overlap (apply_staging_to_live, edit_staging and  *)
(* reject_staging).                                                         *)
THEOREM OverruledOnlyThus == Spec => OverruledOnlyByOverlap
<1> DEFINE A == \A s \in StagingId : Overruled(s) =>
       \E w \in Worker :
         /\ req[w].pc \in {"write", "save"} /\ req[w].sid = s
         /\ req[w].row.status # staging[s].status
<1>1. Typed /\ Safe /\ [Next]_vars => A
  BY OverruledStale
<1> HIDE DEF A
<1>2. Spec => [][A]_vars
  BY <1>1, SafeAlways, PTL DEF Spec
<1> QED
  BY <1>2 DEF OverruledOnlyByOverlap, A

(* What an edit stores of a field it does not name is the normal form of    *)
(* what it read.                                                            *)
LEMMA EditNormalises ==
  ASSUME NEW row \in StagingRow, NEW updates \in Payload, NEW a \in Attr \ DOMAIN updates
  PROVE  EditedRow(row, updates).values[a] = Coerced(row.values, a)
<1> DEFINE merged == [b \in Attr |-> IF b \in DOMAIN updates THEN updates[b] ELSE row.values[b]]
<1>1. merged[a] = row.values[a] /\ a \in DOMAIN merged /\ a \in DOMAIN row.values
  BY DEF StagingRow, Record
<1>2. \A partial : a \in CheckedFields(merged, partial)
  BY DEF CheckedFields
<1> HIDE DEF merged
<1>3. Coerced(merged, a) = Coerced(row.values, a)
  BY <1>1 DEF Coerced
<1>4. \A partial : ValidateRecord(merged, partial).values[a] = Coerced(merged, a)
  BY <1>2 DEF ValidateRecord
<1> QED
  BY <1>3, <1>4 DEF EditedRow, merged

(* A field that changes was named, or read before it became what it was.    *)
LEMMA FieldsKept ==
  ASSUME Typed, [Next]_vars, NEW s \in StagingId, NEW a \in Attr, staging[s].status # "absent",
         staging'[s].values[a] \notin {staging[s].values[a], Coerced(staging[s].values, a)}
  PROVE  \E w \in Worker :
           /\ req[w].pc = "save" /\ req[w].sid = s
           /\ a \in DOMAIN req[w].updates \/ req[w].row.values # staging[s].values
<1>0. staging \in [StagingId -> StagingRow]
  BY DEF Typed, TypeOK
<1>1. CASE UNCHANGED staging
  BY <1>1
<1>2. ASSUME NEW write \in Writes, NEW by \in User, Promote(write, by) PROVE FALSE
  <2>1. PICK t \in StagingId : \E row : /\ staging[t].status = "absent"
                                        /\ staging' = [staging EXCEPT ![t] = row]
    BY <1>2 DEF Promote
  <2> QED
    BY <1>0, <2>1
<1>3. ASSUME NEW t \in StagingId, NEW status, NEW actor,
             staging' = [staging EXCEPT ![t] = Reviewed(@, status, actor)]
      PROVE  FALSE
  <2>1. Reviewed(staging[t], status, actor).values = staging[t].values
    BY <1>0 DEF Reviewed, StagingRow
  <2> QED
    BY <1>0, <1>3, <2>1
<1>4. ASSUME NEW w \in Worker, ApplyInsert(w) \/ ApplyUpdate(w) \/ ApplyDelete(w) PROVE FALSE
  <2>1. req[w].pc = "write" /\ (MarkApplied(w) \/ UNCHANGED staging)
    BY <1>4 DEF ApplyInsert, ApplyUpdate, ApplyDelete, Fail
  <2>2. req[w].sid \in StagingId
    BY <2>1 DEF Typed, RequestOK
  <2> QED
    BY <1>1, <1>3, <2>1, <2>2 DEF MarkApplied
<1>5. ASSUME NEW w \in Worker, Reject(w) PROVE FALSE
  <2>1. PICK t \in req[w].todo :
          \/ staging' = [staging EXCEPT ![t] = Reviewed(@, "rejected", req[w].actor)]
          \/ UNCHANGED staging
    BY <1>5 DEF Reject
  <2>2. t \in StagingId
    BY DEF Typed, TypeOK, Request
  <2> QED
    BY <1>1, <1>3, <2>1, <2>2
<1>6. ASSUME NEW w \in Worker, SaveEdit(w)
      PROVE  /\ req[w].pc = "save" /\ req[w].sid = s
             /\ a \in DOMAIN req[w].updates \/ req[w].row.values # staging[s].values
  <2>1. PICK e : e = EditedRow(req[w].row, req[w].updates)
    OBVIOUS
  <2>2. PICK t : t = req[w].sid
    OBVIOUS
  <2>3. /\ req[w].pc = "save" /\ t \in StagingId /\ req[w].row \in StagingRow
        /\ req[w].updates \in Payload /\ DOMAIN req[w].updates \subseteq Attr
        /\ req[w].actor \in User
    BY <1>6, <2>2, StewardshipAssumption DEF SaveEdit, Typed, TypeOK, RequestOK, Request
  <2>4. e.values \in Record /\ e.valid \in BOOLEAN /\ e.supplied \in SUBSET Attr
    BY <2>1, <2>3, EditedRowType
  <2>5. PICK new : new = Saved(staging[t], e, req[w].actor)
    OBVIOUS
  <2>6. new.values = e.values
    BY <1>0, <2>3, <2>4, <2>5, SavedRow
  <2>7. staging' = [staging EXCEPT ![t] = new]
    BY <1>6, <2>1, <2>2, <2>5 DEF SaveEdit
  <2>8. t = s /\ staging'[s].values = e.values
    BY <1>0, <2>3, <2>6, <2>7
  <2>9. CASE a \notin DOMAIN req[w].updates /\ req[w].row.values = staging[s].values
    BY <2>1, <2>3, <2>8, <2>9, EditNormalises
  <2> QED
    BY <2>2, <2>3, <2>8, <2>9
<1> QED
  BY <1>1, <1>2, <1>4, <1>5, <1>6
     DEF Next, vars, BeginReview, BeginEdit, Begin, EndRequest, Crash, Fail, ReadStaging,
         ReadGolden, ReadForEdit

(* An edit changes only what it names, but for normal forms, and loses      *)
(* another's work only if it read the row before, however many requests     *)
(* overlap (edit_staging).                                                  *)
THEOREM EditsNamedOnly == Spec => EditOnlyNamed
<1> DEFINE A == \A s \in StagingId, a \in Attr :
       LET before == staging[s].values
       IN  /\ staging[s].status # "absent"
           /\ staging'[s].values[a] \notin {before[a], Coerced(before, a)}
           => \E w \in Worker :
                /\ req[w].pc = "save" /\ req[w].sid = s
                /\ a \in DOMAIN req[w].updates \/ req[w].row.values # before
<1>1. Typed /\ Safe /\ [Next]_vars => A
  BY FieldsKept
<1> HIDE DEF A
<1>2. Spec => [][A]_vars
  BY <1>1, SafeAlways, PTL DEF Spec
<1> QED
  BY <1>2 DEF EditOnlyNamed, A
=============================================================================
