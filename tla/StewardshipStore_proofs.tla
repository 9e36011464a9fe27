----------------------- MODULE StewardshipStore_proofs -----------------------
(* The review handlers implement the store of golden records, and no change *)
(* of a golden record goes unrecorded, for any number of overlapping        *)
(* requests.                                                                *)
EXTENDS StewardshipSafety_proofs, FiniteSetTheorems, StewardshipStore

-----------------------------------------------------------------------------
(* No change of a golden record goes unrecorded.                            *)

(* The history rows of a record are finitely many, and a new row adds one to *)
(* those of its record and none to the others'.                             *)
LEMMA ArchivedFinite ==
  ASSUME Typed, NEW g \in Golden
  PROVE  IsFiniteSet(Archived(g)) /\ Cardinality(Archived(g)) \in Nat
<1>1. Archived(g) \subseteq 1..Len(history) /\ Len(history) \in Nat
  BY DEF Archived, Typed, TypeOK
<1>2. IsFiniteSet(1..Len(history))
  <2>1. 1 \in Int /\ Len(history) \in Int
    BY <1>1
  <2> QED
    BY <2>1, FS_Interval
<1>3. IsFiniteSet(Archived(g))
  BY <1>1, <1>2, FS_Subset
<1> QED
  BY <1>3, FS_CardinalityType

(* What Archive leaves of the history of a record h. *)
LEMMA ArchivedGrows ==
  ASSUME Typed, NEW current, NEW g \in Golden, NEW change,
         Archive(current, g, change), NEW h \in Golden
  PROVE  /\ h # g => Archived(h)' = Archived(h)
         /\ h = g => /\ Archived(h)' # {}
                     /\ Cardinality(Archived(h)') = Cardinality(Archived(h)) + 1
<1> DEFINE e == [id |-> g, change |-> change, version |-> current.version,
                 values |-> current.values, deleted |-> current.state = "deleted",
                 staging |-> current.staging]
           n == Len(history)
<1>1. history' = Append(history, e) /\ e.id = g
  BY DEF Archive
<1> HIDE DEF e
<1>2. /\ n \in Nat /\ DOMAIN history = 1..n /\ DOMAIN history' = 1..(n + 1)
      /\ history'[n + 1] = e
      /\ \A i \in 1..n : history'[i] = history[i]
  BY <1>1 DEF Typed, TypeOK
<1>3. Archived(h) \subseteq 1..n /\ n + 1 \notin Archived(h)
  BY <1>2 DEF Archived
<1>4. CASE h # g
  BY <1>1, <1>2, <1>4 DEF Archived
<1>5. CASE h = g
  <2>1. Archived(h)' = Archived(h) \cup {n + 1}
    BY <1>1, <1>2, <1>5 DEF Archived
  <2>2. Cardinality(Archived(h) \cup {n + 1}) = Cardinality(Archived(h)) + 1
    BY <1>3, ArchivedFinite, FS_AddElement
  <2> QED
    BY <1>5, <2>1, <2>2
<1> QED
  BY <1>4, <1>5

(* The invariant of one record carries over when neither it nor its history  *)
(* changes, and when it makes one version and one history row.              *)
LEMMA RecordedStep ==
  ASSUME Typed, NoUnrecordedChange, NEW g \in Golden, NEW current, NEW change,
         Archive(current, g, change), NEW rec,
         live' = [live EXCEPT ![g] = rec],
         HasRow(rec) => /\ HasRow(live[g])
                        /\ rec.version = live[g].version + 1
  PROVE  NoUnrecordedChange'
<1> SUFFICES ASSUME NEW h \in Golden
             PROVE  /\ HasRow(live'[h]) => live'[h].version <= Cardinality(Archived(h)') + 1
                    /\ live'[h].state = "purged" => Archived(h)' # {}
  BY DEF NoUnrecordedChange
<1>1. CASE h # g
  <2>1. live'[h] = live[h] /\ Archived(h)' = Archived(h)
    BY <1>1, ArchivedGrows DEF Typed, TypeOK
  <2> QED
    BY <2>1 DEF NoUnrecordedChange
<1>2. CASE h = g
  <2>1. /\ live'[h] = rec /\ Archived(h)' # {}
        /\ Cardinality(Archived(h)') = Cardinality(Archived(h)) + 1
    BY <1>2, ArchivedGrows DEF Typed, TypeOK
  <2>2. /\ Cardinality(Archived(h)) \in Nat
        /\ live[h].version \in Nat
        /\ HasRow(live[h]) => live[h].version <= Cardinality(Archived(h)) + 1
    BY ArchivedFinite DEF Typed, TypeOK, LiveRow, NoUnrecordedChange
  <2> QED
    BY <1>2, <2>1, <2>2
<1> QED
  BY <1>1, <1>2

(* An approval that leaves the record as it is still adds its history row.  *)
LEMMA NoChangeStep ==
  ASSUME Typed, NoUnrecordedChange, UNCHANGED live, NEW g \in Golden, NEW current, NEW change,
         Archive(current, g, change)
  PROVE  NoUnrecordedChange'
<1> SUFFICES ASSUME NEW h \in Golden
             PROVE  /\ HasRow(live'[h]) => live'[h].version <= Cardinality(Archived(h)') + 1
                    /\ live'[h].state = "purged" => Archived(h)' # {}
  BY DEF NoUnrecordedChange
<1>1. /\ Cardinality(Archived(h)) \in Nat
      /\ \/ Archived(h)' = Archived(h)
         \/ /\ Archived(h)' # {}
            /\ Cardinality(Archived(h)') = Cardinality(Archived(h)) + 1
  BY ArchivedFinite, ArchivedGrows
<1>2. live'[h] = live[h] /\ live[h].version \in Nat
  BY DEF Typed, TypeOK, LiveRow
<1> QED
  BY <1>1, <1>2 DEF NoUnrecordedChange

(* Every step records what it changes.                                      *)
LEMMA HistoryStep == Typed /\ NoUnrecordedChange /\ [Next]_vars => NoUnrecordedChange'
<1> SUFFICES ASSUME Typed, NoUnrecordedChange, [Next]_vars
             PROVE  NoUnrecordedChange'
  OBVIOUS
<1>1. CASE UNCHANGED <<live, history>>
  BY <1>1 DEF NoUnrecordedChange, Archived
<1>2. ASSUME NEW w \in Worker, ApplyInsert(w)
      PROVE  NoUnrecordedChange'
  <2>1. PICK g \in Golden :
          \/ /\ live[g].state = "unborn"
             /\ live' = [live EXCEPT ![g] =
                  [state |-> "active", version |-> 1, values |-> req[w].row.values,
                   approved |-> req[w].actor, staging |-> req[w].sid]]
             /\ UNCHANGED history
          \/ UNCHANGED <<live, history>>
    BY <1>2 DEF ApplyInsert, Fail
  <2>2. \A h \in Golden : Archived(h)' = Archived(h) /\ Cardinality(Archived(h)) \in Nat
    BY <2>1, ArchivedFinite DEF Archived
  <2>3. \A h \in Golden : live'[h] = live[h] \/ (live'[h].state = "active" /\ live'[h].version = 1)
    BY <2>1 DEF Typed, TypeOK
  <2> QED
    BY <2>2, <2>3 DEF NoUnrecordedChange, HasRow
<1>3. ASSUME NEW w \in Worker, ApplyUpdate(w)
      PROVE  NoUnrecordedChange'
  <2>1. PICK g \in Golden : g = req[w].row.target
    BY <1>3 DEF ApplyUpdate, Typed, TypeOK, Request, StagingRow
  <2> DEFINE r == req[w]
             after == Overlay(r.row.values, WrittenFields(r.row.supplied, r.row.values),
                              live[g].values)
             rec == Written(live[g], after, r.actor, r.sid)
  <2>2. /\ live[g] \in LiveRow /\ live[g].values \in Record /\ r.row.values \in Record
        /\ r.actor \in User /\ r.sid \in StagingId
    BY <1>3, StewardshipAssumption
       DEF ApplyUpdate, Typed, TypeOK, RequestOK, Request, StagingRow, LiveRow
  <2>3. after \in Record
    BY <2>2, OverlayType
  <2>4. \/ UNCHANGED <<live, history>>
        \/ UNCHANGED live /\ Archive(r.current, g, "update")
        \/ /\ HasRow(live[g])
           /\ live' = [live EXCEPT ![g] = rec]
           /\ Archive(r.current, g, "update")
    BY <1>3, <2>1 DEF ApplyUpdate, Fail
  <2> HIDE DEF after
  <2>5. rec.version = live[g].version + 1
    BY <2>2, <2>3, WrittenRow
  <2> HIDE DEF rec
  <2> QED
    BY <1>1, <2>4, <2>5, RecordedStep, NoChangeStep
<1>4. ASSUME NEW w \in Worker, ApplyDelete(w)
      PROVE  NoUnrecordedChange'
  <2>1. PICK g \in Golden : g = req[w].row.target
    BY <1>4 DEF ApplyDelete, Typed, TypeOK, RequestOK, Request, StagingRow
  <2> DEFINE r == req[w]
             rec == Retired(live[g], r.actor)
  <2>2. live[g] \in LiveRow /\ r.actor \in User
    BY <1>4, StewardshipAssumption DEF ApplyDelete, Typed, TypeOK, RequestOK
  <2>3. /\ Archive(r.current, g, "delete")
        /\ \/ UNCHANGED live
           \/ HasRow(live[g]) /\ live' = [live EXCEPT ![g] = rec]
           \/ live' = [live EXCEPT ![g] = NoRecord("purged")]
    BY <1>4, <2>1 DEF ApplyDelete
  <2>4. rec.version = live[g].version + 1
    BY <2>2, RetiredRow
  <2>5. ~HasRow(NoRecord("purged"))
    BY DEF HasRow, NoRecord
  <2> HIDE DEF rec
  <2> QED
    BY <2>3, <2>4, <2>5, RecordedStep, NoChangeStep
<1> QED
  BY <1>1, <1>2, <1>3, <1>4
     DEF Next, vars, Promote, BeginReview, BeginEdit, Begin, EndRequest, Crash, Fail,
         ReadStaging, ReadGolden, Reject, ReadForEdit, SaveEdit

(* A golden record never gains a version, and never disappears, without a    *)
(* history row of its own (_write_history), however requests overlap.        *)
THEOREM AlwaysRecorded == Spec => []NoUnrecordedChange
<1>1. Init => Typed /\ NoUnrecordedChange
  BY BlankTypes, StewardshipAssumption
     DEF Init, Typed, TypeOK, RequestOK, Idle, NoUnrecordedChange, NoRecord, HasRow
<1> QED
  BY <1>1, TypedStep, HistoryStep, PTL DEF Spec

-----------------------------------------------------------------------------
(* The refinement.                                                          *)

\* The stored record of a row with some number of history rows.
StoredRow(rec, archived) ==
  [state |-> rec.state, version |-> rec.version,
   contents |-> IF HasRow(rec) THEN rec.values ELSE None, archived |-> archived]

Stored == [g \in Golden |-> AsStored(g)]

(* One history row more for a record, and the record as it is then: the     *)
(* store changes at that record only.                                       *)
LEMMA StoredStep ==
  ASSUME Typed, NEW g \in Golden, NEW current, NEW change, Archive(current, g, change),
         NEW rec, live' = [live EXCEPT ![g] = rec]
  PROVE  Stored' = [Stored EXCEPT ![g] = StoredRow(rec, Stored[g].archived + 1)]
<1>1. live'[g] = rec /\ \A h \in Golden \ {g} : live'[h] = live[h]
  BY DEF Typed, TypeOK
<1>2. \A h \in Golden \ {g} : AsStored(h)' = AsStored(h)
  BY <1>1, ArchivedGrows DEF AsStored
<1>3. Cardinality(Archived(g)') = Cardinality(Archived(g)) + 1
  BY ArchivedGrows
<1>4. AsStored(g)' = StoredRow(rec, AsStored(g).archived + 1)
  BY <1>1, <1>3 DEF AsStored, StoredRow
<1> QED
  BY <1>2, <1>4 DEF Stored

(* An approval with nothing to write leaves a note.                         *)
LEMMA NoteStep ==
  ASSUME Typed, NEW g \in Golden, NEW current, NEW change, Archive(current, g, change),
         UNCHANGED live
  PROVE  Store!Note(g)
<1>1. live' = [live EXCEPT ![g] = live[g]]
  BY DEF Typed, TypeOK
<1>2. Stored' = [Stored EXCEPT ![g] = StoredRow(live[g], Stored[g].archived + 1)]
  BY <1>1, StoredStep
<1> QED
  BY <1>2 DEF Store!Note, Stored, StoredRow, AsStored

(* An approved insert creates a record of permitted contents.               *)
LEMMA InsertStep ==
  ASSUME Typed, Typed', Safe', NEW w \in Worker, ApplyInsert(w)
  PROVE  (\E g \in Golden : Store!Create(g)) \/ UNCHANGED Stored
<1> DEFINE rec == [state |-> "active", version |-> 1, values |-> req[w].row.values,
                   approved |-> req[w].actor, staging |-> req[w].sid]
<1>1. PICK g \in Golden :
        \/ /\ live[g].state = "unborn"
           /\ live' = [live EXCEPT ![g] = rec]
           /\ UNCHANGED history
        \/ UNCHANGED <<live, history>>
  BY DEF ApplyInsert, Fail
<1>2. CASE UNCHANGED <<live, history>>
  BY <1>2 DEF Stored, AsStored, Archived
<1>3. CASE /\ live[g].state = "unborn"
           /\ live' = [live EXCEPT ![g] = rec]
           /\ UNCHANGED history
  <2>1. live'[g] = rec /\ \A h \in Golden \ {g} : live'[h] = live[h]
    BY <1>3 DEF Typed, TypeOK
  <2>2. HasRow(rec) /\ rec.values = req[w].row.values
    BY DEF HasRow
  <2>3. req[w].row.values \in Permitted
    BY <2>1, <2>2 DEF Safe, SafeLive, Permitted, Typed, TypeOK, LiveRow
  <2>4. \A h \in Golden : Archived(h)' = Archived(h)
    BY <1>3 DEF Archived
  <2>5. \A h \in Golden \ {g} : AsStored(h)' = AsStored(h)
    BY <2>1, <2>4 DEF AsStored
  <2>6. AsStored(g)' = [state |-> "active", version |-> 1, contents |-> req[w].row.values,
                        archived |-> AsStored(g).archived]
    BY <2>1, <2>2, <2>4 DEF AsStored
  <2>7. Stored' = [Stored EXCEPT ![g] =
          [state |-> "active", version |-> 1, contents |-> req[w].row.values,
           archived |-> Stored[g].archived]]
    BY <2>5, <2>6 DEF Stored
  <2>8. Stored[g].state = "unborn"
    BY <1>3 DEF Stored, AsStored
  <2> QED
    BY <2>3, <2>7, <2>8 DEF Store!Create, Stored
<1> QED
  BY <1>1, <1>2, <1>3

(* An approved update amends a record, with permitted contents, or leaves a  *)
(* note.                                                                    *)
LEMMA UpdateStep ==
  ASSUME Typed, Typed', Safe', NEW w \in Worker, ApplyUpdate(w)
  PROVE  (\E g \in Golden : Store!Amend(g) \/ Store!Note(g)) \/ UNCHANGED Stored
<1>1. PICK g \in Golden : g = req[w].row.target
  BY DEF ApplyUpdate, Typed, TypeOK, Request, StagingRow
<1> DEFINE r == req[w]
           after == Overlay(r.row.values, WrittenFields(r.row.supplied, r.row.values),
                            live[g].values)
           rec == Written(live[g], after, r.actor, r.sid)
<1>2. /\ live[g] \in LiveRow /\ live[g].values \in Record /\ r.row.values \in Record
      /\ r.actor \in User /\ r.sid \in StagingId
  BY StewardshipAssumption
     DEF ApplyUpdate, Typed, TypeOK, RequestOK, Request, StagingRow, LiveRow
<1>3. after \in Record
  BY <1>2, OverlayType
<1>4. \/ UNCHANGED <<live, history>>
      \/ UNCHANGED live /\ Archive(r.current, g, "update")
      \/ /\ HasRow(live[g])
         /\ live' = [live EXCEPT ![g] = rec]
         /\ Archive(r.current, g, "update")
  BY <1>1 DEF ApplyUpdate, Fail
<1> HIDE DEF after
<1>5. rec.state = live[g].state /\ rec.version = live[g].version + 1
  BY <1>2, <1>3, WrittenRow
<1> HIDE DEF rec
<1>6. CASE /\ HasRow(live[g])
           /\ live' = [live EXCEPT ![g] = rec]
           /\ Archive(r.current, g, "update")
  <2>1. Stored' = [Stored EXCEPT ![g] = StoredRow(rec, Stored[g].archived + 1)]
    BY <1>6, StoredStep
  <2>2. HasRow(rec) /\ live'[g] = rec
    BY <1>5, <1>6 DEF HasRow, Typed, TypeOK
  <2>3. rec.values \in Permitted
    BY <2>2 DEF Safe, SafeLive, Permitted, Typed, TypeOK, LiveRow
  <2>4. Store!Present(Stored[g])
    BY <1>6 DEF Store!Present, Stored, AsStored, HasRow
  <2>5. Stored[g].state = live[g].state /\ Stored[g].version = live[g].version
    BY DEF Stored, AsStored
  <2>6. StoredRow(rec, Stored[g].archived + 1) =
          [state |-> Stored[g].state, version |-> Stored[g].version + 1,
           contents |-> rec.values, archived |-> Stored[g].archived + 1]
    BY <1>5, <2>2, <2>5 DEF StoredRow
  <2> HIDE DEF rec
  <2>7. Store!Change(g, Stored[g].state, Stored[g].version + 1, rec.values)
    BY <2>1, <2>4, <2>6 DEF Store!Change, Stored
  <2>8. Store!Amend(g)
    BY <2>3, <2>7 DEF Store!Amend, Stored
  <2> QED
    BY <2>8
<1>7. CASE UNCHANGED live /\ Archive(r.current, g, "update")
  BY <1>7, NoteStep
<1>8. CASE UNCHANGED <<live, history>>
  BY <1>8 DEF Stored, AsStored, Archived
<1> QED
  BY <1>4, <1>6, <1>7, <1>8

(* An approved deletion retires a record, removes it, or leaves a note.     *)
LEMMA DeleteStep ==
  ASSUME Typed, NEW w \in Worker, ApplyDelete(w)
  PROVE  \E g \in Golden : Store!Retire(g) \/ Store!Purge(g) \/ Store!Note(g)
<1>1. PICK g \in Golden : g = req[w].row.target
  BY DEF ApplyDelete, Typed, TypeOK, RequestOK, Request, StagingRow
<1> DEFINE r == req[w]
           rec == Retired(live[g], r.actor)
<1>2. live[g] \in LiveRow /\ r.actor \in User
  BY StewardshipAssumption DEF ApplyDelete, Typed, TypeOK, RequestOK
<1>3. /\ Archive(r.current, g, "delete")
      /\ \/ UNCHANGED live
         \/ HasRow(live[g]) /\ live' = [live EXCEPT ![g] = rec]
         \/ HasRow(live[g]) /\ live' = [live EXCEPT ![g] = NoRecord("purged")]
  BY <1>1 DEF ApplyDelete
<1>4. HasRow(live[g]) => /\ Store!Present(Stored[g])
                         /\ Stored[g].contents = live[g].values
                         /\ Stored[g].version = live[g].version
  BY DEF Store!Present, Stored, AsStored, HasRow
<1>5. CASE UNCHANGED live
  BY <1>3, <1>5, NoteStep
<1>6. CASE HasRow(live[g]) /\ live' = [live EXCEPT ![g] = rec]
  <2>1. rec.state = "deleted" /\ rec.version = live[g].version + 1 /\ rec.values = live[g].values
    BY <1>2, RetiredRow DEF Retired, LiveRow
  <2> HIDE DEF rec
  <2>2. Stored' = [Stored EXCEPT ![g] = StoredRow(rec, Stored[g].archived + 1)]
    BY <1>3, <1>6, StoredStep
  <2>3. StoredRow(rec, Stored[g].archived + 1) =
          [state |-> "deleted", version |-> Stored[g].version + 1,
           contents |-> Stored[g].contents, archived |-> Stored[g].archived + 1]
    BY <1>4, <1>6, <2>1 DEF StoredRow, HasRow
  <2>4. Store!Retire(g)
    BY <1>4, <1>6, <2>2, <2>3 DEF Store!Retire, Store!Change, Stored
  <2> QED
    BY <2>4
<1>7. CASE HasRow(live[g]) /\ live' = [live EXCEPT ![g] = NoRecord("purged")]
  <2>1. Stored' = [Stored EXCEPT ![g] = StoredRow(NoRecord("purged"), Stored[g].archived + 1)]
    BY <1>3, <1>7, StoredStep
  <2>2. StoredRow(NoRecord("purged"), Stored[g].archived + 1) =
          [state |-> "purged", version |-> 0, contents |-> None,
           archived |-> Stored[g].archived + 1]
    BY DEF StoredRow, NoRecord, HasRow
  <2>3. Store!Purge(g)
    BY <1>4, <1>7, <2>1, <2>2 DEF Store!Purge, Store!Change, Stored
  <2> QED
    BY <2>3
<1> QED
  BY <1>3, <1>5, <1>6, <1>7

(* Every step of every handler is a step of the store, or none.             *)
LEMMA StoreStep ==
  ASSUME Typed, Typed', Safe', [Next]_vars
  PROVE  [Store!Next]_Stored
<1>1. CASE UNCHANGED <<live, history>>
  BY <1>1 DEF Stored, AsStored, Archived
<1>2. ASSUME NEW w \in Worker, ApplyInsert(w)
      PROVE  [Store!Next]_Stored
  BY <1>2, InsertStep DEF Store!Next
<1>3. ASSUME NEW w \in Worker, ApplyUpdate(w)
      PROVE  [Store!Next]_Stored
  BY <1>3, UpdateStep DEF Store!Next
<1>4. ASSUME NEW w \in Worker, ApplyDelete(w)
      PROVE  [Store!Next]_Stored
  BY <1>4, DeleteStep DEF Store!Next
<1> QED
  BY <1>1, <1>2, <1>3, <1>4
     DEF Next, vars, Promote, BeginReview, BeginEdit, Begin, EndRequest, Crash, Fail,
         ReadStaging, ReadGolden, Reject, ReadForEdit, SaveEdit

(* The empty tables are the empty store.                                    *)
LEMMA StoreInit == Init => Store!Init
<1> SUFFICES ASSUME Init PROVE Store!Init
  OBVIOUS
<1>1. \A g \in Golden : Archived(g) = {} /\ live[g] = NoRecord("unborn")
  BY DEF Init, Archived
<1>2. Cardinality({}) = 0
  BY FS_EmptySet
<1>3. \A g \in Golden : AsStored(g) = Store!Unborn
  BY <1>1, <1>2 DEF AsStored, NoRecord, HasRow, Store!Unborn
<1> QED
  BY <1>3 DEF Store!Init

(* Staging, review, live and history together are a store of versioned      *)
(* records: however requests overlap and whatever they were refused, live   *)
(* and history change by whole steps of it (apply_staging_to_live).         *)
THEOREM StoreImplemented == Spec => RefinesGoldenStore
<1>1. Typed /\ Safe /\ Typed' /\ Safe' /\ [Next]_vars
        => [Store!Next]_([g \in Golden |-> AsStored(g)])
  BY StoreStep DEF Stored
<1>2. Spec => Store!Spec
  BY <1>1, StoreInit, SafeAlways, PTL DEF Spec, Store!Spec
<1> QED
  BY <1>2 DEF RefinesGoldenStore
=============================================================================
