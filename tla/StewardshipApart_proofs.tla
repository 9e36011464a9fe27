----------------------- MODULE StewardshipApart_proofs -----------------------
(* What review promises to stewards who do not work on the same row at the *)
(* same time: the staging rows that two requests have read differ, and so  *)
(* do the golden records they are about to write.  (Requests that have     *)
(* read the same row can break each of these: a handler writes by          *)
(* identifier alone.  Locking what is read would keep them apart.)         *)
(* Promotions and crashes come at any time, and the number of overlapping  *)
(* requests, of rows, records, users, fields and values is any.            *)
EXTENDS StewardshipSafety_proofs

\* The staging row a request has read and may write, and the golden record it
\* is reading or writing.  A rejection reads and writes in one statement: any
\* row it has been asked to reject can be next.
RowsOf(r) == IF r.pc = "reject" THEN r.todo ELSE {r.sid} \ {None}

RecordsOf(r) == IF r.pc \in {"golden", "write"} THEN {r.row.target} \ {None} ELSE {}

Apart ==
  \A v, w \in Worker :
    v # w => /\ RowsOf(req[v]) \cap RowsOf(req[w]) = {}
             /\ RecordsOf(req[v]) \cap RecordsOf(req[w]) = {}

\* What an event in the audit trail, or on its way there, says of the tables.
Truthful(e) ==
  e.action = "approve" =>
    staging[e.staging].status = "applied" /\ staging[e.staging].reviewed = e.actor

\* What a handler has read is what is there.
Fresh(w) ==
  LET r == req[w] IN
  r.pc # "idle" =>
    /\ r.pc \in {"golden", "write"} => r.row = staging[r.sid] /\ Approvable(r.row, r.actor)
    /\ r.pc = "write" /\ r.row.target # None =>
         HasRow(live[r.row.target]) /\ r.current = live[r.row.target]
    /\ r.pc = "save" => r.row = staging[r.sid] /\ Editable(r.row, r.updates)
    /\ \A e \in r.log : Truthful(e)

\* The versions of a golden record: all before the present one are in the history.
Numbered(g) ==
  HasRow(live[g]) =>
    /\ live[g].version >= 1
    /\ \A v \in 1..(live[g].version - 1) : \E i \in Archived(g) : history[i].version = v

Whole ==
  /\ \A w \in Worker : Fresh(w)
  /\ \A g \in Golden : Numbered(g)
  /\ LastTouchNotReviewer
  /\ AuditTruthful

-----------------------------------------------------------------------------
(* What a step does to one staging row.                                    *)

\* The four things that happen to a row: nothing, its promotion, its approval
\* by a handler that found it approvable, a rejection or an edit of one that
\* was not applied.
Applies(w, s) ==
  /\ req[w].pc = "write" /\ req[w].sid = s
  /\ Approvable(staging[s], req[w].actor)
  /\ staging'[s] = Reviewed(staging[s], "applied", req[w].actor)

RowMoves(s) ==
  \/ staging'[s] = staging[s]
  \/ staging[s].status = "absent" /\ staging'[s].status = "pending_review"
  \/ \E w \in Worker : Applies(w, s)
  \/ staging[s].status \notin {"absent", "applied"} /\ staging'[s].status \in {"rejected", "pending_review"}

(* A review marks the row it approved.                                     *)
LEMMA AppliesRow ==
  ASSUME Typed, NEW w \in Worker, Fresh(w), req[w].pc = "write", MarkApplied(w)
  PROVE  /\ req[w].sid \in StagingId
         /\ Applies(w, req[w].sid)
         /\ \A s \in StagingId \ {req[w].sid} : staging'[s] = staging[s]
<1>1. /\ req[w].sid \in StagingId /\ req[w].actor \in User
      /\ staging \in [StagingId -> StagingRow]
  BY StewardshipAssumption DEF Typed, TypeOK, RequestOK
<1>2. staging' = [staging EXCEPT ![req[w].sid] = Reviewed(@, "applied", req[w].actor)]
  BY DEF MarkApplied
<1>3. Approvable(staging[req[w].sid], req[w].actor)
  BY DEF Fresh
<1> QED
  BY <1>1, <1>2, <1>3 DEF Applies

(* Every step moves every staging row in one of the four ways.             *)
LEMMA RowsMove ==
  ASSUME Typed, \A w \in Worker : Fresh(w), [Next]_vars
  PROVE  \A s \in StagingId : RowMoves(s)
<1>0. staging \in [StagingId -> StagingRow]
  BY DEF Typed, TypeOK
<1>1. CASE UNCHANGED staging
  BY <1>1 DEF RowMoves
<1>2. ASSUME NEW write \in Writes, NEW by \in User, Promote(write, by)
      PROVE  \A s \in StagingId : RowMoves(s)
  <2>1. PICK s \in StagingId : \E outcome :
          /\ staging[s].status = "absent"
          /\ staging' = [staging EXCEPT ![s] = PromotedRow(write, by, outcome)]
    BY <1>2 DEF Promote
  <2>2. PICK outcome :
          /\ staging[s].status = "absent"
          /\ staging' = [staging EXCEPT ![s] = PromotedRow(write, by, outcome)]
    BY <2>1
  <2>3. PromotedRow(write, by, outcome).status = "pending_review"
    BY DEF PromotedRow
  <2> QED
    BY <1>0, <2>2, <2>3 DEF RowMoves
<1>3. ASSUME NEW w \in Worker, ApplyInsert(w) \/ ApplyUpdate(w) \/ ApplyDelete(w)
      PROVE  \A s \in StagingId : RowMoves(s)
  <2>1. req[w].pc = "write" /\ (MarkApplied(w) \/ UNCHANGED staging)
    BY <1>3 DEF ApplyInsert, ApplyUpdate, ApplyDelete, Fail
  <2>2. CASE MarkApplied(w)
    BY <2>1, <2>2, AppliesRow DEF RowMoves
  <2> QED
    BY <1>1, <2>1, <2>2
<1>4. ASSUME NEW w \in Worker, Reject(w)
      PROVE  \A s \in StagingId : RowMoves(s)
  <2>1. PICK s \in req[w].todo :
          \/ Rejectable(staging[s])
             /\ staging' = [staging EXCEPT ![s] = Reviewed(@, "rejected", req[w].actor)]
          \/ UNCHANGED staging
    BY <1>4 DEF Reject
  <2>2. CASE UNCHANGED staging
    BY <1>1, <2>2
  <2>3. CASE /\ Rejectable(staging[s])
             /\ staging' = [staging EXCEPT ![s] = Reviewed(@, "rejected", req[w].actor)]
    <3>1. s \in StagingId /\ req[w].actor \in User
      BY <1>4, StewardshipAssumption DEF Reject, Typed, TypeOK, RequestOK, Request
    <3>2. Reviewed(staging[s], "rejected", req[w].actor).status = "rejected"
      BY <1>0, <3>1, ReviewedRow DEF Status
    <3>3. staging'[s].status = "rejected" /\ \A t \in StagingId \ {s} : staging'[t] = staging[t]
      BY <1>0, <2>3, <3>1, <3>2
    <3>4. staging[s].status \notin {"absent", "applied"}
      BY <2>3 DEF Rejectable
    <3> QED
      BY <3>3, <3>4 DEF RowMoves
  <2> QED
    BY <2>1, <2>2, <2>3
<1>5. ASSUME NEW w \in Worker, SaveEdit(w)
      PROVE  \A s \in StagingId : RowMoves(s)
  <2>1. PICK s \in StagingId : s = req[w].sid
    BY <1>5 DEF SaveEdit, Typed, TypeOK, RequestOK
  <2>2. PICK e : e = EditedRow(req[w].row, req[w].updates)
    OBVIOUS
  <2>3. staging' = [staging EXCEPT ![s] = Saved(@, e, req[w].actor)]
    BY <1>5, <2>1, <2>2 DEF SaveEdit
  <2>4. Saved(staging[s], e, req[w].actor).status = "pending_review"
    BY <1>0 DEF Saved, StagingRow
  <2>5. staging'[s].status = "pending_review" /\ \A t \in StagingId \ {s} : staging'[t] = staging[t]
    BY <1>0, <2>3, <2>4
  <2>6. staging[s].status \notin {"absent", "applied"}
    BY <1>5, <2>1 DEF SaveEdit, Fresh, Editable
  <2> QED
    BY <2>5, <2>6 DEF RowMoves
<1> QED
  BY <1>1, <1>2, <1>3, <1>4, <1>5
     DEF Next, vars, BeginReview, BeginEdit, Begin, EndRequest, Crash, Fail, ReadStaging,
         ReadGolden, ReadForEdit

(* A row that moved to "applied" was approvable to its reviewer; an applied*)
(* row does not move.                                                      *)
LEMMA Moved ==
  ASSUME Typed, NEW s \in StagingId, RowMoves(s)
  PROVE  /\ staging[s].status = "applied" => staging'[s] = staging[s]
         /\ staging'[s].status = "applied" =>
              \/ staging'[s] = staging[s]
              \/ EnforceSoD => staging'[s].reviewed # Originator(staging'[s])
<1>1. ASSUME NEW w \in Worker, Applies(w, s)
      PROVE  /\ staging[s].status # "applied"
             /\ EnforceSoD => staging'[s].reviewed # Originator(staging'[s])
  <2>1. req[w].actor \in User /\ staging[s] \in StagingRow
    BY <1>1, StewardshipAssumption DEF Applies, Typed, TypeOK, RequestOK
  <2>3. "applied" \in Status /\ staging'[s] = Reviewed(staging[s], "applied", req[w].actor)
    BY <1>1 DEF Applies, Status
  <2>2. /\ staging'[s].reviewed = req[w].actor
        /\ staging'[s].submitted = staging[s].submitted
        /\ staging'[s].edited = staging[s].edited
    BY <2>1, <2>3, ReviewedRow
  <2> QED
    BY <1>1, <2>2 DEF Applies, Approvable, Originator
<1>2. staging[s].status \in Status
  BY DEF Typed, TypeOK, StagingRow
<1> QED
  BY <1>1, <1>2 DEF RowMoves

(* What the audit trail says of an applied row stays true.                 *)
LEMMA TruthKept ==
  ASSUME Typed, \A w \in Worker : Fresh(w), [Next]_vars
  PROVE  \A e \in Event : Truthful(e) => Truthful(e)'
<1>1. \A s \in StagingId : staging[s].status = "applied" => staging'[s] = staging[s]
  BY RowsMove, Moved
<1> QED
  BY <1>1 DEF Truthful, Event

-----------------------------------------------------------------------------
(* What a handler has read stays what is there.                            *)

(* A request that works on no row.                                         *)
LEMMA FreshBetween ==
  ASSUME NEW w \in Worker, req'[w].pc \notin {"golden", "write", "save"},
         \A e \in req'[w].log : Truthful(e)'
  PROVE  Fresh(w)'
BY DEF Fresh

(* Going on to the next item, with the events of this one.                 *)
LEMMA FreshItemDone ==
  ASSUME Typed, \A w \in Worker : Fresh(w), [Next]_vars, NEW w \in Worker, req[w].pc # "idle",
         NEW r \in Request, r.log = req[w].log,
         NEW pc \in {"approve", "edit", "reject"}, NEW events \in SUBSET Event,
         \A e \in events : Truthful(e)',
         req' = [req EXCEPT ![w] = ItemDone(r, pc, events)]
  PROVE  Fresh(w)'
<1>1. PICK d : d = ItemDone(r, pc, events)
  OBVIOUS
<1>2. d.pc = pc /\ d.log = r.log \cup events
  BY <1>1 DEF ItemDone, Request
<1>3. req'[w] = d
  BY <1>1 DEF Typed, TypeOK
<1>4. \A e \in r.log : e \in Event /\ Truthful(e)
  BY DEF Fresh, Typed, TypeOK, Request
<1>5. \A e \in d.log : Truthful(e)'
  BY <1>2, <1>4, TruthKept
<1> QED
  BY <1>2, <1>3, <1>5, FreshBetween

(* A request begun.                                                        *)
LEMMA FreshBegin ==
  ASSUME Typed, NEW w \in Worker, NEW pc \in {"approve", "reject", "edit"}, NEW actor,
         NEW todo, NEW updates, Begin(w, pc, actor, todo, updates)
  PROVE  Fresh(w)'
<1>1. PICK r : r = [Idle EXCEPT !.pc = pc, !.actor = actor, !.todo = todo, !.updates = updates]
  OBVIOUS
<1>2. r.pc = pc /\ r.log = {}
  BY <1>1 DEF Idle
<1>3. req'[w] = r
  BY <1>1 DEF Begin, Typed, TypeOK
<1> QED
  BY <1>2, <1>3, FreshBetween

(* The event of an approval says what the approval did.                    *)
LEMMA FreshApplied ==
  ASSUME Typed, \A w \in Worker : Fresh(w), [Next]_vars, NEW w \in Worker,
         req[w].pc = "write", MarkApplied(w)
  PROVE  Fresh(w)'
<1> DEFINE r == req[w]
<1>1. PICK e : e = [action |-> "approve", actor |-> r.actor, staging |-> r.sid]
  OBVIOUS
<1>2. r \in Request /\ r.sid \in StagingId /\ r.actor \in User
      /\ staging[r.sid] \in StagingRow
  BY StewardshipAssumption DEF Typed, TypeOK, RequestOK
<1>3. e \in Event /\ e.staging = r.sid /\ e.actor = r.actor
  BY <1>1, <1>2 DEF Event
<1>4. staging'[r.sid] = Reviewed(staging[r.sid], "applied", r.actor)
  BY AppliesRow DEF Applies
<1>8. "applied" \in Status
  BY DEF Status
<1>9. staging'[r.sid].status = "applied" /\ staging'[r.sid].reviewed = r.actor
  BY <1>2, <1>4, <1>8, ReviewedRow
<1>5. Truthful(e)'
  BY <1>3, <1>9 DEF Truthful
<1>6. req' = [req EXCEPT ![w] = ItemDone(r, "approve", {e})]
  BY <1>1 DEF MarkApplied
<1>7. {e} \in SUBSET Event /\ \A x \in {e} : Truthful(x)'
  BY <1>3, <1>5
<1> QED
  BY <1>2, <1>6, <1>7, FreshItemDone

(* A step that writes no table keeps what another handler has read.        *)
LEMMA FreshOther ==
  ASSUME Typed, \A w \in Worker : Fresh(w), [Next]_vars, NEW w \in Worker,
         req'[w] = req[w], UNCHANGED <<staging, live>>
  PROVE  Fresh(w)'
<1>1. \A e \in Event : Truthful(e) => Truthful(e)'
  BY TruthKept
<1>2. req[w].log \subseteq Event
  BY DEF Typed, TypeOK, Request
<1> QED
  BY <1>1, <1>2 DEF Fresh

(* So does one that writes rows and records of its own.                    *)
LEMMA FreshBeside ==
  ASSUME Typed, Apart, \A w \in Worker : Fresh(w), [Next]_vars,
         NEW v \in Worker, NEW w \in Worker, v # w, req'[v] = req[v],
         \A s \in StagingId : s \notin RowsOf(req[w]) => staging'[s] = staging[s],
         \A g \in Golden : HasRow(live[g]) /\ g \notin RecordsOf(req[w]) => live'[g] = live[g]
  PROVE  Fresh(v)'
<1> DEFINE r == req[v]
<1>1. /\ r \in Request /\ r.log \subseteq Event
      /\ r.pc \in {"golden", "write", "save"} => r.sid \in StagingId
  BY DEF Typed, TypeOK, RequestOK, Request
<1>2. r.pc \in {"golden", "write", "save"} => staging'[r.sid] = staging[r.sid]
  <2>1. r.pc # "reject" /\ r.sid \in StagingId => r.sid \in RowsOf(r)
    BY StewardshipAssumption DEF RowsOf
  <2> QED
    BY <1>1, <2>1 DEF Apart
<1>3. r.pc = "write" /\ r.row.target # None => live'[r.row.target] = live[r.row.target]
  <2>1. r.row.target \in Golden \cup {None}
    BY <1>1 DEF Request, StagingRow
  <2>2. r.pc = "write" /\ r.row.target # None => r.row.target \in RecordsOf(r)
    BY DEF RecordsOf
  <2>3. r.pc = "write" /\ r.row.target # None => HasRow(live[r.row.target])
    BY DEF Fresh
  <2> QED
    BY <2>1, <2>2, <2>3 DEF Apart
<1>4. \A e \in r.log : Truthful(e) => Truthful(e)'
  BY <1>1, TruthKept
<1> QED
  BY <1>2, <1>3, <1>4 DEF Fresh

(* A promotion fills an absent row, which no handler has read.             *)
LEMMA FreshPromote ==
  ASSUME Typed, \A w \in Worker : Fresh(w), [Next]_vars, NEW w \in Worker,
         NEW write \in Writes, NEW by \in User, Promote(write, by)
  PROVE  Fresh(w)'
<1>1. PICK s \in StagingId : \E outcome :
        /\ staging[s].status = "absent"
        /\ staging' = [staging EXCEPT ![s] = PromotedRow(write, by, outcome)]
  BY DEF Promote
<1>2. \A t \in StagingId : staging[t].status # "absent" => staging'[t] = staging[t]
  BY <1>1 DEF Typed, TypeOK
<1>3. req' = req /\ live' = live
  BY DEF Promote
<1>4. req[w].pc \in {"golden", "write", "save"} =>
        req[w].sid \in StagingId /\ staging[req[w].sid].status # "absent"
  BY DEF Typed, RequestOK, Fresh, Approvable, Editable
<1>5. \A e \in Event : Truthful(e) => Truthful(e)'
  BY TruthKept
<1>6. req[w].log \subseteq Event
  BY DEF Typed, TypeOK, Request
<1> QED
  BY <1>2, <1>3, <1>4, <1>5, <1>6 DEF Fresh

(* The statements that read: what they return is what is there.            *)
LEMMA FreshRead ==
  ASSUME Typed, \A w \in Worker : Fresh(w), [Next]_vars, NEW w \in Worker,
         ReadStaging(w) \/ ReadGolden(w) \/ ReadForEdit(w)
  PROVE  Fresh(w)'
<1>0. /\ req[w].pc # "idle" /\ req[w] \in Request
      /\ UNCHANGED <<staging, live>>
      /\ \A e \in req[w].log : e \in Event /\ Truthful(e)
      /\ {} \in SUBSET Event
  BY DEF ReadStaging, ReadGolden, ReadForEdit, Fresh, Typed, TypeOK, Request
<1>1. \A e \in req[w].log : Truthful(e)'
  BY <1>0, TruthKept
<1>2. ASSUME NEW s \in StagingId, NEW pc \in {"approve", "edit", "reject"},
             req' = [req EXCEPT ![w] = ItemDone([req[w] EXCEPT !.sid = s], pc, {})]
      PROVE  Fresh(w)'
  <2>1. PICK picked : picked = [req[w] EXCEPT !.sid = s]
    OBVIOUS
  <2>2. picked \in Request /\ picked.log = req[w].log
    BY <1>0, <2>1 DEF Request
  <2>3. req' = [req EXCEPT ![w] = ItemDone(picked, pc, {})]
    BY <1>2, <2>1
  <2> QED
    BY <1>0, <2>2, <2>3, FreshItemDone
<1>3. ASSUME req' = [req EXCEPT ![w] = Idle]
      PROVE  Fresh(w)'
  BY <1>3 DEF Typed, TypeOK, Fresh, Idle
<1>4. CASE ReadStaging(w)
  <2>1. PICK s \in req[w].todo :
          LET picked == [req[w] EXCEPT !.sid = s] IN
          \/ /\ Approvable(staging[s], req[w].actor)
             /\ req' = [req EXCEPT ![w] = [picked EXCEPT
                  !.row = staging[s],
                  !.pc = IF staging[s].op = "DELETE" \/ staging[s].target # None
                         THEN "golden" ELSE "write"]]
          \/ req' = [req EXCEPT ![w] = ItemDone(picked, "approve", {})]
    BY <1>4 DEF ReadStaging
  <2>2. s \in StagingId
    BY <1>0 DEF Request
  <2>3. PICK pc : pc = IF staging[s].op = "DELETE" \/ staging[s].target # None
                       THEN "golden" ELSE "write"
    OBVIOUS
  <2>4. PICK r : r = [[req[w] EXCEPT !.sid = s] EXCEPT !.row = staging[s], !.pc = pc]
    OBVIOUS
  <2>5. CASE req' = [req EXCEPT ![w] = ItemDone([req[w] EXCEPT !.sid = s], "approve", {})]
    BY <1>2, <2>2, <2>5
  <2>6. CASE Approvable(staging[s], req[w].actor) /\ req' = [req EXCEPT ![w] = r]
    <3>1. /\ r.pc = pc /\ r.sid = s /\ r.row = staging[s] /\ r.actor = req[w].actor
          /\ r.log = req[w].log
      BY <1>0, <2>4 DEF Request
    <3>2. pc \in {"golden", "write"} /\ (pc = "write" => staging[s].target = None)
      BY <2>3
    <3>3. req'[w] = r
      BY <2>6 DEF Typed, TypeOK
    <3>4. staging' = staging /\ live' = live
      BY <1>0
    <3> QED
      BY <1>1, <2>6, <3>1, <3>2, <3>3, <3>4 DEF Fresh
  <2> QED
    BY <2>1, <2>3, <2>4, <2>5, <2>6
<1>5. CASE ReadGolden(w)
  <2>1. PICK target : target = req[w].row.target
    OBVIOUS
  <2>2. PICK r : r = [req[w] EXCEPT !.current = live[target], !.pc = "write"]
    OBVIOUS
  <2>3. /\ req[w].pc = "golden"
        /\ \/ HasRow(live[target]) /\ req' = [req EXCEPT ![w] = r]
           \/ req' = [req EXCEPT ![w] = ItemDone(req[w], "approve", {})]
           \/ req' = [req EXCEPT ![w] = Idle]
    BY <1>5, <2>1, <2>2 DEF ReadGolden, Typed, TypeOK
  <2>4. CASE req' = [req EXCEPT ![w] = ItemDone(req[w], "approve", {})]
    BY <1>0, <2>4, FreshItemDone
  <2>5. CASE HasRow(live[target]) /\ req' = [req EXCEPT ![w] = r]
    <3>1. /\ r.pc = "write" /\ r.sid = req[w].sid /\ r.row = req[w].row
          /\ r.actor = req[w].actor /\ r.log = req[w].log /\ r.current = live[target]
      BY <1>0, <2>2 DEF Request
    <3>2. req'[w] = r
      BY <2>5 DEF Typed, TypeOK
    <3>3. r.row = staging[r.sid] /\ Approvable(r.row, r.actor)
      BY <2>3, <3>1 DEF Fresh
    <3>4. staging' = staging /\ live' = live
      BY <1>0
    <3> QED
      BY <1>1, <2>1, <2>5, <3>1, <3>2, <3>3, <3>4 DEF Fresh
  <2> QED
    BY <1>3, <2>3, <2>4, <2>5
<1>6. CASE ReadForEdit(w)
  <2>1. PICK s \in req[w].todo :
          LET picked == [req[w] EXCEPT !.sid = s] IN
          \/ /\ Editable(staging[s], req[w].updates)
             /\ req' = [req EXCEPT ![w] = [picked EXCEPT !.row = staging[s], !.pc = "save"]]
          \/ req' = [req EXCEPT ![w] = ItemDone(picked, "edit", {})]
    BY <1>6 DEF ReadForEdit
  <2>2. s \in StagingId
    BY <1>0 DEF Request
  <2>3. PICK r : r = [[req[w] EXCEPT !.sid = s] EXCEPT !.row = staging[s], !.pc = "save"]
    OBVIOUS
  <2>4. CASE req' = [req EXCEPT ![w] = ItemDone([req[w] EXCEPT !.sid = s], "edit", {})]
    BY <1>2, <2>2, <2>4
  <2>5. CASE Editable(staging[s], req[w].updates) /\ req' = [req EXCEPT ![w] = r]
    <3>1. /\ r.pc = "save" /\ r.sid = s /\ r.row = staging[s]
          /\ r.updates = req[w].updates /\ r.log = req[w].log
      BY <1>0, <2>3 DEF Request
    <3>2. req'[w] = r
      BY <2>5 DEF Typed, TypeOK
    <3>3. staging' = staging
      BY <1>0
    <3> QED
      BY <1>1, <2>5, <3>1, <3>2, <3>3 DEF Fresh
  <2> QED
    BY <2>1, <2>3, <2>4, <2>5
<1> QED
  BY <1>4, <1>5, <1>6

(* While they keep apart, every handler works on what is there.            *)
LEMMA FreshStep ==
  ASSUME Typed, Apart, \A w \in Worker : Fresh(w), [Next]_vars
  PROVE  \A w \in Worker : Fresh(w)'
<1> SUFFICES ASSUME NEW v \in Worker PROVE Fresh(v)'
  OBVIOUS
<1>1. CASE UNCHANGED vars
  BY <1>1, FreshOther DEF vars
<1>2. ASSUME NEW write \in Writes, NEW by \in User, Promote(write, by)
      PROVE  Fresh(v)'
  BY <1>2, FreshPromote
<1>3. ASSUME NEW w \in Worker, w # v, NEW r, req' = [req EXCEPT ![w] = r],
             \A s \in StagingId : s \notin RowsOf(req[w]) => staging'[s] = staging[s],
             \A g \in Golden : HasRow(live[g]) /\ g \notin RecordsOf(req[w]) => live'[g] = live[g]
      PROVE  Fresh(v)'
  <2>1. req'[v] = req[v]
    BY <1>3 DEF Typed, TypeOK
  <2> QED
    BY <1>3, <2>1, FreshBeside
<1>4. ASSUME NEW w \in Worker, NEW pc \in {"approve", "reject", "edit"}, NEW actor,
             NEW todo, NEW updates, Begin(w, pc, actor, todo, updates)
      PROVE  Fresh(v)'
  <2>1. CASE w = v
    BY <1>4, <2>1, FreshBegin
  <2>2. CASE w # v
    BY <1>4, <2>2, FreshOther DEF Begin, Typed, TypeOK
  <2> QED
    BY <2>1, <2>2
<1>5. ASSUME NEW w \in Worker, req' = [req EXCEPT ![w] = Idle], UNCHANGED <<staging, live>>
      PROVE  Fresh(v)'
  <2>1. CASE w = v
    BY <1>5, <2>1 DEF Fresh, Idle, Typed, TypeOK
  <2>2. CASE w # v
    BY <1>3, <1>5, <2>2
  <2> QED
    BY <2>1, <2>2
<1>6. ASSUME NEW w \in Worker,
             ReadStaging(w) \/ ReadGolden(w) \/ ReadForEdit(w)
      PROVE  Fresh(v)'
  <2>1. CASE w = v
    BY <1>6, <2>1, FreshRead
  <2>2. CASE w # v
    <3>1. PICK r : req' = [req EXCEPT ![w] = r]
      BY <1>6 DEF ReadStaging, ReadGolden, ReadForEdit
    <3>2. UNCHANGED <<staging, live>>
      BY <1>6 DEF ReadStaging, ReadGolden, ReadForEdit
    <3> QED
      BY <1>3, <2>2, <3>1, <3>2
  <2> QED
    BY <2>1, <2>2
<1>7. ASSUME NEW w \in Worker, ApplyInsert(w) \/ ApplyUpdate(w) \/ ApplyDelete(w)
      PROVE  Fresh(v)'
  <2>1. req[w].pc = "write" /\ (MarkApplied(w) \/ Fail(w))
    BY <1>7 DEF ApplyInsert, ApplyUpdate, ApplyDelete
  <2>2. CASE Fail(w)
    BY <1>5, <2>1, <2>2 DEF Fail
  <2>3. CASE MarkApplied(w) /\ w = v
    BY <2>1, <2>3, FreshApplied
  <2>4. CASE MarkApplied(w) /\ w # v
    <3>1. PICK r : req' = [req EXCEPT ![w] = r]
      BY <2>4 DEF MarkApplied
    <3>2. \A s \in StagingId : s \notin RowsOf(req[w]) => staging'[s] = staging[s]
      <4>1. req[w].sid \in StagingId => req[w].sid \in RowsOf(req[w])
        BY <2>1, StewardshipAssumption DEF RowsOf
      <4> QED
        BY <2>4, <4>1 DEF MarkApplied, Typed, TypeOK
    <3>3. \A g \in Golden : HasRow(live[g]) /\ g \notin RecordsOf(req[w]) => live'[g] = live[g]
      <4>1. req[w].row.target # None => req[w].row.target \in RecordsOf(req[w])
        BY <2>1 DEF RecordsOf
      <4>2. req[w].row.op = "DELETE" => req[w].row.target # None
        BY <2>1 DEF Typed, RequestOK
      <4>3. ASSUME NEW g \in Golden, HasRow(live[g]), g \notin RecordsOf(req[w])
            PROVE  live'[g] = live[g]
        <5>1. CASE ApplyInsert(w)
          <6>1. PICK h, rec :
                  /\ h \in Golden
                  /\ live[h].state = "unborn"
                  /\ UNCHANGED live \/ live' = [live EXCEPT ![h] = rec]
            BY <5>1 DEF ApplyInsert, Fail
          <6>2. g # h
            BY <4>3, <6>1 DEF HasRow
          <6> QED
            BY <6>1, <6>2 DEF Typed, TypeOK
        <5>2. CASE ApplyUpdate(w) \/ ApplyDelete(w)
          <6>1. PICK rec :
                  UNCHANGED live \/ live' = [live EXCEPT ![req[w].row.target] = rec]
            BY <5>2 DEF ApplyUpdate, ApplyDelete, Fail
          <6>2. req[w].row.target # None
            BY <4>2, <5>2 DEF ApplyUpdate, ApplyDelete
          <6>3. g # req[w].row.target
            BY <4>1, <4>3, <6>2
          <6> QED
            BY <6>1, <6>3 DEF Typed, TypeOK
        <5> QED
          BY <1>7, <5>1, <5>2
      <4> QED
        BY <4>3
    <3> QED
      BY <1>3, <2>4, <3>1, <3>2, <3>3
  <2> QED
    BY <2>1, <2>2, <2>3, <2>4
<1>8. ASSUME NEW w \in Worker, Reject(w)
      PROVE  Fresh(v)'
  <2>1. PICK s \in req[w].todo :
          LET picked == [req[w] EXCEPT !.sid = s] IN
          \/ req' = [req EXCEPT ![w] = ItemDone(picked, "reject",
               {[action |-> "reject", actor |-> req[w].actor, staging |-> s]})]
          \/ req' = [req EXCEPT ![w] = ItemDone(picked, "reject", {})]
    BY <1>8 DEF Reject
  <2>2. /\ s \in StagingId /\ req[w] \in Request /\ req[w].pc = "reject"
        /\ req[w].actor \in User
    BY <1>8, StewardshipAssumption DEF Reject, Typed, TypeOK, RequestOK, Request
  <2>3. PICK e : e = [action |-> "reject", actor |-> req[w].actor, staging |-> s]
    OBVIOUS
  <2>4. PICK picked : picked = [req[w] EXCEPT !.sid = s]
    OBVIOUS
  <2>5. picked \in Request /\ picked.log = req[w].log
    BY <2>2, <2>4 DEF Request
  <2>6. PICK events \in {{e}, {}} : req' = [req EXCEPT ![w] = ItemDone(picked, "reject", events)]
    BY <2>1, <2>3, <2>4
  <2>7. events \in SUBSET Event /\ \A x \in events : Truthful(x)'
    BY <2>2, <2>3, <2>6 DEF Event, Truthful
  <2>8. CASE w = v
    BY <2>2, <2>5, <2>6, <2>7, <2>8, FreshItemDone
  <2>9. CASE w # v
    <3>1. UNCHANGED live
      BY <1>8 DEF Reject
    <3>2. \A t \in StagingId : t \notin RowsOf(req[w]) => staging'[t] = staging[t]
      BY <1>8, StewardshipAssumption DEF Reject, RowsOf, Typed, TypeOK, Request
    <3> QED
      BY <1>3, <2>6, <2>9, <3>1, <3>2
  <2> QED
    BY <2>8, <2>9
<1>9. ASSUME NEW w \in Worker, SaveEdit(w)
      PROVE  Fresh(v)'
  <2>1. PICK e : e = [action |-> "edit_staging", actor |-> req[w].actor, staging |-> req[w].sid]
    OBVIOUS
  <2>2. /\ req[w] \in Request /\ req[w].pc = "save" /\ req[w].sid \in StagingId
        /\ req[w].actor \in User
    BY <1>9, StewardshipAssumption DEF SaveEdit, Typed, TypeOK, RequestOK
  <2>3. req' = [req EXCEPT ![w] = ItemDone(req[w], "edit", {e})]
    BY <1>9, <2>1 DEF SaveEdit
  <2>4. {e} \in SUBSET Event /\ \A x \in {e} : Truthful(x)'
    BY <2>1, <2>2 DEF Event, Truthful
  <2>5. CASE w = v
    BY <2>2, <2>3, <2>4, <2>5, FreshItemDone
  <2>6. CASE w # v
    <3>1. UNCHANGED live
      BY <1>9 DEF SaveEdit
    <3>2. \A t \in StagingId : t \notin RowsOf(req[w]) => staging'[t] = staging[t]
      BY <1>9, <2>2, StewardshipAssumption DEF SaveEdit, RowsOf, Typed, TypeOK
    <3> QED
      BY <1>3, <2>3, <2>6, <3>1, <3>2
  <2> QED
    BY <2>5, <2>6
<1>10. ASSUME NEW w \in Worker, BeginReview(w) \/ BeginEdit(w)
       PROVE  Fresh(v)'
  BY <1>4, <1>10 DEF BeginReview, BeginEdit
<1>11. ASSUME NEW w \in Worker, EndRequest(w) \/ Crash(w)
       PROVE  Fresh(v)'
  <2>1. req' = [req EXCEPT ![w] = Idle] /\ UNCHANGED <<staging, live>>
    BY <1>11 DEF EndRequest, Crash, Fail
  <2> QED
    BY <1>5, <2>1
<1> QED
  BY <1>1, <1>2, <1>6, <1>7, <1>8, <1>9, <1>10, <1>11 DEF Next

-----------------------------------------------------------------------------
(* What a step does to one golden record and its history.                  *)

\* The history row of a change, as the record is before it.
Pictured(g) ==
  /\ Len(history') = Len(history) + 1
  /\ LET h == history'[Len(history')] IN
     /\ h.id = g
     /\ h.version = live[g].version
     /\ h.values = live[g].values
     /\ h.deleted = (live[g].state = "deleted")

Inserts(w, g) ==
  /\ live[g].state = "unborn"
  /\ live'[g].state = "active" /\ live'[g].version = 1
  /\ req[w].pc = "write" /\ live'[g].staging = req[w].sid
  /\ Applies(w, req[w].sid) /\ req[w].sid \in StagingId
  /\ \A h \in Golden \ {g} : live'[h] = live[h]

Updates(w, g) ==
  LET r == req[w] IN
  /\ HasRow(live[g]) /\ Pictured(g)
  /\ r.row = staging[r.sid]
  /\ live'[g].version = live[g].version + 1
  /\ live'[g].staging = r.sid
  /\ live'[g].values = Overlay(r.row.values, WrittenFields(r.row.supplied, r.row.values),
                               live[g].values)

Removes(g) ==
  /\ HasRow(live[g]) /\ Pictured(g)
  /\ HasRow(live'[g]) =>
       live'[g].version = live[g].version + 1 /\ live'[g].staging = live[g].staging

RecordMoves(g) ==
  \/ live'[g] = live[g]
  \/ \E w \in Worker : Inserts(w, g)
  \/ \E w \in Worker : Updates(w, g)
  \/ Removes(g)

(* The history only grows.                                                 *)
LEMMA HistoryGrows ==
  ASSUME Typed, [Next]_vars
  PROVE  \A i \in DOMAIN history : i \in DOMAIN history' /\ history'[i] = history[i]
<1>1. ASSUME NEW e, history' = Append(history, e)
      PROVE  \A i \in DOMAIN history : i \in DOMAIN history' /\ history'[i] = history[i]
  <2>1. PICK n \in Nat : n = Len(history) /\ DOMAIN history = 1..n
    BY DEF Typed, TypeOK
  <2>2. DOMAIN history' = 1..(n + 1) /\ \A i \in 1..n : history'[i] = history[i]
    BY <1>1, <2>1 DEF Typed, TypeOK
  <2> QED
    BY <2>1, <2>2
<1>2. \A current, g, change : Archive(current, g, change) => \E e : history' = Append(history, e)
  BY DEF Archive
<1>3. history' = history \/ \E e : history' = Append(history, e)
  BY <1>2 DEF Next, vars, Promote, BeginReview, BeginEdit, Begin, EndRequest, Crash, Fail,
     ReadStaging, ReadGolden, ReadForEdit, Reject, SaveEdit, ApplyInsert, ApplyUpdate, ApplyDelete
<1> QED
  BY <1>1, <1>3

(* A handler that archives the record as it is pictures it.                *)
LEMMA ArchivedAsIs ==
  ASSUME Typed, NEW g \in Golden, NEW change, Archive(live[g], g, change)
  PROVE  Pictured(g)
<1>1. PICK b : b = (live[g].state = "deleted")
  OBVIOUS
<1>2. PICK e : e = [id |-> g, change |-> change, version |-> live[g].version,
                    values |-> live[g].values, deleted |-> b, staging |-> live[g].staging]
  OBVIOUS
<1>3. history' = Append(history, e)
  BY <1>1, <1>2 DEF Archive
<1>4. Len(history') = Len(history) + 1 /\ history'[Len(history) + 1] = e
  BY <1>3 DEF Typed, TypeOK
<1>5. e.id = g /\ e.version = live[g].version /\ e.values = live[g].values /\ e.deleted = b
  BY <1>2
<1> QED
  BY <1>1, <1>4, <1>5, Zenon DEF Pictured

(* Every step moves every golden record in one of those ways.              *)
LEMMA RecordsMove ==
  ASSUME Typed, \A w \in Worker : Fresh(w), [Next]_vars
  PROVE  \A g \in Golden : RecordMoves(g)
<1>0. live \in [Golden -> LiveRow]
  BY DEF Typed, TypeOK
<1>1. CASE UNCHANGED live
  BY <1>1 DEF RecordMoves
<1>2. ASSUME NEW w \in Worker, ApplyInsert(w)
      PROVE  \A g \in Golden : RecordMoves(g)
  <2>1. PICK g \in Golden :
          \/ /\ live[g].state = "unborn"
             /\ live' = [live EXCEPT ![g] =
                  [state |-> "active", version |-> 1, values |-> req[w].row.values,
                   approved |-> req[w].actor, staging |-> req[w].sid]]
             /\ MarkApplied(w)
          \/ UNCHANGED live
    BY <1>2 DEF ApplyInsert, Fail
  <2>2. CASE UNCHANGED live
    BY <1>1, <2>2
  <2>3. CASE /\ live[g].state = "unborn"
             /\ live' = [live EXCEPT ![g] =
                  [state |-> "active", version |-> 1, values |-> req[w].row.values,
                   approved |-> req[w].actor, staging |-> req[w].sid]]
             /\ MarkApplied(w)
    <3>1. req[w].pc = "write"
      BY <1>2 DEF ApplyInsert
    <3>2. Applies(w, req[w].sid) /\ req[w].sid \in StagingId
      BY <2>3, <3>1, AppliesRow
    <3>3. /\ live'[g].state = "active" /\ live'[g].version = 1
          /\ live'[g].staging = req[w].sid
          /\ \A h \in Golden \ {g} : live'[h] = live[h]
      BY <1>0, <2>3
    <3>4. Inserts(w, g)
      BY <2>3, <3>1, <3>2, <3>3 DEF Inserts
    <3> QED
      BY <3>3, <3>4 DEF RecordMoves
  <2> QED
    BY <2>1, <2>2, <2>3
<1>3. ASSUME NEW w \in Worker, ApplyUpdate(w)
      PROVE  \A g \in Golden : RecordMoves(g)
  <2>1. PICK g \in Golden : g = req[w].row.target
    BY <1>3 DEF ApplyUpdate, Typed, TypeOK, Request, StagingRow
  <2>2. PICK r : r = req[w]
    OBVIOUS
  <2>3. PICK after : after = Overlay(r.row.values, WrittenFields(r.row.supplied, r.row.values),
                                     live[g].values)
    OBVIOUS
  <2>4. /\ r.pc = "write" /\ r.row.values \in Record /\ r.actor \in User /\ r.sid \in StagingId
        /\ live[g].values \in Record /\ live[g] \in LiveRow
    BY <1>0, <1>3, <2>2, StewardshipAssumption
       DEF ApplyUpdate, Typed, TypeOK, RequestOK, Request, StagingRow, LiveRow
  <2>5. HasRow(live[g]) /\ r.current = live[g] /\ r.row = staging[r.sid]
    BY <1>3, <2>1, <2>2, <2>4 DEF Fresh, ApplyUpdate
  <2>6. \/ UNCHANGED live
        \/ /\ live' = [live EXCEPT ![g] = Written(@, after, r.actor, r.sid)]
           /\ Archive(r.current, g, "update")
    BY <1>3, <2>1, <2>2, <2>3 DEF ApplyUpdate, Fail
  <2>7. CASE /\ live' = [live EXCEPT ![g] = Written(@, after, r.actor, r.sid)]
             /\ Archive(r.current, g, "update")
    <3>1. after \in Record
      BY <2>3, <2>4, OverlayType
    <3>2. PICK new : new = Written(live[g], after, r.actor, r.sid)
      OBVIOUS
    <3>3. new.version = live[g].version + 1 /\ new.values = after /\ new.staging = r.sid
      BY <2>4, <3>1, <3>2, WrittenRow
    <3>4. live' = [live EXCEPT ![g] = new]
      BY <2>7, <3>2
    <3>5. live'[g] = new /\ \A h \in Golden \ {g} : live'[h] = live[h]
      BY <1>0, <3>4
    <3>6. Pictured(g)
      BY <2>5, <2>7, ArchivedAsIs
    <3>7. Updates(w, g)
      BY <2>2, <2>3, <2>5, <3>3, <3>5, <3>6 DEF Updates
    <3> QED
      BY <3>5, <3>7 DEF RecordMoves
  <2> QED
    BY <1>1, <2>6, <2>7
<1>4. ASSUME NEW w \in Worker, ApplyDelete(w)
      PROVE  \A g \in Golden : RecordMoves(g)
  <2>1. PICK g \in Golden : g = req[w].row.target
    BY <1>4 DEF ApplyDelete, Typed, TypeOK, RequestOK, Request, StagingRow
  <2>2. req[w].pc = "write" /\ req[w].row.target # None /\ req[w].actor \in User
    BY <1>4, StewardshipAssumption DEF ApplyDelete, Typed, TypeOK, RequestOK
  <2>3. HasRow(live[g]) /\ req[w].current = live[g]
    BY <2>1, <2>2 DEF Fresh
  <2>4. PICK new : new = Retired(live[g], req[w].actor)
    OBVIOUS
  <2>5. new.version = live[g].version + 1 /\ new.staging = live[g].staging
    BY <1>0, <2>2, <2>4, RetiredRow
  <2>6. PICK rec \in {new, NoRecord("purged")} :
          /\ UNCHANGED live \/ live' = [live EXCEPT ![g] = rec]
          /\ Archive(live[g], g, "delete")
    BY <1>4, <2>1, <2>3, <2>4 DEF ApplyDelete
  <2>7. CASE live' = [live EXCEPT ![g] = rec]
    <3>1. live'[g] = rec /\ \A h \in Golden \ {g} : live'[h] = live[h]
      BY <1>0, <2>7
    <3>2. ~HasRow(NoRecord("purged"))
      BY DEF HasRow, NoRecord
    <3>3. Pictured(g)
      BY <2>6, ArchivedAsIs
    <3>4. Removes(g)
      BY <2>3, <2>5, <3>1, <3>2, <3>3 DEF Removes
    <3> QED
      BY <3>1, <3>4 DEF RecordMoves
  <2> QED
    BY <1>1, <2>6, <2>7
<1> QED
  BY <1>1, <1>2, <1>3, <1>4
     DEF Next, vars, Promote, BeginReview, BeginEdit, Begin, EndRequest, Crash, Fail,
         ReadStaging, ReadGolden, Reject, ReadForEdit, SaveEdit

-----------------------------------------------------------------------------
(* The invariant.                                                          *)

(* What is invariant, with the facts about the rows it rests on.           *)
LEMMA NumberedStep ==
  ASSUME Typed, Typed', Safe, Whole, [Next]_vars
  PROVE  \A g \in Golden : Numbered(g)'
<1> SUFFICES ASSUME NEW g \in Golden, HasRow(live'[g]) PROVE Numbered(g)'
  BY DEF Numbered
<1>0. \A w \in Worker : Fresh(w)
  BY DEF Whole
<1>1. \A i \in Archived(g) : i \in Archived(g)' /\ history'[i] = history[i]
  BY HistoryGrows DEF Archived
<1>2. RecordMoves(g)
  BY <1>0, RecordsMove
<1>3. \A s \in StagingId : staging[s].status = "applied" => staging'[s] = staging[s]
  BY <1>0, RowsMove, Moved
<1>4. HasRow(live[g]) => live[g].staging \in StagingId
  BY DEF Safe, SafeLive, Rooted, Typed, TypeOK, LiveRow
<1>5. CASE live'[g] = live[g]
  BY <1>1, <1>3, <1>4, <1>5 DEF Whole, Numbered
<1>6. ASSUME NEW w \in Worker, Inserts(w, g) PROVE Numbered(g)'
  <2>1. staging[req[w].sid] \in StagingRow /\ req[w].actor \in User /\ "applied" \in Status
    BY <1>6, StewardshipAssumption DEF Inserts, Typed, TypeOK, RequestOK, Status
  <2>2. staging'[req[w].sid].status = "applied"
    BY <1>6, <2>1, ReviewedRow DEF Inserts, Applies
  <2>3. live'[g].version = 1 /\ live'[g].staging = req[w].sid
    BY <1>6 DEF Inserts
  <2>4. 1..(live'[g].version - 1) = {}
    BY <2>3
  <2> QED
    BY <2>2, <2>3, <2>4 DEF Numbered
<1>7. ASSUME HasRow(live[g]), Pictured(g), live'[g].version = live[g].version + 1
      PROVE  Numbered(g)'
  <2>1. PICK n \in Nat : n = live[g].version
    BY DEF Typed, TypeOK, LiveRow
  <2>2. n >= 1 /\ \A v \in 1..(n - 1) : \E i \in Archived(g) : history[i].version = v
    BY <1>7, <2>1 DEF Whole, Numbered
  <2>3. \E i \in Archived(g)' : history'[i].version = n
    <3>1. Len(history') \in DOMAIN history'
      <4>1. Len(history) \in Nat /\ Len(history') = Len(history) + 1
        BY <1>7 DEF Pictured, Typed, TypeOK
      <4>2. DOMAIN history' = 1..Len(history')
        BY DEF Typed, TypeOK
      <4> QED
        BY <4>1, <4>2
    <3>2. history'[Len(history')].id = g /\ history'[Len(history')].version = n
      BY <1>7, <2>1 DEF Pictured
    <3> QED
      BY <3>1, <3>2 DEF Archived
  <2>4. \A v \in 1..n : \E i \in Archived(g)' : history'[i].version = v
    <3> SUFFICES ASSUME NEW v \in 1..n PROVE \E i \in Archived(g)' : history'[i].version = v
      OBVIOUS
    <3>1. CASE v = n
      BY <2>3, <3>1
    <3>2. CASE v \in 1..(n - 1)
      BY <1>1, <2>2, <3>2
    <3> QED
      BY <3>1, <3>2
  <2>5. live'[g].version = n + 1 /\ (live'[g].version - 1) = n /\ n + 1 >= 1 /\ n + 1 # 1
    BY <1>7, <2>1, <2>2
  <2> QED
    BY <2>4, <2>5 DEF Numbered
<1> QED
  BY <1>2, <1>5, <1>6, <1>7 DEF RecordMoves, Updates, Removes

(* The audit trail takes over what a handler's session holds.              *)
LEMMA TruthStep ==
  ASSUME Typed, Whole, [Next]_vars
  PROVE  AuditTruthful'
<1>0. \A w \in Worker : Fresh(w)
  BY DEF Whole
<1>1. \A e \in Event : Truthful(e) => Truthful(e)'
  BY <1>0, TruthKept
<1>2. audit \subseteq Event /\ \A e \in audit : Truthful(e)
  BY DEF Whole, AuditTruthful, Truthful, Typed, TypeOK
<1>3. audit' = audit \/ \E w \in Worker : req[w].pc # "idle" /\ audit' = audit \cup req[w].log
  BY DEF Next, vars, Promote, BeginReview, BeginEdit, Begin, EndRequest, Crash, Fail, ReadStaging,
     ReadGolden, ReadForEdit, Reject, SaveEdit, ApplyInsert, ApplyUpdate, ApplyDelete, MarkApplied
<1>4. \A w \in Worker : req[w].pc # "idle" => \A e \in req[w].log : e \in Event /\ Truthful(e)
  BY <1>0 DEF Fresh, Typed, TypeOK, Request
<1>5. \A e \in audit' : Truthful(e)'
  BY <1>1, <1>2, <1>3, <1>4
<1> QED
  BY <1>5 DEF AuditTruthful, Truthful

(* Every step keeps the invariant.                                         *)
LEMMA WholeStep ==
  ASSUME Typed, Typed', Safe, Apart, Whole, [Next]_vars
  PROVE  Whole'
<1>1. \A w \in Worker : Fresh(w)
  BY DEF Whole
<1>2. LastTouchNotReviewer'
  BY <1>1, RowsMove, Moved DEF Whole, LastTouchNotReviewer
<1>3. \A w \in Worker : Fresh(w)'
  BY <1>1, FreshStep
<1> QED
  BY <1>2, <1>3, NumberedStep, TruthStep DEF Whole

(* Nothing is staged, live or in flight at first.                          *)
LEMMA WholeInit == Init => Whole
<1> SUFFICES ASSUME Init PROVE Whole
  OBVIOUS
<1>1. \A w \in Worker : Fresh(w)
  BY DEF Init, Fresh, Idle
<1>2. \A g \in Golden : ~HasRow(live[g])
  BY DEF Init, HasRow, NoRecord
<1>3. LastTouchNotReviewer /\ AuditTruthful
  BY DEF Init, LastTouchNotReviewer, AuditTruthful, NoRow
<1> QED
  BY <1>1, <1>2, <1>3 DEF Whole, Numbered

(* So it holds as long as requests keep apart.                             *)
LEMMA WholeAlways == Spec /\ []Apart => [](Typed /\ Safe /\ Whole)
<1>1. Typed /\ Typed' /\ Safe /\ Apart /\ Whole /\ [Next]_vars => Whole'
  BY WholeStep
<1> QED
  BY <1>1, WholeInit, SafeAlways, PTL DEF Spec

-----------------------------------------------------------------------------
(* While requests keep apart, whoever touched a row last does not          *)
(* approve it (originator in apply_staging_to_live).                       *)
THEOREM NeverOwnReviewer == Spec /\ []Apart => []LastTouchNotReviewer
<1>1. Whole => LastTouchNotReviewer
  BY DEF Whole
<1> QED
  BY <1>1, WholeAlways, PTL

(* While requests keep apart, every version a golden record has left       *)
(* behind is in its history (_write_history).                              *)
THEOREM AlwaysKeepsVersions == Spec /\ []Apart => []PriorVersionsKept
<1>1. Whole => PriorVersionsKept
  BY DEF Whole, PriorVersionsKept, Numbered
<1> QED
  BY <1>1, WholeAlways, PTL

(* While requests keep apart, an approval on the audit trail is in the     *)
(* tables, by whom the event says (record_event and the two transactions). *)
THEOREM AlwaysTruthful == Spec /\ []Apart => []AuditTruthful
<1>1. Whole => AuditTruthful
  BY DEF Whole
<1> QED
  BY <1>1, WholeAlways, PTL

(* While requests keep apart, the history row of a change is the record    *)
(* as it was (_write_history: the pre-change state).                       *)
THEOREM HistoryAlwaysExact == Spec /\ []Apart => HistoryExact
<1> DEFINE A == \A g \in Golden :
       HasRow(live[g]) /\ live'[g] # live[g] =>
         /\ Len(history') = Len(history) + 1
         /\ LET h == history'[Len(history')] IN
            /\ h.id = g
            /\ h.version = live[g].version
            /\ h.values = live[g].values
            /\ h.deleted = (live[g].state = "deleted")
<1>1. Typed /\ Whole /\ [Next]_vars => A
  <2> SUFFICES ASSUME Typed, Whole, [Next]_vars,
                      NEW g \in Golden, HasRow(live[g]), live'[g] # live[g]
               PROVE  Pictured(g)
    BY Zenon DEF Pictured
  <2>1. \A w \in Worker : Fresh(w)
    BY DEF Whole
  <2>2. RecordMoves(g)
    BY <2>1, RecordsMove
  <2> QED
    BY <2>2 DEF RecordMoves, Inserts, Updates, Removes, HasRow
<1> HIDE DEF A
<1>2. Spec /\ []Apart => [][A]_vars
  BY <1>1, WholeAlways, PTL DEF Spec
<1> QED
  BY <1>2 DEF HistoryExact, A

(* While requests keep apart, an update leaves the fields alone that       *)
(* its staging row does not claim (_apply_update).                         *)
THEOREM UnclaimedAlwaysKept == Spec /\ []Apart => UnclaimedFieldsKept
<1> DEFINE A == \A g \in Golden :
       /\ HasRow(live[g]) /\ HasRow(live'[g])
       /\ live'[g].staging # live[g].staging
       /\ Claimed(live'[g].staging) # {}
       => \A a \in Attr \ Claimed(live'[g].staging) :
            live'[g].values[a] = live[g].values[a]
<1>1. Typed /\ Whole /\ [Next]_vars => A
  <2> SUFFICES ASSUME Typed, Whole, [Next]_vars,
                      NEW g \in Golden, HasRow(live[g]), HasRow(live'[g]),
                      live'[g].staging # live[g].staging,
                      staging[live'[g].staging].supplied # {},
                      NEW a \in Attr \ staging[live'[g].staging].supplied
               PROVE  live'[g].values[a] = live[g].values[a]
    BY DEF Claimed
  <2>1. \A w \in Worker : Fresh(w)
    BY DEF Whole
  <2>2. RecordMoves(g)
    BY <2>1, RecordsMove
  <2>3. PICK w \in Worker : Updates(w, g)
    BY <2>2 DEF RecordMoves, Inserts, Removes, HasRow
  <2> QED
    BY <2>3 DEF Updates, Overlay, WrittenFields
<1> HIDE DEF A
<1>2. Spec /\ []Apart => [][A]_vars
  BY <1>1, WholeAlways, PTL DEF Spec
<1> QED
  BY <1>2 DEF UnclaimedFieldsKept, A
=============================================================================
