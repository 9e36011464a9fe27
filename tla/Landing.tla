------------------------------- MODULE Landing -------------------------------
(****************************************************************************)
(* The landing tier, and the promotion of its rows to staging: tier 1, and  *)
(* the step from tier 1 to tier 2.                                          *)
(*                                                                          *)
(* A write request lands its rows in a first transaction, promotes the      *)
(* pending rows of the entity in a second one, answers, and commits the     *)
(* session that holds its audit event and promotion batch in a third.  A    *)
(* request can die between any two of them, and requests overlap.           *)
(*                                                                          *)
(* What a record says is left to Records and Stewardship; here a row only   *)
(* has a kind, which tells how far it can travel:                           *)
(*   plain       it is staged, flagged valid or invalid                     *)
(*   raises      its validation raises in Python, before any statement      *)
(*   breaks      a statement of its promotion is refused by the database    *)
(*   unlandable  its INSERT into landing is refused by the database         *)
(* The third is a record_id that is not a uuid, or a value staging cannot   *)
(* store; the fourth a record_id longer than its column.                    *)
(****************************************************************************)
EXTENDS Integers, FiniteSets, Sequences

CONSTANTS
  Worker,       \* requests that can be in flight together
  Key,          \* idempotency keys
  Submission,   \* bound: what clients send, [via, key, rows]
  MaxBatch,     \* bound: the rows of one submission
  MaxCalls,     \* bound: requests in a behaviour
  MaxBulkRows,  \* settings.MAX_BULK_ROWS
  Limit,        \* rows one promotion takes
  AutoPromote,  \* settings.AUTO_PROMOTE_LANDING
  MayCrash,     \* whether the behaviours include crashes
  None          \* no key

Kind == {"plain", "raises", "breaks", "unlandable"}

Rows == UNION {[1..n -> Kind] : n \in 1..MaxBatch}

ASSUME LandingAssumption ==
  /\ MaxBatch \in Nat
  /\ MaxCalls \in Nat
  /\ MaxBulkRows \in Nat \ {0}
  /\ Limit \in Nat
  /\ AutoPromote \in BOOLEAN
  /\ MayCrash \in BOOLEAN
  /\ None \notin Key
  /\ Submission \subseteq [via : {"single", "bulk", "csv"}, key : Key \cup {None}, rows : Rows]
  /\ \A s \in Submission : s.key # None => s.via = "single"
  /\ \A s \in Submission : s.via = "single" => Len(s.rows) = 1

\* Bound: as many as the calls of a behaviour can land.
LandingId == 1..(MaxCalls * MaxBatch)

VARIABLES
  landing,  \* mdm_landing.<entity>, with mdm_landing_id as the index
  staged,   \* how many staging rows carry each mdm_landing_id
  next,     \* the sequence behind mdm_landing_id
  journal,  \* the committed audit events and promotion batches
  acked,    \* what clients were told: a 202 for these rows under this key,
            \* and whether it answered a single write
  req,      \* the request each worker is serving
  calls     \* requests left

vars == <<landing, staged, next, journal, acked, req, calls>>

Row == [status : {"absent", "pending", "promoted", "error"},
        key : Key \cup {None}, kind : Kind \cup {None}]

NoRow == [status |-> "absent", key |-> None, kind |-> None]

Entry == [what : {"write", "batch"}, ids : SUBSET LandingId]

Request ==
  [pc : {"idle", "lookup", "insert", "commit", "promote", "stage", "answer", "close"},
   single : BOOLEAN, key : Key \cup {None}, rows : Rows \cup {<<>>}, own : SUBSET LandingId,
   batch : SUBSET LandingId, log : SUBSET Entry]

Idle == [pc |-> "idle", single |-> FALSE, key |-> None, rows |-> <<>>, own |-> {},
         batch |-> {}, log |-> {}]

Init ==
  /\ landing = [i \in LandingId |-> NoRow]
  /\ staged = [i \in LandingId |-> 0]
  /\ next = 1
  /\ journal = {}
  /\ acked = {}
  /\ req = [w \in Worker |-> Idle]
  /\ calls = MaxCalls

Goto(w, pc) == req' = [req EXCEPT ![w].pc = pc]

\* An exception: the open transaction and the session roll back, and the
\* client gets a 500.  Nothing committed before is undone.
Fail(w) ==
  /\ req' = [req EXCEPT ![w] = Idle]
  /\ UNCHANGED <<landing, staged, journal, acked, calls>>

Crash(w) == MayCrash /\ req[w].pc # "idle" /\ Fail(w) /\ UNCHANGED next

----------------------------------------------------------------------------
(* Requests begin.                                                          *)

Begin(w, pc, single, key, rows) ==
  /\ req[w].pc = "idle"
  /\ calls > 0
  /\ calls' = calls - 1
  /\ req' = [req EXCEPT ![w] =
       [Idle EXCEPT !.pc = pc, !.single = single, !.key = key, !.rows = rows]]
  /\ UNCHANGED <<landing, staged, next, journal, acked>>

\* A bulk write over the limit is refused before anything is written.
Refused(s) == s.via = "bulk" /\ Len(s.rows) > MaxBulkRows

\* A CSV file is read up to the limit; the rows behind it are not.
Taken(s) ==
  IF s.via = "csv" /\ Len(s.rows) > MaxBulkRows THEN SubSeq(s.rows, 1, MaxBulkRows) ELSE s.rows

\* _write, bulk_write and import_csv: only a single write carries a key.
Submit(w) ==
  \E s \in Submission :
    /\ ~Refused(s)
    /\ Begin(w, IF s.key # None THEN "lookup" ELSE "insert", s.via = "single", s.key, Taken(s))

\* run_promotion.  A bulk write or a file without rows is one with another answer.
RunPromotion(w) == Begin(w, "promote", FALSE, None, <<>>)

----------------------------------------------------------------------------
(* The first transaction: write_to_landing for every row.                   *)

WithKey(key) == {i \in LandingId : landing[i].status # "absent" /\ landing[i].key = key}

\* Variant: the lookup sees rows that are not committed.
LookUpDirty(w) ==
  LET known == WithKey(req[w].key) \cup
        UNION {req[v].own : v \in {u \in Worker : req[u].key = req[w].key}} IN
  /\ req[w].pc = "lookup"
  /\ \/ /\ known = {}
        /\ Goto(w, "insert")
     \/ \E i \in known :
          req' = [req EXCEPT ![w] = [@ EXCEPT !.own = {i}, !.pc = "answer"]]
  /\ UNCHANGED <<landing, staged, next, journal, acked, calls>>

\* A key already seen returns the original write and drives no promotion.
LookUp(w) ==
  LET known == WithKey(req[w].key) IN
  /\ req[w].pc = "lookup"
  /\ \/ /\ known = {}
        /\ Goto(w, "insert")
     \/ \E i \in known :
          req' = [req EXCEPT ![w] = [@ EXCEPT !.own = {i}, !.pc = "answer"]]
  /\ UNCHANGED <<landing, staged, next, journal, acked, calls>>

\* Variant: no unique index on the key.
KeyTakenNever(key) == FALSE

\* The unique index: a row of another request holds the key.
KeyTaken(key) == key # None /\ WithKey(key) # {}

\* A key inserted by a transaction still open makes the INSERT wait for it.
KeyContended(w) ==
  /\ req[w].key # None
  /\ \E v \in Worker \ {w} : req[v].pc = "commit" /\ req[v].key = req[w].key

Insert(w) ==
  LET r == req[w] IN
  /\ r.pc = "insert"
  /\ ~KeyContended(w)
  /\ \/ /\ KeyTaken(r.key) \/ \E n \in DOMAIN r.rows : r.rows[n] = "unlandable"
        /\ Fail(w)
        /\ UNCHANGED next
     \/ /\ ~KeyTaken(r.key)
        /\ \A n \in DOMAIN r.rows : r.rows[n] # "unlandable"
        /\ next + Len(r.rows) - 1 \in LandingId    \* the bound, never reached
        /\ req' = [req EXCEPT ![w] = [@ EXCEPT !.own = next..(next + Len(r.rows) - 1),
                                               !.pc = "commit"]]
        /\ next' = next + Len(r.rows)
        /\ UNCHANGED <<landing, staged, journal, acked, calls>>

\* Variant: the key is not stored.
LandedKeyless(r, i) == [status |-> "pending", key |-> None, kind |-> r.rows[1]]

\* The rows of the request, in the order of the sequence.
Landed(r, i) ==
  [status |-> "pending", key |-> r.key,
   kind |-> r.rows[Cardinality({j \in r.own : j <= i})]]

Commit(w) ==
  LET r == req[w] IN
  /\ r.pc = "commit"
  /\ landing' = [i \in LandingId |-> IF i \in r.own THEN Landed(r, i) ELSE landing[i]]
  /\ Goto(w, IF AutoPromote THEN "promote" ELSE "answer")
  /\ UNCHANGED <<staged, next, journal, acked, calls>>

----------------------------------------------------------------------------
(* The second transaction: promote_landing_to_staging.                      *)

Pending == {i \in LandingId : landing[i].status = "pending"}

\* order by mdm_landing_id limit :lim
Oldest(ids) == {i \in ids : Cardinality({j \in ids : j < i}) < Limit}

\* The pending rows are read without a lock: another promotion may be working
\* on them.
Select(w) ==
  /\ req[w].pc = "promote"
  /\ req' = [req EXCEPT ![w] = [@ EXCEPT !.batch = Oldest(Pending), !.pc = "stage"]]
  /\ UNCHANGED <<landing, staged, next, journal, acked, calls>>

\* Variant: a status the code does not know.
SettledOddly(row) == [row EXCEPT !.status = "done"]

\* What becomes of a row: staged, or put aside because it raised.
Settled(row) == [row EXCEPT !.status = IF row.kind = "raises" THEN "error" ELSE "promoted"]

\* The rows a batch stages.
StagedOf(batch) == {i \in batch : landing[i].kind # "raises"}

\* Variant: an exception of any row ends the promotion.
SpoiledByAny(batch) == \E i \in batch : landing[i].kind \in {"breaks", "raises"}

\* A refused statement leaves the transaction unusable, so the handler that
\* was to record the error of that one row fails as well.
Spoiled(batch) == \E i \in batch : landing[i].kind = "breaks"

\* Variant: the landing rows stay pending.
StageUnmarked(w) ==
  LET r == req[w] IN
  /\ r.pc = "stage"
  /\ ~Spoiled(r.batch)
  /\ staged' = [i \in LandingId |-> IF i \in StagedOf(r.batch) THEN staged[i] + 1 ELSE staged[i]]
  /\ Goto(w, "answer")
  /\ UNCHANGED <<landing, next, journal, acked, calls>>

\* Insert the staging rows and update the landing rows, by identifier alone:
\* whatever their status is by now.
Stage(w) ==
  LET r == req[w] IN
  /\ r.pc = "stage"
  /\ \/ /\ Spoiled(r.batch)
        /\ Fail(w)
     \/ /\ ~Spoiled(r.batch)
        /\ landing' = [i \in LandingId |->
                         IF i \in r.batch THEN Settled(landing[i]) ELSE landing[i]]
        /\ staged' = [i \in LandingId |->
                        IF i \in StagedOf(r.batch) THEN staged[i] + 1 ELSE staged[i]]
        /\ req' = [req EXCEPT ![w] = [@ EXCEPT
             !.pc = "answer", !.log = r.log \cup {[what |-> "batch", ids |-> r.batch]}]]
        /\ UNCHANGED <<journal, acked, calls>>
  /\ UNCHANGED next

----------------------------------------------------------------------------
(* The answer, then the third transaction: get_db commits the session after *)
(* the response was sent.  Only a single write adds an audit event to it.   *)

IsWrite(r) == r.own # {}

\* Variant: only a write with a key is recorded.
FiledIfKeyed(r) == r.single /\ r.key # None

\* Whether an event is added: by _write, not by bulk_write and import_csv.
Filed(r) == r.single

Answer(w) ==
  LET r == req[w] IN
  /\ r.pc = "answer"
  /\ acked' = IF IsWrite(r) THEN acked \cup {[single |-> r.single, key |-> r.key, ids |-> r.own]} ELSE acked
  /\ req' = [req EXCEPT ![w] = [@ EXCEPT !.pc = "close",
       !.log = IF IsWrite(r) /\ Filed(r)
               THEN r.log \cup {[what |-> "write", ids |-> r.own]} ELSE r.log]]
  /\ UNCHANGED <<landing, staged, next, journal, calls>>

Close(w) ==
  /\ req[w].pc = "close"
  /\ journal' = journal \cup req[w].log
  /\ req' = [req EXCEPT ![w] = Idle]
  /\ UNCHANGED <<landing, staged, next, acked, calls>>

----------------------------------------------------------------------------
\* A request that was accepted runs on; nothing makes clients send one.
Run(w) ==
  \/ LookUp(w) \/ Insert(w) \/ Commit(w)
  \/ Select(w) \/ Stage(w)
  \/ Answer(w) \/ Close(w)

Next == \E w \in Worker : Submit(w) \/ RunPromotion(w) \/ Run(w) \/ Crash(w)

Spec == Init /\ [][Next]_vars

FairSpec == Spec /\ \A w \in Worker : WF_vars(Run(w))

----------------------------------------------------------------------------
(* What the tier promises.                                                  *)

\* Landing rows, staging counts and requests have the shape the code gives them.
TypeOK ==
  /\ landing \in [LandingId -> Row]
  /\ staged \in [LandingId -> Nat]
  /\ next \in 1..(MaxCalls * MaxBatch + 1)
  /\ journal \subseteq Entry
  /\ acked \subseteq [single : BOOLEAN, key : Key \cup {None}, ids : SUBSET LandingId]
  /\ req \in [Worker -> Request]
  /\ calls \in 0..MaxCalls

\* However often a write is retried, and however its retries overlap, its key
\* names one landing row (the lookup and the unique index of write_to_landing).
OneRowPerKey ==
  \A k \in Key : \A i, j \in WithKey(k) : i = j

\* What a client was told was accepted is in the landing tier, under the key it
\* used, and different writes were not given the same row, whatever crashed since
\* ("losing an inbound message is worse than storing a bad one").
AcceptedIsLanded ==
  \A a, b \in acked :
    /\ a.ids # {}
    /\ \A i \in a.ids : landing[i].status # "absent" /\ landing[i].key = a.key
    /\ a # b => a.ids \cap b.ids = {}

\* As long as requests do not overlap, a landing row is staged once when it is
\* marked promoted, and not at all otherwise, whatever crashes and retries.
StagedOnce ==
  \A i \in LandingId : staged[i] = IF landing[i].status = "promoted" THEN 1 ELSE 0

\* Without crashes, once no request is in flight every promoted row is in a
\* committed promotion batch and every accepted single write, a repeated one
\* included, in a committed audit event: three transactions have left the
\* tables consistent.
OnRecord ==
  (\A w \in Worker : req[w].pc = "idle") =>
    /\ \A i \in LandingId : landing[i].status = "promoted" =>
         \E e \in journal : e.what = "batch" /\ i \in e.ids
    /\ \A a \in acked : a.single =>
         \E e \in journal : e.what = "write" /\ e.ids = a.ids

\* A landed row that no statement breaks on does not stay pending: it is staged
\* or put aside with its error (the per-row isolation of
\* promote_landing_to_staging, and the promotion every write drives).
PendingIsSettled ==
  \A i \in LandingId :
    landing[i].status = "pending" /\ landing[i].kind # "breaks"
      ~> landing[i].status # "pending"
=============================================================================
