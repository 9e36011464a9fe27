---------------------------- MODULE Landing_proofs ----------------------------
(* A key names one landing row, and what was accepted is landed, for any     *)
(* number of overlapping requests and crashes; what was done is on record    *)
(* without crashes, and no row is staged twice while promotions keep apart.  *)
EXTENDS Landing, FiniteSetTheorems, SequenceTheorems, TLAPS

(* A submission is a sequence of kinds, and not an empty one. *)
LEMMA RowsAreSequences ==
  ASSUME NEW r \in Rows
  PROVE  /\ r \in Seq(Kind)
         /\ Len(r) \in 1..MaxBatch
         /\ DOMAIN r = 1..Len(r)
         /\ \A n \in 1..Len(r) : r[n] \in Kind
<1>1. PICK n \in 1..MaxBatch : r \in [1..n -> Kind]
  BY DEF Rows
<1>2. n \in Nat /\ r \in Seq(Kind)
  BY <1>1, SeqDef, LandingAssumption
<1>3. DOMAIN r = 1..n /\ DOMAIN r = 1..Len(r) /\ Len(r) \in Nat
  BY <1>1, <1>2, LenProperties
<1>4. Len(r) = n
  BY <1>2, <1>3
<1> QED
  BY <1>1, <1>2, <1>3, <1>4

(* What a request holds: the rows it was sent, one if they have a key, as    *)
(* only a single write does, and, from its INSERT to its commit, a block of  *)
(* identifiers as long as they are.                                          *)
Holds(r) ==
  /\ r.pc \in {"lookup", "insert", "commit"} => r.rows \in Rows
  /\ r.key # None => r.single /\ r.rows \in Rows /\ Len(r.rows) = 1
  /\ r.pc = "commit" => \E a \in LandingId : r.own = a..(a + Len(r.rows) - 1)

Typed == TypeOK /\ \A w \in Worker : Holds(req[w])

(* A request that moves on without taking rows or identifiers holds what it held. *)
LEMMA MoveTypes ==
  ASSUME Typed, NEW w \in Worker,
         NEW x \in Request, Holds(x), req' = [req EXCEPT ![w] = x]
  PROVE  req' \in [Worker -> Request] /\ \A v \in Worker : Holds(req'[v])
BY DEF Typed, TypeOK

(* The kind of the i-th row of a block is that of the i-th row submitted. *)
LEMMA LandedTypes ==
  ASSUME Typed, NEW w \in Worker, req[w].pc = "commit", NEW i \in req[w].own
  PROVE  Landed(req[w], i) \in Row
<1> DEFINE r == req[w]
<1>1. r \in Request /\ r.rows \in Rows
  BY DEF Typed, TypeOK, Holds
<1>2. PICK a \in LandingId : r.own = a..(a + Len(r.rows) - 1)
  BY DEF Typed, Holds
<1>3. Len(r.rows) \in Nat /\ \A n \in 1..Len(r.rows) : r.rows[n] \in Kind
  BY <1>1, RowsAreSequences
<1>4. a \in Int /\ i \in Int /\ a <= i /\ i <= a + Len(r.rows) - 1
  BY <1>2, <1>3 DEF LandingId
<1>5. {j \in r.own : j <= i} = a..i
  BY <1>2, <1>3, <1>4
<1>6. Cardinality(a..i) = i - a + 1
  BY <1>4, FS_Interval
<1>7. Cardinality({j \in r.own : j <= i}) \in 1..Len(r.rows)
  <2>1. Cardinality({j \in r.own : j <= i}) = i - a + 1
    BY <1>5, <1>6, Zenon
  <2>2. i - a + 1 \in 1..Len(r.rows)
    BY <1>3, <1>4
  <2> QED
    BY <2>1, <2>2
<1>8. r.rows[Cardinality({j \in r.own : j <= i})] \in Kind
  BY <1>3, <1>7
<1>9. r.key \in Key \cup {None}
  BY <1>1 DEF Request
<1> QED
  BY <1>8, <1>9 DEF Landed, Row

(* Each operation keeps the types.  A request begins. *)
LEMMA BeginTypes ==
  ASSUME Typed, NEW w \in Worker, NEW pc \in {"lookup", "insert", "promote"},
         NEW single \in BOOLEAN, NEW key \in Key \cup {None}, NEW rows \in Rows \cup {<<>>},
         pc # "promote" => rows \in Rows,
         key # None => single /\ rows \in Rows /\ Len(rows) = 1,
         Begin(w, pc, single, key, rows)
  PROVE  Typed'
<1> DEFINE x == [Idle EXCEPT !.pc = pc, !.single = single, !.key = key, !.rows = rows]
<1>1. x \in Request /\ Holds(x)
  BY DEF Idle, Request, Holds
<1>2. req' = [req EXCEPT ![w] = x]
  BY DEF Begin
<1>3. req' \in [Worker -> Request] /\ \A v \in Worker : Holds(req'[v])
  BY <1>1, <1>2, MoveTypes
<1>4. calls' \in 0..MaxCalls
  BY LandingAssumption DEF Begin, Typed, TypeOK
<1> QED
  BY <1>3, <1>4 DEF Begin, Typed, TypeOK

(* What is taken of a submission: rows of the bound, and one of a keyed one. *)
LEMMA TakenRows ==
  ASSUME NEW s \in Submission
  PROVE  /\ s.key \in Key \cup {None} /\ Taken(s) \in Rows
         /\ s.key # None => s.via = "single" /\ Len(Taken(s)) = 1
<1>1. /\ s.key \in Key \cup {None} /\ s.rows \in Rows
      /\ s.key # None => s.via = "single" /\ Len(s.rows) = 1
  BY LandingAssumption
<1>2. CASE s.via = "csv" /\ Len(s.rows) > MaxBulkRows
  <2>1. /\ Len(s.rows) \in 1..MaxBatch /\ s.rows \in [1..Len(s.rows) -> Kind]
        /\ MaxBulkRows \in Nat \ {0} /\ MaxBatch \in Nat
    BY <1>1, RowsAreSequences, LandingAssumption
  <2>2. SubSeq(s.rows, 1, MaxBulkRows) = [n \in 1..MaxBulkRows |-> s.rows[n]]
    BY <1>2, <2>1
  <2>3. MaxBulkRows \in 1..MaxBatch /\ \A n \in 1..MaxBulkRows : s.rows[n] \in Kind
    BY <1>2, <2>1
  <2>4. [n \in 1..MaxBulkRows |-> s.rows[n]] \in Rows
    BY <2>3 DEF Rows
  <2> QED
    BY <1>1, <1>2, <2>2, <2>4 DEF Taken
<1>3. CASE ~(s.via = "csv" /\ Len(s.rows) > MaxBulkRows)
  BY <1>1, <1>3 DEF Taken
<1> QED
  BY <1>2, <1>3

(* A write begins. *)
LEMMA SubmitTypes ==
  ASSUME Typed, NEW w \in Worker, Submit(w)
  PROVE  Typed'
<1>1. PICK s \in Submission :
        Begin(w, IF s.key # None THEN "lookup" ELSE "insert", s.via = "single", s.key, Taken(s))
  BY DEF Submit
<1> QED
  BY <1>1, TakenRows, BeginTypes

(* A failure or a crash. *)
LEMMA FailTypes ==
  ASSUME Typed, NEW w \in Worker, Fail(w), next' = next
  PROVE  Typed'
<1>1. Idle \in Request /\ Holds(Idle)
  BY DEF Idle, Request, Holds
<1>2. req' \in [Worker -> Request] /\ \A v \in Worker : Holds(req'[v])
  BY <1>1, MoveTypes DEF Fail
<1> QED
  BY <1>2 DEF Fail, Typed, TypeOK

(* The lookup of a key. *)
LEMMA LookUpTypes ==
  ASSUME Typed, NEW w \in Worker, LookUp(w)
  PROVE  Typed'
<1>1. req[w] \in Request /\ Holds(req[w]) /\ req[w].pc = "lookup"
  BY DEF Typed, TypeOK, LookUp
<1>2. CASE Goto(w, "insert")
  <2> DEFINE x == [req[w] EXCEPT !.pc = "insert"]
  <2>1. x \in Request /\ Holds(x) /\ req' = [req EXCEPT ![w] = x]
    BY <1>1, <1>2 DEF Request, Holds, Goto
  <2>2. req' \in [Worker -> Request] /\ \A v \in Worker : Holds(req'[v])
    BY <2>1, MoveTypes
  <2> QED
    BY <2>2 DEF LookUp, Typed, TypeOK
<1>3. CASE ~Goto(w, "insert")
  <2>1. PICK i \in LandingId :
          req' = [req EXCEPT ![w] = [@ EXCEPT !.own = {i}, !.pc = "answer"]]
    BY <1>3 DEF LookUp, WithKey
  <2> DEFINE x == [req[w] EXCEPT !.own = {i}, !.pc = "answer"]
  <2>2. x \in Request /\ Holds(x) /\ req' = [req EXCEPT ![w] = x]
    BY <1>1, <2>1 DEF Request, Holds
  <2>3. req' \in [Worker -> Request] /\ \A v \in Worker : Holds(req'[v])
    BY <2>2, MoveTypes
  <2> QED
    BY <2>3 DEF LookUp, Typed, TypeOK
<1> QED
  BY <1>2, <1>3

(* An INSERT: the identifiers are within the bound. *)
LEMMA InsertTypes ==
  ASSUME Typed, NEW w \in Worker, Insert(w)
  PROVE  Typed'
<1>1. req[w] \in Request /\ Holds(req[w]) /\ req[w].pc = "insert" /\ req[w].rows \in Rows
  BY DEF Typed, TypeOK, Insert, Holds
<1>2. CASE Fail(w) /\ next' = next
  BY <1>2, FailTypes
<1>3. CASE ~(Fail(w) /\ next' = next)
  <2> DEFINE own == next..(next + Len(req[w].rows) - 1)
             x == [req[w] EXCEPT !.own = own, !.pc = "commit"]
  <2>1. /\ next' = next + Len(req[w].rows)
        /\ next + Len(req[w].rows) - 1 \in LandingId
        /\ req' = [req EXCEPT ![w] = x]
        /\ UNCHANGED <<landing, staged, journal, acked, calls>>
    BY <1>3 DEF Insert
  <2>2. Len(req[w].rows) \in Nat \ {0}
    BY <1>1, RowsAreSequences
  <2>3. next \in LandingId /\ own \subseteq LandingId /\ next' \in 1..(MaxCalls * MaxBatch + 1)
    <3> DEFINE m == MaxCalls * MaxBatch
    <3>1. m \in Nat /\ LandingId = 1..m /\ next \in 1..(m + 1)
      BY LandingAssumption DEF LandingId, Typed, TypeOK
    <3> HIDE DEF m
    <3> QED
      BY <2>1, <2>2, <3>1 DEF m
  <2>4. x \in Request /\ Holds(x)
    <3> HIDE DEF own
    <3>1. x \in Request /\ x.rows = req[w].rows /\ x.key = req[w].key /\ x.own = own
                        /\ x.pc = "commit"
      BY <1>1, <2>3 DEF Request
    <3> QED
      BY <1>1, <2>3, <3>1 DEF Holds, own
  <2>5. req' \in [Worker -> Request] /\ \A v \in Worker : Holds(req'[v])
    BY <2>1, <2>4, MoveTypes
  <2> QED
    BY <2>1, <2>3, <2>5 DEF Typed, TypeOK
<1> QED
  BY <1>2, <1>3

(* The landing commit. *)
LEMMA CommitTypes ==
  ASSUME Typed, NEW w \in Worker, Commit(w)
  PROVE  Typed'
<1> DEFINE pc == IF AutoPromote THEN "promote" ELSE "answer"
           x == [req[w] EXCEPT !.pc = pc]
<1>1. req[w] \in Request /\ Holds(req[w]) /\ req[w].pc = "commit"
  BY DEF Typed, TypeOK, Commit
<1>2. x \in Request /\ Holds(x) /\ req' = [req EXCEPT ![w] = x]
  BY <1>1 DEF Request, Holds, Commit, Goto
<1>3. req' \in [Worker -> Request] /\ \A v \in Worker : Holds(req'[v])
  BY <1>2, MoveTypes
<1>4. landing' \in [LandingId -> Row]
  BY <1>1, LandedTypes DEF Commit, Typed, TypeOK
<1> QED
  BY <1>3, <1>4 DEF Commit, Typed, TypeOK

(* The read of a promotion. *)
LEMMA SelectTypes ==
  ASSUME Typed, NEW w \in Worker, Select(w)
  PROVE  Typed'
<1> DEFINE x == [req[w] EXCEPT !.batch = Oldest(Pending), !.pc = "stage"]
<1>1. req[w] \in Request /\ Holds(req[w]) /\ req[w].pc = "promote"
  BY DEF Typed, TypeOK, Select
<1>2. Oldest(Pending) \subseteq LandingId
  BY DEF Oldest, Pending
<1>3. x \in Request /\ Holds(x) /\ req' = [req EXCEPT ![w] = x]
  BY <1>1, <1>2 DEF Request, Holds, Select
<1>4. req' \in [Worker -> Request] /\ \A v \in Worker : Holds(req'[v])
  BY <1>3, MoveTypes
<1> QED
  BY <1>4 DEF Select, Typed, TypeOK

(* The writes of a promotion. *)
LEMMA StageTypes ==
  ASSUME Typed, NEW w \in Worker, Stage(w)
  PROVE  Typed'
<1>1. req[w] \in Request /\ Holds(req[w]) /\ req[w].pc = "stage"
  BY DEF Typed, TypeOK, Stage
<1>2. CASE Fail(w) /\ next' = next
  BY <1>2, FailTypes
<1>3. CASE ~(Fail(w) /\ next' = next)
  <2> DEFINE e == [what |-> "batch", ids |-> req[w].batch]
             x == [req[w] EXCEPT !.pc = "answer", !.log = @ \cup {e}]
  <2>1. e \in Entry
    BY <1>1 DEF Entry, Request
  <2>2. req' = [req EXCEPT ![w] = x]
    BY <1>3 DEF Stage
  <2>3. x \in Request /\ Holds(x)
    <3> HIDE DEF e
    <3> QED
      BY <1>1, <2>1 DEF Request, Holds
  <2>4. req' \in [Worker -> Request] /\ \A v \in Worker : Holds(req'[v])
    BY <2>2, <2>3, MoveTypes
  <2>5. landing' \in [LandingId -> Row] /\ staged' \in [LandingId -> Nat]
    BY <1>3 DEF Stage, Typed, TypeOK, Settled, Row
  <2> QED
    BY <1>3, <2>4, <2>5 DEF Stage, Typed, TypeOK
<1> QED
  BY <1>2, <1>3

(* The answer. *)
LEMMA AnswerTypes ==
  ASSUME Typed, NEW w \in Worker, Answer(w)
  PROVE  Typed'
<1> DEFINE e == [what |-> "write", ids |-> req[w].own]
           log == IF IsWrite(req[w]) /\ Filed(req[w]) THEN req[w].log \cup {e} ELSE req[w].log
           x == [req[w] EXCEPT !.pc = "close", !.log = log]
<1>1. req[w] \in Request /\ Holds(req[w]) /\ req[w].pc = "answer"
  BY DEF Typed, TypeOK, Answer
<1>2. log \subseteq Entry
  BY <1>1 DEF Entry, Request
<1>3. req' = [req EXCEPT ![w] = x]
  BY DEF Answer
<1>4. x \in Request /\ Holds(x)
  <2> HIDE DEF log
  <2> QED
    BY <1>1, <1>2 DEF Request, Holds
<1>5. req' \in [Worker -> Request] /\ \A v \in Worker : Holds(req'[v])
  BY <1>3, <1>4, MoveTypes
<1>6. acked' \subseteq [single : BOOLEAN, key : Key \cup {None}, ids : SUBSET LandingId]
  BY <1>1 DEF Answer, Typed, TypeOK, Request
<1> QED
  BY <1>5, <1>6 DEF Answer, Typed, TypeOK

(* The session commit. *)
LEMMA CloseTypes ==
  ASSUME Typed, NEW w \in Worker, Close(w)
  PROVE  Typed'
<1>1. Idle \in Request /\ Holds(Idle)
  BY DEF Idle, Request, Holds
<1>2. req' \in [Worker -> Request] /\ \A v \in Worker : Holds(req'[v])
  BY <1>1, MoveTypes DEF Close
<1>3. journal' \subseteq Entry
  BY DEF Close, Typed, TypeOK, Request
<1> QED
  BY <1>2, <1>3 DEF Close, Typed, TypeOK

(* Landing rows, counters and requests keep the shape the code gives them, *)
(* however requests overlap and crash.                                      *)
LEMMA TypedAlways == Spec => []Typed
<1>1. Init => Typed
  <2> SUFFICES ASSUME Init PROVE Typed
    OBVIOUS
  <2>1. Idle \in Request /\ Holds(Idle)
    BY DEF Idle, Request, Holds
  <2>2. MaxCalls * MaxBatch \in Nat
    BY LandingAssumption
  <2> QED
    BY <2>1, <2>2, LandingAssumption DEF Init, Typed, TypeOK, Row, NoRow
<1>2. Typed /\ [Next]_vars => Typed'
  <2> SUFFICES ASSUME Typed, [Next]_vars PROVE Typed'
    OBVIOUS
  <2>1. CASE UNCHANGED vars
    BY <2>1 DEF vars, Typed, TypeOK
  <2>2. ASSUME NEW w \in Worker, RunPromotion(w) PROVE Typed'
    BY <2>2, BeginTypes DEF RunPromotion
  <2>3. ASSUME NEW w \in Worker, Crash(w) PROVE Typed'
    BY <2>3, FailTypes DEF Crash
  <2>4. ASSUME NEW w \in Worker, Run(w) PROVE Typed'
    BY <2>4, LookUpTypes, InsertTypes, CommitTypes, SelectTypes, StageTypes, AnswerTypes,
       CloseTypes DEF Run
  <2> QED
    BY <2>1, <2>2, <2>3, <2>4, SubmitTypes DEF Next
<1> QED
  BY <1>1, <1>2, PTL DEF Spec

(* The type invariant of the run LandingSeq, for every number of requests.  *)
THEOREM TypeCorrect == Spec => []TypeOK
BY TypedAlways, PTL DEF Typed

----------------------------------------------------------------------------
(* Identifiers.  A request owns identifiers below the sequence; their rows   *)
(* are absent until it commits and carry its key from then on.               *)

Moved == {"promote", "stage", "answer", "close"}

OwnSound(r) ==
  /\ \A i \in r.own : i < next
  /\ \A i \in r.batch : landing[i].status # "absent"
  /\ r.pc \in {"idle", "lookup", "insert"} => r.own = {}
  /\ r.pc = "commit" => \A i \in r.own : landing[i].status = "absent"
  /\ r.pc \in Moved => \A i \in r.own : landing[i].status # "absent" /\ landing[i].key = r.key
  /\ r.key # None /\ r.own # {} => \E i \in LandingId : r.own = {i}

Numbered ==
  \A i \in LandingId : IF landing[i].status = "absent" THEN landing[i].key = None ELSE i < next

BlocksApart ==
  \A v, w \in Worker :
    v # w /\ req[v].pc = "commit" /\ req[w].pc = "commit" => req[v].own \cap req[w].own = {}

Owned == Numbered /\ BlocksApart /\ \A w \in Worker : OwnSound(req[w])

(* A promotion neither adds a row nor changes the key of one. *)
LEMMA StageKeepsRows ==
  ASSUME Typed, Owned, NEW w \in Worker, Stage(w)
  PROVE  \A i \in LandingId :
           /\ landing'[i].key = landing[i].key
           /\ landing'[i].status = "absent" <=> landing[i].status = "absent"
<1> SUFFICES ASSUME NEW i \in LandingId
             PROVE  /\ landing'[i].key = landing[i].key
                    /\ landing'[i].status = "absent" <=> landing[i].status = "absent"
  OBVIOUS
<1>1. landing[i] \in Row /\ (i \in req[w].batch => landing[i].status # "absent")
  BY DEF Typed, TypeOK, Owned, OwnSound
<1>2. \/ landing'[i] = landing[i]
      \/ i \in req[w].batch /\ landing'[i] = Settled(landing[i])
  BY DEF Stage, Fail, Typed, TypeOK
<1> QED
  BY <1>1, <1>2 DEF Settled, Row

(* A commit adds the rows of its request, and only those. *)
LEMMA CommitLands ==
  ASSUME Typed, Owned, NEW w \in Worker, Commit(w)
  PROVE  \A i \in LandingId :
           IF i \in req[w].own
           THEN /\ landing[i].status = "absent"
                /\ landing'[i].status = "pending" /\ landing'[i].key = req[w].key
           ELSE landing'[i] = landing[i]
BY DEF Commit, Landed, Typed, TypeOK, Owned, OwnSound

(* The other requests keep their own part when one moves on. *)
LEMMA OthersOwn ==
  ASSUME Typed, Owned, NEW v \in Worker,
         req'[v] = req[v], next' \in Int, next' >= next,
         \A i \in LandingId :
           landing[i].status # "absent" =>
             landing'[i].status # "absent" /\ landing'[i].key = landing[i].key,
         req[v].pc = "commit" =>
           \A i \in req[v].own : landing'[i].status = "absent"
  PROVE  OwnSound(req[v])'
<1> DEFINE r == req[v]
<1>1. /\ OwnSound(r) /\ next \in Int /\ LandingId \subseteq Int
      /\ r.own \subseteq LandingId /\ r.batch \subseteq LandingId
  BY DEF Typed, TypeOK, Owned, LandingId, Request
<1> HIDE DEF r
<1>2. /\ \A i \in r.own : i < next'
      /\ \A i \in r.batch : landing'[i].status # "absent"
  <2>1. \A i \in r.own : i \in Int /\ i < next
    BY <1>1 DEF OwnSound
  <2>2. \A i \in r.own : i < next'
    BY <1>1, <2>1
  <2>3. \A i \in r.batch : landing'[i].status # "absent"
    BY <1>1 DEF OwnSound
  <2> QED
    BY <2>2, <2>3
<1>3. r.pc \in Moved => \A i \in r.own : landing'[i].status # "absent" /\ landing'[i].key = r.key
  BY <1>1 DEF OwnSound
<1>4. /\ r.pc \in {"idle", "lookup", "insert"} => r.own = {}
      /\ r.key # None /\ r.own # {} => \E i \in LandingId : r.own = {i}
  BY <1>1 DEF OwnSound
<1> QED
  BY <1>2, <1>3, <1>4 DEF OwnSound, r

(* A step that leaves the rows and the sequence alone. *)
LEMMA QuietOwned ==
  ASSUME Typed, Owned, NEW w \in Worker, NEW x \in Request, req' = [req EXCEPT ![w] = x],
         landing' = landing, next' = next, OwnSound(x),
         x.pc = "commit" => req[w].pc = "commit" /\ x.own = req[w].own
  PROVE  Owned'
<1>1. /\ req'[w] = x
      /\ \A v \in Worker \ {w} : req'[v] = req[v]
  BY DEF Typed, TypeOK
<1>2. OwnSound(req[w])'
  BY <1>1 DEF OwnSound
<1>3. ASSUME NEW v \in Worker \ {w} PROVE OwnSound(req[v])'
  BY <1>1, <1>3 DEF OwnSound, Owned
<1>4. Numbered'
  BY DEF Numbered, Owned
<1>5. BlocksApart'
  BY <1>1 DEF BlocksApart, Owned
<1> QED
  BY <1>2, <1>3, <1>4, <1>5 DEF Owned

(* A failure gives up what the request owned. *)
LEMMA FailOwned ==
  ASSUME Typed, Owned, NEW w \in Worker, Fail(w), next' = next
  PROVE  Owned'
<1>1. Idle \in Request /\ OwnSound(Idle) /\ Idle.pc # "commit"
  BY DEF Idle, Request, OwnSound, Moved
<1> QED
  BY <1>1, QuietOwned DEF Fail

(* A request begins with nothing. *)
LEMMA BeginOwned ==
  ASSUME Typed, Owned, NEW w \in Worker, NEW pc \in {"lookup", "insert", "promote"},
         NEW single \in BOOLEAN, NEW key \in Key \cup {None}, NEW rows \in Rows \cup {<<>>},
         Begin(w, pc, single, key, rows)
  PROVE  Owned'
<1> DEFINE x == [Idle EXCEPT !.pc = pc, !.single = single, !.key = key, !.rows = rows]
<1>1. x \in Request /\ OwnSound(x) /\ x.pc # "commit"
  BY DEF Idle, Request, OwnSound, Moved
<1>2. req' = [req EXCEPT ![w] = x] /\ landing' = landing /\ next' = next
  BY DEF Begin
<1> QED
  BY <1>1, <1>2, QuietOwned

(* A retry owns the row that its key names. *)
LEMMA LookUpOwned ==
  ASSUME Typed, Owned, NEW w \in Worker, LookUp(w)
  PROVE  Owned'
<1>1. req[w] \in Request /\ OwnSound(req[w]) /\ req[w].pc = "lookup"
  BY DEF Typed, TypeOK, Owned, LookUp
<1>2. CASE Goto(w, "insert")
  <2> DEFINE x == [req[w] EXCEPT !.pc = "insert"]
  <2>1. x \in Request /\ OwnSound(x) /\ x.pc # "commit" /\ req' = [req EXCEPT ![w] = x]
    BY <1>1, <1>2 DEF Request, OwnSound, Goto, Moved
  <2> QED
    BY <2>1, QuietOwned DEF LookUp
<1>3. CASE ~Goto(w, "insert")
  <2>1. PICK i \in WithKey(req[w].key) :
          req' = [req EXCEPT ![w] = [@ EXCEPT !.own = {i}, !.pc = "answer"]]
    BY <1>3 DEF LookUp
  <2> DEFINE x == [req[w] EXCEPT !.own = {i}, !.pc = "answer"]
  <2>2. i \in LandingId /\ landing[i].status # "absent" /\ landing[i].key = req[w].key /\ i < next
    BY DEF WithKey, Owned, Numbered
  <2>3. x \in Request /\ OwnSound(x) /\ x.pc # "commit" /\ req' = [req EXCEPT ![w] = x]
    BY <1>1, <2>1, <2>2 DEF Request, OwnSound
  <2> QED
    BY <2>3, QuietOwned DEF LookUp
<1> QED
  BY <1>2, <1>3

(* What an INSERT takes: identifiers from the sequence on. *)
LEMMA InsertTakes ==
  ASSUME Typed, NEW w \in Worker, Insert(w), ~(Fail(w) /\ next' = next)
  PROVE  LET n == Len(req[w].rows) IN
         /\ req[w].pc = "insert" /\ n \in Nat \ {0} /\ (req[w].key # None => n = 1)
         /\ next \in Nat /\ next' = next + n /\ next..(next + n - 1) \subseteq LandingId
         /\ req' = [req EXCEPT ![w] =
                      [req[w] EXCEPT !.own = next..(next + n - 1), !.pc = "commit"]]
         /\ ~KeyContended(w) /\ ~KeyTaken(req[w].key)
         /\ UNCHANGED <<landing, staged, journal, acked, calls>>
<1> DEFINE n == Len(req[w].rows)
           m == MaxCalls * MaxBatch
<1>1. /\ req[w].pc = "insert" /\ ~KeyContended(w) /\ ~KeyTaken(req[w].key)
      /\ next' = next + n /\ next + n - 1 \in LandingId
      /\ req' = [req EXCEPT ![w] =
                      [req[w] EXCEPT !.own = next..(next + n - 1), !.pc = "commit"]]
      /\ UNCHANGED <<landing, staged, journal, acked, calls>>
  BY DEF Insert
<1>2. n \in Nat \ {0} /\ (req[w].key # None => n = 1)
  BY <1>1, RowsAreSequences DEF Typed, Holds
<1>3. m \in Nat /\ LandingId = 1..m /\ next \in 1..(m + 1)
  BY LandingAssumption DEF LandingId, Typed, TypeOK
<1> HIDE DEF n, m
<1>4. next \in Nat /\ next..(next + n - 1) \subseteq LandingId
  BY <1>1, <1>2, <1>3
<1> QED
  BY <1>1, <1>2, <1>4 DEF n

(* An INSERT owns the next identifiers, whose rows are absent. *)
LEMMA InsertOwned ==
  ASSUME Typed, Owned, NEW w \in Worker, Insert(w)
  PROVE  Owned'
<1>1. CASE Fail(w) /\ next' = next
  BY <1>1, FailOwned
<1>2. CASE ~(Fail(w) /\ next' = next)
  <2> DEFINE n == Len(req[w].rows)
             own == next..(next + n - 1)
             x == [req[w] EXCEPT !.own = own, !.pc = "commit"]
  <2>1. /\ n \in Nat \ {0} /\ (req[w].key # None => n = 1) /\ next \in Nat
        /\ next' = next + n /\ own \subseteq LandingId /\ landing' = landing
        /\ req' = [req EXCEPT ![w] = x]
    BY <1>2, InsertTakes
  <2>2. LandingId \subseteq Int
    BY DEF LandingId
  <2> HIDE DEF n
  <2>3. \A i \in own : i \in LandingId /\ i >= next /\ i < next'
    BY <2>1
  <2>4. req[w].key # None => own = {next}
    BY <2>1
  <2> HIDE DEF own
  <2>5. /\ req[w] \in Request /\ x.own = own /\ x.pc = "commit" /\ x.key = req[w].key
        /\ x.batch = req[w].batch /\ req'[w] = x /\ \A v \in Worker \ {w} : req'[v] = req[v]
    BY <2>1 DEF Typed, TypeOK, Request
  <2>6. \A i \in own : landing[i].status = "absent"
    BY <2>1, <2>2, <2>3 DEF Owned, Numbered
  <2>7. OwnSound(req[w])'
    <3>1. \A i \in req[w].batch : landing[i].status # "absent"
      BY DEF Owned, OwnSound
    <3>2. req[w].key # None => \E i \in LandingId : own = {i}
      <4>1. next \in own
        BY <2>1 DEF own
      <4> QED
        BY <2>1, <2>4, <4>1
    <3> QED
      BY <2>1, <2>3, <2>5, <2>6, <3>1, <3>2 DEF OwnSound, Moved
  <2>8. ASSUME NEW v \in Worker \ {w} PROVE OwnSound(req[v])'
    BY <2>1, <2>5, <2>8, OthersOwn DEF Owned, OwnSound
  <2>9. Numbered'
    BY <2>1, <2>2 DEF Owned, Numbered
  <2>10. \A v \in Worker : \A i \in req[v].own : i < next /\ i \in Int
    BY <2>2 DEF Owned, OwnSound, Typed, TypeOK, Request
  <2>11. BlocksApart'
    BY <2>1, <2>2, <2>3, <2>5, <2>10 DEF Owned, BlocksApart
  <2> QED
    BY <2>7, <2>8, <2>9, <2>11 DEF Owned
<1> QED
  BY <1>1, <1>2

(* A commit lands the rows of its request and no other's. *)
LEMMA CommitOwned ==
  ASSUME Typed, Owned, NEW w \in Worker, Commit(w)
  PROVE  Owned'
<1> DEFINE pc == IF AutoPromote THEN "promote" ELSE "answer"
           x == [req[w] EXCEPT !.pc = pc]
<1>1. /\ req[w] \in Request /\ OwnSound(req[w]) /\ req[w].pc = "commit" /\ next \in Int
      /\ req[w].own \subseteq LandingId
  BY DEF Typed, TypeOK, Owned, Commit, Request
<1>2. req' = [req EXCEPT ![w] = x] /\ next' = next
  BY DEF Commit, Goto
<1>3. /\ req'[w] = x /\ x.own = req[w].own /\ x.batch = req[w].batch /\ x.key = req[w].key
      /\ x.pc = pc /\ \A v \in Worker \ {w} : req'[v] = req[v]
  BY <1>1, <1>2 DEF Request, Typed, TypeOK
<1>4. \A i \in LandingId :
        IF i \in req[w].own
        THEN /\ landing[i].status = "absent"
             /\ landing'[i].status = "pending" /\ landing'[i].key = req[w].key
        ELSE landing'[i] = landing[i]
  BY CommitLands
<1>5. OwnSound(req[w])'
  <2>1. req[w].batch \subseteq LandingId /\ \A i \in req[w].batch : landing[i].status # "absent"
    BY <1>1 DEF OwnSound, Request
  <2> HIDE DEF x
  <2>2. \A i \in req[w].own : i < next'
    BY <1>1, <1>2 DEF OwnSound
  <2>3. \A i \in req[w].batch : landing'[i].status # "absent"
    BY <1>4, <2>1
  <2>4. \A i \in req[w].own : landing'[i].status # "absent" /\ landing'[i].key = req[w].key
    BY <1>1, <1>4
  <2>5. req[w].key # None /\ req[w].own # {} => \E i \in LandingId : req[w].own = {i}
    BY <1>1 DEF OwnSound
  <2>6. pc \notin {"idle", "lookup", "insert", "commit"}
    OBVIOUS
  <2> HIDE DEF pc
  <2> QED
    BY <1>3, <2>2, <2>3, <2>4, <2>5, <2>6 DEF OwnSound
<1>6. ASSUME NEW v \in Worker \ {w} PROVE OwnSound(req[v])'
  <2>1. req[v] \in Request /\ OwnSound(req[v])
    BY <1>6 DEF Typed, TypeOK, Owned
  <2>2. req[v].pc = "commit" => \A i \in req[v].own : landing'[i].status = "absent"
    <3>1. req[v].pc = "commit" => req[v].own \cap req[w].own = {}
      BY <1>1, <1>6 DEF Owned, BlocksApart
    <3> QED
      BY <1>4, <2>1, <3>1 DEF OwnSound, Request
  <2>3. \A i \in LandingId : landing[i].status # "absent" =>
          landing'[i].status # "absent" /\ landing'[i].key = landing[i].key
    BY <1>4
  <2>4. (req[v])' = req[v] /\ next' >= next /\ next' \in Int
    BY <1>1, <1>2, <1>3, <1>6
  <2> QED
    BY <2>2, <2>3, <2>4, OthersOwn
<1>7. Numbered'
  BY <1>1, <1>2, <1>4 DEF Owned, Numbered, OwnSound
<1>8. BlocksApart'
  <2>1. x.pc # "commit"
    BY <1>3
  <2> HIDE DEF x
  <2> QED
    BY <1>3, <2>1 DEF Owned, BlocksApart
<1> QED
  BY <1>5, <1>6, <1>7, <1>8 DEF Owned

(* A promotion selects rows that are there. *)
LEMMA SelectOwned ==
  ASSUME Typed, Owned, NEW w \in Worker, Select(w)
  PROVE  Owned'
<1> DEFINE x == [req[w] EXCEPT !.batch = Oldest(Pending), !.pc = "stage"]
<1>1. req[w] \in Request /\ OwnSound(req[w]) /\ req[w].pc = "promote"
  BY DEF Typed, TypeOK, Owned, Select
<1>2. Oldest(Pending) \subseteq LandingId /\ \A i \in Oldest(Pending) : landing[i].status # "absent"
  BY DEF Oldest, Pending
<1>3. x \in Request /\ OwnSound(x) /\ x.pc # "commit"
  BY <1>1, <1>2 DEF Request, OwnSound, Moved
<1>4. req' = [req EXCEPT ![w] = x] /\ landing' = landing /\ next' = next
  BY DEF Select
<1> QED
  BY <1>3, <1>4, QuietOwned

(* A promotion keeps ownership. *)
LEMMA StageOwned ==
  ASSUME Typed, Owned, NEW w \in Worker, Stage(w)
  PROVE  Owned'
<1>1. CASE Fail(w) /\ next' = next
  BY <1>1, FailOwned
<1>2. CASE ~(Fail(w) /\ next' = next)
  <2> DEFINE e == [what |-> "batch", ids |-> req[w].batch]
             x == [req[w] EXCEPT !.pc = "answer", !.log = req[w].log \cup {e}]
  <2>1. req' = [req EXCEPT ![w] = x] /\ next' = next /\ req[w].pc = "stage"
    BY <1>2 DEF Stage
  <2>2. /\ req'[w] = x /\ x.own = req[w].own /\ x.batch = req[w].batch /\ x.key = req[w].key
        /\ x.pc = "answer" /\ \A v \in Worker \ {w} : req'[v] = req[v]
    BY <2>1 DEF Request, Typed, TypeOK
  <2>3. \A i \in LandingId : /\ landing'[i].key = landing[i].key
                             /\ landing'[i].status = "absent" <=> landing[i].status = "absent"
    BY StageKeepsRows
  <2>4. /\ next \in Int
        /\ \A v \in Worker : OwnSound(req[v]) /\ req[v].own \subseteq LandingId
                                              /\ req[v].batch \subseteq LandingId
    BY DEF Typed, TypeOK, Request, Owned
  <2> HIDE DEF x
  <2>5. OwnSound(req[w])'
    BY <2>1, <2>2, <2>3, <2>4 DEF OwnSound, Moved
  <2>6. ASSUME NEW v \in Worker \ {w} PROVE OwnSound(req[v])'
    BY <2>1, <2>2, <2>3, <2>4, <2>6, OthersOwn DEF OwnSound
  <2>7. Numbered'
    BY <2>1, <2>3 DEF Owned, Numbered
  <2>8. BlocksApart'
    BY <2>2 DEF Owned, BlocksApart
  <2> QED
    BY <2>5, <2>6, <2>7, <2>8 DEF Owned
<1> QED
  BY <1>1, <1>2

(* An answer keeps ownership. *)
LEMMA AnswerOwned ==
  ASSUME Typed, Owned, NEW w \in Worker, Answer(w)
  PROVE  Owned'
<1> DEFINE e == [what |-> "write", ids |-> req[w].own]
           log == IF IsWrite(req[w]) /\ Filed(req[w]) THEN req[w].log \cup {e} ELSE req[w].log
           x == [req[w] EXCEPT !.pc = "close", !.log = log]
<1>1. req[w] \in Request /\ OwnSound(req[w]) /\ req[w].pc = "answer"
  BY DEF Typed, TypeOK, Owned, Answer
<1>2. log \subseteq Entry
  BY <1>1 DEF Entry, Request
<1>3. req' = [req EXCEPT ![w] = x] /\ landing' = landing /\ next' = next
  BY DEF Answer
<1> HIDE DEF log
<1>4. x \in Request /\ OwnSound(x) /\ x.pc # "commit"
  BY <1>1, <1>2 DEF Request, OwnSound, Moved
<1> QED
  BY <1>3, <1>4, QuietOwned

(* A request ends with nothing. *)
LEMMA CloseOwned ==
  ASSUME Typed, Owned, NEW w \in Worker, Close(w)
  PROVE  Owned'
<1>1. Idle \in Request /\ OwnSound(Idle) /\ Idle.pc # "commit"
  BY DEF Idle, Request, OwnSound, Moved
<1> QED
  BY <1>1, QuietOwned DEF Close

(* Owned is inductive. *)
LEMMA OwnedStep == Typed /\ Owned /\ [Next]_vars => Owned'
<1> SUFFICES ASSUME Typed, Owned, [Next]_vars PROVE Owned'
  OBVIOUS
<1>1. CASE UNCHANGED vars
  BY <1>1 DEF vars, Owned, Numbered, BlocksApart, OwnSound
<1>2. ASSUME NEW w \in Worker, Submit(w) PROVE Owned'
  <2>1. PICK s \in Submission :
          Begin(w, IF s.key # None THEN "lookup" ELSE "insert", s.via = "single", s.key, Taken(s))
    BY <1>2 DEF Submit
  <2> QED
    BY <2>1, TakenRows, BeginOwned
<1>3. ASSUME NEW w \in Worker, RunPromotion(w) PROVE Owned'
  BY <1>3, BeginOwned DEF RunPromotion
<1>4. ASSUME NEW w \in Worker, Crash(w) PROVE Owned'
  BY <1>4, FailOwned DEF Crash
<1>5. ASSUME NEW w \in Worker, Run(w) PROVE Owned'
  BY <1>5, LookUpOwned, InsertOwned, CommitOwned, SelectOwned, StageOwned, AnswerOwned,
     CloseOwned DEF Run
<1> QED
  BY <1>1, <1>2, <1>3, <1>4, <1>5 DEF Next

----------------------------------------------------------------------------
(* Keys.  A key that a request is about to land is on no row, and no other   *)
(* request is about to land it: what the unique index enforces, by refusing  *)
(* the one and making the other wait.                                        *)

KeyFree(w) ==
  req[w].pc = "commit" /\ req[w].key # None =>
    /\ WithKey(req[w].key) = {}
    /\ \A v \in Worker \ {w} : req[v].pc = "commit" => req[v].key # req[w].key

Keyed == \A w \in Worker : KeyFree(w)

(* A step that changes no key and lets no request in keeps the keys sound.   *)
LEMMA QuietKeys ==
  ASSUME Typed, OneRowPerKey, Keyed,
         \A i \in LandingId : /\ landing'[i].key = landing[i].key
                              /\ landing'[i].status = "absent" <=> landing[i].status = "absent",
         \A v \in Worker : req'[v].pc = "commit" => req'[v] = req[v]
  PROVE  (OneRowPerKey /\ Keyed)'
<1>1. \A k : WithKey(k)' = WithKey(k)
  BY DEF WithKey
<1>2. OneRowPerKey'
  BY <1>1 DEF OneRowPerKey
<1>3. ASSUME NEW w \in Worker PROVE KeyFree(w)'
  <2> SUFFICES ASSUME req'[w].pc = "commit", req'[w].key # None
               PROVE  /\ WithKey(req[w].key)' = {}
                      /\ \A v \in Worker \ {w} : req'[v].pc = "commit" => req'[v].key # req'[w].key
    BY DEF KeyFree
  <2>1. req'[w] = req[w] /\ KeyFree(w)
    BY <1>3 DEF Keyed
  <2>2. WithKey(req[w].key)' = WithKey(req[w].key)
    BY <1>1, <2>1 DEF WithKey
  <2> QED
    BY <2>1, <2>2 DEF KeyFree
<1>4. Keyed'
  BY <1>3 DEF Keyed
<1> QED
  BY <1>2, <1>4

(* An INSERT takes a key nobody holds or is about to hold. *)
LEMMA InsertKeys ==
  ASSUME Typed, OneRowPerKey, Keyed, NEW w \in Worker, Insert(w), ~(Fail(w) /\ next' = next)
  PROVE  (OneRowPerKey /\ Keyed)'
<1> DEFINE x == req'[w]
<1>1. /\ req' = [req EXCEPT ![w] = [req[w] EXCEPT
                   !.own = next..(next + Len(req[w].rows) - 1), !.pc = "commit"]]
      /\ landing' = landing /\ ~KeyContended(w) /\ ~KeyTaken(req[w].key)
  BY InsertTakes
<1>0. x.key = req[w].key /\ \A v \in Worker \ {w} : req'[v] = req[v]
  BY <1>1 DEF Typed, TypeOK, Request
<1>2. \A k : WithKey(k)' = WithKey(k)
  BY <1>1 DEF WithKey
<1>3. OneRowPerKey'
  BY <1>2 DEF OneRowPerKey
<1>4. ASSUME NEW u \in Worker PROVE KeyFree(u)'
  <2> SUFFICES ASSUME req'[u].pc = "commit", req'[u].key # None
               PROVE  /\ WithKey(req[u].key)' = {}
                      /\ \A v \in Worker \ {u} : req'[v].pc = "commit" => req'[v].key # req'[u].key
    BY DEF KeyFree
  <2>1. CASE u = w
    <3>1. WithKey(req[w].key)' = {}
      BY <1>0, <1>1, <2>1 DEF KeyTaken, WithKey
    <3>2. \A v \in Worker \ {w} : req[v].pc = "commit" => req[v].key # req[w].key
      BY <1>0, <1>1, <2>1 DEF KeyContended
    <3> QED
      BY <1>0, <2>1, <3>1, <3>2
  <2>2. CASE u # w
    <3>1. req'[u] = req[u] /\ KeyFree(u)
      BY <1>0, <2>2 DEF Keyed
    <3>2. req[w].key # req[u].key
      BY <1>1, <2>2, <3>1 DEF KeyContended
    <3>3. WithKey(req[u].key)' = WithKey(req[u].key)
      BY <1>1, <3>1 DEF WithKey
    <3> QED
      BY <1>0, <3>1, <3>2, <3>3 DEF KeyFree
  <2> QED
    BY <2>1, <2>2
<1>5. Keyed'
  BY <1>4 DEF Keyed
<1> QED
  BY <1>3, <1>5

(* The commit of a keyed write adds the only row of its key. *)
LEMMA CommitKeys ==
  ASSUME Typed, Owned, OneRowPerKey, Keyed, NEW w \in Worker, Commit(w)
  PROVE  (OneRowPerKey /\ Keyed)'
<1>1. /\ req[w].pc = "commit" /\ OwnSound(req[w]) /\ req'[w].pc # "commit"
      /\ \A v \in Worker \ {w} : req'[v] = req[v]
  BY DEF Typed, TypeOK, Owned, Commit, Goto, Request
<1>2. \A i \in LandingId :
        IF i \in req[w].own
        THEN /\ landing[i].status = "absent"
             /\ landing'[i].status = "pending" /\ landing'[i].key = req[w].key
        ELSE landing'[i] = landing[i]
  BY CommitLands
<1>3. \A k : k # req[w].key => WithKey(k)' = WithKey(k)
  BY <1>2 DEF WithKey
<1>4. OneRowPerKey'
  <2> SUFFICES ASSUME NEW k \in Key, NEW i \in WithKey(k)', NEW j \in WithKey(k)' PROVE i = j
    BY DEF OneRowPerKey
  <2>1. CASE k = req[w].key
    <3>1. k # None /\ WithKey(k) = {}
      BY <1>1, <2>1, LandingAssumption DEF Keyed, KeyFree
    <3>2. i \in req[w].own /\ j \in req[w].own
      BY <1>2, <3>1 DEF WithKey
    <3> QED
      BY <1>1, <2>1, <3>1, <3>2 DEF OwnSound
  <2>2. CASE k # req[w].key
    BY <1>3, <2>2 DEF OneRowPerKey
  <2> QED
    BY <2>1, <2>2
<1>5. ASSUME NEW u \in Worker PROVE KeyFree(u)'
  <2> SUFFICES ASSUME req'[u].pc = "commit", req'[u].key # None
               PROVE  /\ WithKey(req[u].key)' = {}
                      /\ \A v \in Worker \ {u} : req'[v].pc = "commit" => req'[v].key # req'[u].key
    BY DEF KeyFree
  <2>1. u # w /\ req'[u] = req[u] /\ KeyFree(u)
    BY <1>1 DEF Keyed
  <2>2. req[w].key # req[u].key
    BY <1>1, <2>1 DEF KeyFree
  <2>3. WithKey(req[u].key)' = WithKey(req[u].key)
    BY <1>2, <2>1, <2>2 DEF WithKey
  <2> QED
    BY <1>1, <2>1, <2>3 DEF KeyFree
<1>6. Keyed'
  BY <1>5 DEF Keyed
<1> QED
  BY <1>4, <1>6

(* Every step keeps the keys sound. *)
LEMMA KeysStep == Typed /\ Owned /\ OneRowPerKey /\ Keyed /\ [Next]_vars => (OneRowPerKey /\ Keyed)'
<1> SUFFICES ASSUME Typed, Owned, OneRowPerKey, Keyed, [Next]_vars
             PROVE  (OneRowPerKey /\ Keyed)'
  OBVIOUS
<1>1. ASSUME landing' = landing, NEW w \in Worker, \A v \in Worker \ {w} : req'[v] = req[v],
             req'[w].pc # "commit"
      PROVE  (OneRowPerKey /\ Keyed)'
  BY <1>1, QuietKeys
<1>2. CASE UNCHANGED vars
  BY <1>2, QuietKeys DEF vars
<1>3. ASSUME NEW w \in Worker, Submit(w) \/ RunPromotion(w) PROVE (OneRowPerKey /\ Keyed)'
  <2>1. PICK pc \in {"lookup", "insert", "promote"} : 
          \E single, key, rows : Begin(w, pc, single, key, rows)
    BY <1>3 DEF Submit, RunPromotion
  <2>2. landing' = landing /\ req'[w].pc = pc /\ \A v \in Worker \ {w} : req'[v] = req[v]
    BY <2>1 DEF Begin, Typed, TypeOK, Idle
  <2> QED
    BY <1>1, <2>2
<1>4. ASSUME NEW w \in Worker, Fail(w) PROVE (OneRowPerKey /\ Keyed)'
  <2>1. landing' = landing /\ req'[w].pc # "commit" /\ \A v \in Worker \ {w} : req'[v] = req[v]
    BY <1>4 DEF Fail, Typed, TypeOK, Idle
  <2> QED
    BY <1>1, <2>1
<1>5. ASSUME NEW w \in Worker, LookUp(w) PROVE (OneRowPerKey /\ Keyed)'
  <2>1. landing' = landing /\ req'[w].pc # "commit" /\ \A v \in Worker \ {w} : req'[v] = req[v]
    BY <1>5 DEF LookUp, Goto, Typed, TypeOK, Request
  <2> QED
    BY <1>1, <2>1
<1>6. ASSUME NEW w \in Worker, Insert(w) PROVE (OneRowPerKey /\ Keyed)'
  BY <1>4, <1>6, InsertKeys
<1>7. ASSUME NEW w \in Worker, Select(w) \/ Answer(w) PROVE (OneRowPerKey /\ Keyed)'
  <2>1. req[w] \in Request /\ req \in [Worker -> Request]
    BY DEF Typed, TypeOK
  <2>2. CASE Select(w)
    <3>1. landing' = landing /\ req'[w].pc # "commit" /\ \A v \in Worker \ {w} : req'[v] = req[v]
      BY <2>1, <2>2 DEF Select, Request
    <3> QED
      BY <1>1, <3>1
  <2>3. CASE Answer(w)
    <3>1. landing' = landing /\ req'[w].pc # "commit" /\ \A v \in Worker \ {w} : req'[v] = req[v]
      BY <2>1, <2>3 DEF Answer, Request
    <3> QED
      BY <1>1, <3>1
  <2> QED
    BY <1>7, <2>2, <2>3
<1>9. ASSUME NEW w \in Worker, Close(w) PROVE (OneRowPerKey /\ Keyed)'
  <2>1. landing' = landing /\ req'[w].pc # "commit" /\ \A v \in Worker \ {w} : req'[v] = req[v]
    BY <1>9 DEF Close, Idle, Typed, TypeOK
  <2> QED
    BY <1>1, <2>1
<1>8. ASSUME NEW w \in Worker, Stage(w), ~Fail(w) PROVE (OneRowPerKey /\ Keyed)'
  <2>1. req[w] \in Request /\ req \in [Worker -> Request]
    BY DEF Typed, TypeOK
  <2> DEFINE log == req[w].log \cup {[what |-> "batch", ids |-> req[w].batch]}
  <2>2. req' = [req EXCEPT ![w] = [req[w] EXCEPT !.pc = "answer", !.log = log]]
    BY <1>8 DEF Stage
  <2> HIDE DEF log
  <2>3. req'[w].pc # "commit" /\ \A v \in Worker \ {w} : req'[v] = req[v]
    BY <2>1, <2>2 DEF Request
  <2>4. \A i \in LandingId : /\ landing'[i].key = landing[i].key
                             /\ landing'[i].status = "absent" <=> landing[i].status = "absent"
    BY <1>8, StageKeepsRows
  <2> QED
    BY <2>3, <2>4, QuietKeys
<1> QED
  BY <1>2, <1>3, <1>4, <1>5, <1>6, <1>7, <1>8, <1>9, CommitKeys DEF Next, Run, Crash

(* However often a write is retried, and however its retries overlap and crash, *)
(* its key names one landing row.                                              *)
THEOREM AlwaysOneRow == Spec => []OneRowPerKey
<1>1. Init => Owned /\ OneRowPerKey /\ Keyed
  BY DEF Init, Idle, NoRow, Owned, Numbered, BlocksApart, OwnSound, Moved, OneRowPerKey,
         WithKey, Keyed, KeyFree
<1> QED
  BY <1>1, TypedAlways, OwnedStep, KeysStep, PTL DEF Spec

----------------------------------------------------------------------------
(* Answers.  What a client was told stays true, and what two requests hold,  *)
(* or were told, is either the same write or has no row in common.           *)

Claim(w) == [single |-> req[w].single, key |-> req[w].key, ids |-> req[w].own]

AnswerSound(a) ==
  /\ a.ids # {}
  /\ \A i \in a.ids : landing[i].status # "absent" /\ landing[i].key = a.key
  /\ a.key # None => a.single /\ \E i \in LandingId : a.ids = {i}
  /\ \A b \in acked : a # b => a.ids \cap b.ids = {}

ClaimSound(w) ==
  /\ req[w].pc = "lookup" => req[w].key # None
  /\ \A a \in acked : a.ids \cap req[w].own = {} \/ a = Claim(w)
  /\ \A v \in Worker : req[v].own \cap req[w].own = {} \/ Claim(v) = Claim(w)

(* The request is about the same write. *)
SameWrite(w) == req'[w].key = req[w].key /\ req'[w].single = req[w].single

Granted == (\A a \in acked : AnswerSound(a)) /\ (\A w \in Worker : ClaimSound(w))

(* Landed rows stay landed, under their keys. *)
LEMMA RowsStay ==
  ASSUME Typed, Owned, [Next]_vars, NEW i \in LandingId, landing[i].status # "absent"
  PROVE  landing'[i].status # "absent" /\ landing'[i].key = landing[i].key
<1>1. ASSUME NEW w \in Worker, Stage(w)
      PROVE  landing'[i].status # "absent" /\ landing'[i].key = landing[i].key
  BY <1>1, StageKeepsRows
<1>2. ASSUME NEW w \in Worker, Commit(w)
      PROVE  landing'[i].status # "absent" /\ landing'[i].key = landing[i].key
  <2>1. landing'[i] = landing[i]
    BY <1>2, CommitLands
  <2> QED
    BY <2>1
<1>3. CASE landing' = landing
  BY <1>3
<1> QED
  BY <1>1, <1>2, <1>3
     DEF Next, vars, Run, Submit, RunPromotion, Begin, Crash, Fail, LookUp, Insert, Select,
         Answer, Close

(* A step that answers nobody and grants nothing. *)
LEMMA QuietGranted ==
  ASSUME Typed, Owned, Granted, [Next]_vars, acked' = acked, NEW w \in Worker,
         \A v \in Worker \ {w} : req'[v] = req[v],
         req'[w].pc = "lookup" => req'[w].key # None,
         req'[w].own = {} \/ (req'[w].own = req[w].own /\ SameWrite(w))
  PROVE  Granted'
<1>1. \A v \in Worker : req'[v].own = {} \/ (req'[v].own = req[v].own /\ SameWrite(v))
  BY DEF SameWrite
<1>2. ASSUME NEW a \in acked PROVE AnswerSound(a)'
  <2>1. AnswerSound(a) /\ a.ids \subseteq LandingId
    BY DEF Granted, Typed, TypeOK
  <2>2. \A i \in a.ids : landing'[i].status # "absent" /\ landing'[i].key = a.key
    BY <2>1, RowsStay DEF AnswerSound
  <2> QED
    BY <2>1, <2>2 DEF AnswerSound
<1>3. ASSUME NEW u \in Worker PROVE ClaimSound(u)'
  <2>1. ClaimSound(u)
    BY DEF Granted
  <2>2. req'[u].pc = "lookup" => req'[u].key # None
    BY <2>1 DEF ClaimSound
  <2>3. ASSUME NEW a \in acked PROVE a.ids \cap req'[u].own = {} \/ a = Claim(u)'
    BY <1>1, <2>1 DEF ClaimSound, Claim, SameWrite
  <2>4. ASSUME NEW v \in Worker
        PROVE  req'[v].own \cap req'[u].own = {} \/ Claim(v)' = Claim(u)'
    BY <1>1, <2>1 DEF ClaimSound, Claim, SameWrite
  <2> QED
    BY <2>2, <2>3, <2>4 DEF ClaimSound
<1> QED
  BY <1>2, <1>3 DEF Granted

(* Identifiers granted to a request, apart from what all the others hold. *)
LEMMA NewGranted ==
  ASSUME Typed, Owned, Granted, [Next]_vars, acked' = acked, NEW w \in Worker,
         \A v \in Worker \ {w} : req'[v] = req[v],
         req'[w].pc # "lookup",
         \A a \in acked : a.ids \cap req'[w].own = {} \/ a = Claim(w)',
         \A v \in Worker \ {w} : req[v].own \cap req'[w].own = {} \/ Claim(v) = Claim(w)'
  PROVE  Granted'
<1>1. ASSUME NEW a \in acked PROVE AnswerSound(a)'
  <2>1. AnswerSound(a) /\ a.ids \subseteq LandingId
    BY DEF Granted, Typed, TypeOK
  <2>2. \A i \in a.ids : landing'[i].status # "absent" /\ landing'[i].key = a.key
    BY <2>1, RowsStay DEF AnswerSound
  <2> QED
    BY <2>1, <2>2 DEF AnswerSound
<1>2. \A v \in Worker \ {w} : Claim(v)' = Claim(v)
  BY DEF Claim
<1>3. ASSUME NEW u \in Worker \ {w} PROVE ClaimSound(u)'
  <2>1. ClaimSound(u)
    BY DEF Granted
  <2>2. req'[u].pc = "lookup" => req'[u].key # None
    BY <2>1 DEF ClaimSound
  <2>3. ASSUME NEW a \in acked PROVE a.ids \cap req'[u].own = {} \/ a = Claim(u)'
    BY <1>2, <2>1 DEF ClaimSound
  <2>4. ASSUME NEW v \in Worker
        PROVE  req'[v].own \cap req'[u].own = {} \/ Claim(v)' = Claim(u)'
    BY <1>2, <2>1 DEF ClaimSound
  <2> QED
    BY <2>2, <2>3, <2>4 DEF ClaimSound
<1>4. ClaimSound(w)'
  BY <1>2 DEF ClaimSound
<1> QED
  BY <1>1, <1>3, <1>4 DEF Granted

(* A retry is granted the row that its key names. *)
LEMMA LookUpGranted ==
  ASSUME Typed, Owned, Granted, NEW w \in Worker, LookUp(w)
  PROVE  Granted'
<1>1. req[w] \in Request /\ req \in [Worker -> Request] /\ acked' = acked
      /\ req[w].pc = "lookup" /\ req[w].key # None /\ req[w].own = {} /\ req[w].single
  BY DEF Typed, TypeOK, LookUp, Owned, OwnSound, Granted, ClaimSound, Holds
<1>2. [Next]_vars
  BY DEF Next, Run
<1>3. CASE Goto(w, "insert")
  <2>1. \A v \in Worker \ {w} : req'[v] = req[v]
    BY <1>1, <1>3 DEF Goto
  <2>2. req'[w].pc # "lookup" /\ req'[w].own = req[w].own /\ SameWrite(w)
    BY <1>1, <1>3 DEF Goto, Request, SameWrite
  <2> QED
    BY <1>1, <1>2, <2>1, <2>2, QuietGranted
<1>4. CASE ~Goto(w, "insert")
  <2>1. PICK i \in WithKey(req[w].key) :
          req' = [req EXCEPT ![w] = [@ EXCEPT !.own = {i}, !.pc = "answer"]]
    BY <1>4 DEF LookUp
  <2>2. \A v \in Worker \ {w} : req'[v] = req[v]
    BY <1>1, <2>1
  <2>3. /\ req'[w].pc = "answer" /\ req'[w].own = {i}
        /\ req'[w].key = req[w].key /\ req'[w].single
    BY <1>1, <2>1 DEF Request
  <2>4. i \in LandingId /\ landing[i].status # "absent" /\ landing[i].key = req[w].key
    BY DEF WithKey
  <2>5. ASSUME NEW a \in acked PROVE a.ids \cap req'[w].own = {} \/ a = Claim(w)'
    <3>1. /\ AnswerSound(a) /\ a = [single |-> a.single, key |-> a.key, ids |-> a.ids]
          /\ a.single \in BOOLEAN
      BY DEF Granted, Typed, TypeOK
    <3>2. i \in a.ids => a.key = req[w].key /\ a.single /\ a.ids = {i}
      BY <1>1, <2>4, <3>1 DEF AnswerSound
    <3> QED
      BY <2>3, <3>1, <3>2 DEF Claim
  <2>6. ASSUME NEW v \in Worker \ {w}
        PROVE  req[v].own \cap req'[w].own = {} \/ Claim(v) = Claim(w)'
    <3>1. OwnSound(req[v]) /\ req[v] \in Request /\ Holds(req[v])
      BY DEF Owned, Typed, TypeOK
    <3>2. i \in req[v].own => req[v].pc \in Moved
      BY <2>4, <3>1 DEF OwnSound, Request, Moved
    <3>3. i \in req[v].own => req[v].key = req[w].key /\ req[v].single /\ req[v].own = {i}
      BY <1>1, <2>4, <3>1, <3>2 DEF OwnSound, Holds
    <3> QED
      BY <1>1, <2>3, <3>1, <3>3 DEF Claim, Request
  <2> QED
    BY <1>1, <1>2, <2>2, <2>3, <2>5, <2>6, NewGranted
<1> QED
  BY <1>3, <1>4

(* An INSERT is granted identifiers nobody was granted. *)
LEMMA InsertGranted ==
  ASSUME Typed, Owned, Granted, NEW w \in Worker, Insert(w), ~(Fail(w) /\ next' = next)
  PROVE  Granted'
<1> DEFINE own == next..(next + Len(req[w].rows) - 1)
<1>1. /\ req' = [req EXCEPT ![w] = [req[w] EXCEPT !.own = own, !.pc = "commit"]]
      /\ acked' = acked /\ Len(req[w].rows) \in Nat /\ next \in Nat
  BY InsertTakes
<1>2. \A i \in own : i >= next
  BY <1>1
<1> HIDE DEF own
<1>3. req'[w].own = own /\ req'[w].pc = "commit" /\ \A v \in Worker \ {w} : req'[v] = req[v]
  BY <1>1 DEF Typed, TypeOK, Request
<1>4. ASSUME NEW a \in acked PROVE a.ids \cap own = {}
  <2>1. a.ids \subseteq LandingId /\ LandingId \subseteq Int /\ AnswerSound(a)
    BY DEF Typed, TypeOK, Granted, LandingId
  <2>2. \A i \in a.ids : i \in Int /\ i < next
    BY <2>1 DEF AnswerSound, Owned, Numbered
  <2> QED
    BY <1>1, <1>2, <2>2
<1>5. ASSUME NEW v \in Worker PROVE req[v].own \cap own = {}
  <2>1. \A i \in req[v].own : i \in Int /\ i < next
    BY DEF Typed, TypeOK, Request, LandingId, Owned, OwnSound
  <2> QED
    BY <1>1, <1>2, <2>1
<1>6. [Next]_vars
  BY DEF Next, Run
<1> QED
  BY <1>1, <1>3, <1>4, <1>5, <1>6, NewGranted

(* An answer tells of rows that are landed. *)
LEMMA AnswerGranted ==
  ASSUME Typed, Owned, Granted, NEW w \in Worker, Answer(w)
  PROVE  Granted'
<1>1. /\ req[w] \in Request /\ req \in [Worker -> Request] /\ OwnSound(req[w])
      /\ ClaimSound(w) /\ req[w].pc = "answer" /\ landing' = landing /\ Holds(req[w])
  BY DEF Typed, TypeOK, Owned, Granted, Answer
<1>2. \A v \in Worker : req'[v].pc = "lookup" => req[v].pc = "lookup"
  BY <1>1 DEF Answer, Request
<1>3. \A v \in Worker : req'[v].own = req[v].own /\ SameWrite(v)
  BY <1>1 DEF Answer, Request, SameWrite
<1>4. \A v \in Worker : Claim(v)' = Claim(v)
  BY <1>3 DEF Claim, SameWrite
<1>5. acked' = acked \/ (acked' = acked \cup {Claim(w)} /\ req[w].own # {})
  <2>1. acked' = IF IsWrite(req[w]) THEN acked \cup {Claim(w)} ELSE acked
    BY Zenon DEF Answer, Claim
  <2> QED
    BY <2>1 DEF IsWrite
<1>6. ASSUME NEW a \in acked' PROVE AnswerSound(a)'
  <2>1. CASE a \in acked
    <3>1. AnswerSound(a) /\ (a.ids \cap req[w].own = {} \/ a = Claim(w))
      BY <1>1, <2>1 DEF Granted, ClaimSound
    <3>2. \A b \in acked' : a # b => a.ids \cap b.ids = {}
      BY <1>5, <3>1 DEF AnswerSound, Claim
    <3> QED
      BY <1>1, <3>1, <3>2 DEF AnswerSound
  <2>2. CASE a \notin acked
    <3>1. /\ a = Claim(w) /\ a.ids = req[w].own /\ a.key = req[w].key /\ a.ids # {}
          /\ a.single = req[w].single
      BY <1>5, <1>6, <2>2 DEF Claim
    <3>2. \A i \in a.ids : landing'[i].status # "absent" /\ landing'[i].key = a.key
      BY <1>1, <3>1 DEF OwnSound, Moved
    <3>3. a.key # None => a.single /\ \E i \in LandingId : a.ids = {i}
      BY <1>1, <3>1 DEF OwnSound, Holds
    <3>4. \A b \in acked' : a # b => a.ids \cap b.ids = {}
      BY <1>1, <1>5, <3>1 DEF ClaimSound
    <3> QED
      BY <3>1, <3>2, <3>3, <3>4 DEF AnswerSound
  <2> QED
    BY <2>1, <2>2
<1>7. ASSUME NEW u \in Worker PROVE ClaimSound(u)'
  <2>1. ClaimSound(u)
    BY DEF Granted
  <2>2. req'[u].pc = "lookup" => req'[u].key # None
    BY <1>2, <1>3, <2>1 DEF ClaimSound, SameWrite
  <2>3. ASSUME NEW a \in acked' PROVE a.ids \cap req'[u].own = {} \/ a = Claim(u)'
    <3>1. CASE a \in acked
      BY <1>3, <1>4, <2>1, <3>1 DEF ClaimSound
    <3>2. CASE a = Claim(w)
      <4>1. a.ids = req[w].own
        BY <3>2 DEF Claim
      <4> QED
        BY <1>3, <1>4, <2>1, <3>2, <4>1 DEF ClaimSound
    <3> QED
      BY <1>5, <2>3, <3>1, <3>2
  <2>4. \A v \in Worker : req'[v].own \cap req'[u].own = {} \/ Claim(v)' = Claim(u)'
    BY <1>3, <1>4, <2>1 DEF ClaimSound
  <2> QED
    BY <2>2, <2>3, <2>4 DEF ClaimSound
<1> QED
  BY <1>6, <1>7 DEF Granted

(* Every step keeps the grants sound. *)
LEMMA GrantedStep == Typed /\ Owned /\ Granted /\ [Next]_vars => Granted'
<1> SUFFICES ASSUME Typed, Owned, Granted, [Next]_vars PROVE Granted'
  OBVIOUS
<1>0. req \in [Worker -> Request]
  BY DEF Typed, TypeOK
<1>1. CASE UNCHANGED vars
  BY <1>1 DEF vars, Granted, AnswerSound, ClaimSound, Claim
<1>2. ASSUME NEW w \in Worker, Submit(w) PROVE Granted'
  <2>1. PICK s \in Submission :
          Begin(w, IF s.key # None THEN "lookup" ELSE "insert", s.via = "single", s.key, Taken(s))
    BY <1>2 DEF Submit
  <2>2. /\ acked' = acked /\ \A v \in Worker \ {w} : req'[v] = req[v]
        /\ (req'[w].own = {} \/ (req'[w].own = req[w].own /\ SameWrite(w)))
        /\ (req'[w].pc = "lookup" => req'[w].key # None)
    BY <1>0, <2>1 DEF Begin, Idle
  <2> QED
    BY <2>2, QuietGranted
<1>3. ASSUME NEW w \in Worker, RunPromotion(w) PROVE Granted'
  <2>1. /\ acked' = acked /\ \A v \in Worker \ {w} : req'[v] = req[v]
        /\ (req'[w].own = {} \/ (req'[w].own = req[w].own /\ SameWrite(w)))
        /\ req'[w].pc # "lookup"
    BY <1>0, <1>3 DEF RunPromotion, Begin, Idle
  <2> QED
    BY <2>1, QuietGranted
<1>4. ASSUME NEW w \in Worker, Fail(w) PROVE Granted'
  <2>1. /\ acked' = acked /\ \A v \in Worker \ {w} : req'[v] = req[v]
        /\ (req'[w].own = {} \/ (req'[w].own = req[w].own /\ SameWrite(w)))
        /\ req'[w].pc # "lookup"
    BY <1>0, <1>4 DEF Fail, Idle
  <2> QED
    BY <2>1, QuietGranted
<1>5. ASSUME NEW w \in Worker, Insert(w) PROVE Granted'
  BY <1>4, <1>5, InsertGranted
<1>6. ASSUME NEW w \in Worker, Commit(w) PROVE Granted'
  <2>1. /\ acked' = acked /\ \A v \in Worker \ {w} : req'[v] = req[v]
        /\ req'[w].own = req[w].own /\ SameWrite(w) /\ req'[w].pc # "lookup"
    BY <1>0, <1>6 DEF Commit, Goto, Request, SameWrite
  <2> QED
    BY <2>1, QuietGranted
<1>7. ASSUME NEW w \in Worker, Select(w) PROVE Granted'
  <2>1. /\ acked' = acked /\ \A v \in Worker \ {w} : req'[v] = req[v]
        /\ req'[w].own = req[w].own /\ SameWrite(w) /\ req'[w].pc # "lookup"
    BY <1>0, <1>7 DEF Select, Request, SameWrite
  <2> QED
    BY <2>1, QuietGranted
<1>8. ASSUME NEW w \in Worker, Stage(w), ~Fail(w) PROVE Granted'
  <2> DEFINE log == req[w].log \cup {[what |-> "batch", ids |-> req[w].batch]}
  <2>1. req' = [req EXCEPT ![w] = [req[w] EXCEPT !.pc = "answer", !.log = log]]
        /\ acked' = acked
    BY <1>8 DEF Stage
  <2> HIDE DEF log
  <2>2. /\ \A v \in Worker \ {w} : req'[v] = req[v]
        /\ req'[w].own = req[w].own /\ SameWrite(w) /\ req'[w].pc # "lookup"
    BY <1>0, <2>1 DEF Request, SameWrite
  <2> QED
    BY <2>1, <2>2, QuietGranted
<1>9. ASSUME NEW w \in Worker, Close(w) PROVE Granted'
  <2>1. /\ acked' = acked /\ \A v \in Worker \ {w} : req'[v] = req[v]
        /\ (req'[w].own = {} \/ (req'[w].own = req[w].own /\ SameWrite(w)))
        /\ req'[w].pc # "lookup"
    BY <1>0, <1>9 DEF Close, Idle
  <2> QED
    BY <2>1, QuietGranted
<1> QED
  BY <1>1, <1>2, <1>3, <1>4, <1>5, <1>6, <1>7, <1>8, <1>9, LookUpGranted, AnswerGranted
     DEF Next, Run, Crash

(* What a client was told was accepted is landed under the key it used, and no *)
(* other write was told the same row, whatever crashed since.                 *)
THEOREM AlwaysAccepted == Spec => []AcceptedIsLanded
<1>1. Init => Owned /\ Granted
  BY DEF Init, Idle, NoRow, Owned, Numbered, BlocksApart, OwnSound, Moved, Granted,
         ClaimSound, Claim
<1>2. Granted => AcceptedIsLanded
  BY DEF Granted, AnswerSound, AcceptedIsLanded
<1> QED
  BY <1>1, <1>2, TypedAlways, OwnedStep, GrantedStep, PTL DEF Spec

----------------------------------------------------------------------------
(* The record.  Without crashes a promoted row, and an accepted write under  *)
(* a key, are in the journal or on their way there in a session: a session   *)
(* that holds something is not rolled back any more.                         *)

BatchFiled(i) ==
  \/ \E e \in journal : e.what = "batch" /\ i \in e.ids
  \/ \E w \in Worker : \E e \in req[w].log : e.what = "batch" /\ i \in e.ids

WriteFiled(ids) ==
  \/ \E e \in journal : e.what = "write" /\ e.ids = ids
  \/ \E w \in Worker : \E e \in req[w].log : e.what = "write" /\ e.ids = ids

Recorded ==
  /\ \A w \in Worker : req[w].pc \notin {"answer", "close"} => req[w].log = {}
  /\ \A i \in LandingId : landing[i].status = "promoted" => BatchFiled(i)
  /\ \A a \in acked : a.single => WriteFiled(a.ids)

(* A step that loses nothing of a session, and files what it adds.           *)
LEMMA RecordedStep ==
  ASSUME Typed, Recorded, NEW w \in Worker, NEW x, req' = [req EXCEPT ![w] = x],
         x.pc \notin {"answer", "close"} => x.log = {},
         journal \subseteq journal',
         req[w].log \subseteq x.log \/ req[w].log \subseteq journal',
         \A i \in LandingId : landing'[i].status = "promoted" =>
           \/ landing[i].status = "promoted"
           \/ \E e \in x.log : e.what = "batch" /\ i \in e.ids,
         \A a \in acked' : a.single =>
           \/ a \in acked
           \/ \E e \in x.log : e.what = "write" /\ e.ids = a.ids
  PROVE  Recorded'
<1>1. req'[w] = x /\ \A v \in Worker \ {w} : req'[v] = req[v]
  BY DEF Typed, TypeOK
<1>2. \A v \in Worker : \A e \in req[v].log :
        e \in journal' \/ \E u \in Worker : e \in req'[u].log
  BY <1>1
<1>3. \A i : BatchFiled(i) => BatchFiled(i)'
  BY <1>2 DEF BatchFiled
<1>4. \A ids : WriteFiled(ids) => WriteFiled(ids)'
  BY <1>2 DEF WriteFiled
<1>5. \A i : (\E e \in x.log : e.what = "batch" /\ i \in e.ids) => BatchFiled(i)'
  BY <1>1 DEF BatchFiled
<1>6. \A ids : (\E e \in x.log : e.what = "write" /\ e.ids = ids) => WriteFiled(ids)'
  BY <1>1 DEF WriteFiled
<1>7. \A v \in Worker : req'[v].pc \notin {"answer", "close"} => req'[v].log = {}
  BY <1>1 DEF Recorded
<1> QED
  BY <1>3, <1>4, <1>5, <1>6, <1>7 DEF Recorded

(* A request that gives up has filed nothing yet.                            *)
LEMMA FailRecorded ==
  ASSUME Typed, Recorded, NEW w \in Worker, Fail(w), req[w].pc \notin {"answer", "close"}
  PROVE  Recorded'
<1>1. req[w].log = {} /\ Idle.log = {}
  BY DEF Recorded, Idle
<1> QED
  BY <1>1, RecordedStep DEF Fail

(* A request that only moves on keeps its session.                           *)
LEMMA MoveRecorded ==
  ASSUME Typed, Recorded, NEW w \in Worker, NEW x, req' = [req EXCEPT ![w] = x],
         x.log = req[w].log, req[w].pc \notin {"answer", "close"},
         \A i \in LandingId : landing'[i].status = "promoted" => landing[i].status = "promoted",
         UNCHANGED <<journal, acked>>
  PROVE  Recorded'
<1>1. x.log = {}
  BY DEF Recorded
<1> QED
  BY <1>1, RecordedStep

(* One case for each operation.                                              *)
LEMMA RunRecorded ==
  ASSUME Typed, Recorded, NEW w \in Worker, Run(w)
  PROVE  Recorded'
<1>0. req[w] \in Request /\ req \in [Worker -> Request] /\ Holds(req[w])
  BY DEF Typed, TypeOK
<1>1. CASE LookUp(w)
  <2>1. PICK own, pc : req' = [req EXCEPT ![w] = [@ EXCEPT !.own = own, !.pc = pc]]
    <3>1. CASE Goto(w, "insert")
      <4>1. [req[w] EXCEPT !.pc = "insert"] = [req[w] EXCEPT !.own = req[w].own, !.pc = "insert"]
        BY <1>0 DEF Request
      <4>2. req' = [req EXCEPT ![w] = [req[w] EXCEPT !.pc = "insert"]]
        BY <3>1 DEF Goto
      <4> QED
        BY <4>1, <4>2
    <3>2. CASE ~Goto(w, "insert")
      BY <1>1, <3>2 DEF LookUp
    <3> QED
      BY <3>1, <3>2
  <2>2. PICK x : x = [req[w] EXCEPT !.own = own, !.pc = pc]
    OBVIOUS
  <2>3. x.log = req[w].log
    BY <1>0, <2>2 DEF Request
  <2>4. /\ req' = [req EXCEPT ![w] = x] /\ req[w].pc = "lookup"
        /\ UNCHANGED <<landing, journal, acked>>
    BY <1>1, <2>1, <2>2 DEF LookUp
  <2> QED
    BY <2>3, <2>4, MoveRecorded
<1>2. CASE Insert(w)
  <2>1. CASE Fail(w)
    BY <1>2, <2>1, FailRecorded DEF Insert
  <2>2. CASE ~Fail(w)
    <3>1. PICK own : req' = [req EXCEPT ![w] = [@ EXCEPT !.own = own, !.pc = "commit"]]
      BY <1>2, <2>2 DEF Insert
    <3>2. PICK x : x = [req[w] EXCEPT !.own = own, !.pc = "commit"]
      OBVIOUS
    <3>3. x.log = req[w].log
      BY <1>0, <3>2 DEF Request
    <3>4. /\ req' = [req EXCEPT ![w] = x] /\ req[w].pc = "insert"
          /\ UNCHANGED <<landing, journal, acked>>
      BY <1>2, <2>2, <3>1, <3>2 DEF Insert
    <3> QED
      BY <3>3, <3>4, MoveRecorded
  <2> QED
    BY <2>1, <2>2
<1>3. CASE Commit(w)
  <2>1. PICK x : x = [req[w] EXCEPT !.pc = IF AutoPromote THEN "promote" ELSE "answer"]
    OBVIOUS
  <2>2. x.log = req[w].log
    BY <1>0, <2>1 DEF Request
  <2>3. req' = [req EXCEPT ![w] = x]
    BY <1>3, <2>1 DEF Commit, Goto
  <2>4. \A i \in LandingId : landing'[i].status = "promoted" => landing[i].status = "promoted"
    BY <1>3 DEF Commit, Landed
  <2>5. req[w].pc = "commit" /\ UNCHANGED <<journal, acked>>
    BY <1>3 DEF Commit
  <2> QED
    BY <2>2, <2>3, <2>4, <2>5, MoveRecorded
<1>4. CASE Select(w)
  <2>1. PICK x : x = [req[w] EXCEPT !.batch = Oldest(Pending), !.pc = "stage"]
    OBVIOUS
  <2>2. x.log = req[w].log
    BY <1>0, <2>1 DEF Request
  <2>3. /\ req' = [req EXCEPT ![w] = x] /\ req[w].pc = "promote"
        /\ UNCHANGED <<landing, journal, acked>>
    BY <1>4, <2>1 DEF Select
  <2> QED
    BY <2>2, <2>3, MoveRecorded
<1>5. CASE Stage(w)
  <2>1. CASE Fail(w)
    BY <1>5, <2>1, FailRecorded DEF Stage
  <2>2. CASE ~Fail(w)
    <3>1. PICK e : e = [what |-> "batch", ids |-> req[w].batch]
      OBVIOUS
    <3>2. PICK log : log = req[w].log \cup {e}
      OBVIOUS
    <3>3. PICK x : x = [req[w] EXCEPT !.pc = "answer", !.log = log]
      OBVIOUS
    <3>4. x.pc = "answer" /\ x.log = log
      BY <1>0, <3>3 DEF Request
    <3>5. req' = [req EXCEPT ![w] = x] /\ UNCHANGED <<journal, acked>>
      BY <1>5, <2>2, <3>1, <3>2, <3>3 DEF Stage
    <3>6. \A i \in LandingId : landing'[i] = landing[i] \/ i \in req[w].batch
      BY <1>5, <2>2 DEF Stage, Typed, TypeOK
    <3>7. e \in log /\ e.what = "batch" /\ e.ids = req[w].batch
      BY <3>1, <3>2
    <3> QED
      BY <3>2, <3>4, <3>5, <3>6, <3>7, RecordedStep
  <2> QED
    BY <2>1, <2>2
<1>6. CASE Answer(w)
  <2>1. PICK e : e = [what |-> "write", ids |-> req[w].own]
    OBVIOUS
  <2>2. PICK log : log = IF IsWrite(req[w]) /\ Filed(req[w]) THEN req[w].log \cup {e}
                                                               ELSE req[w].log
    OBVIOUS
  <2>3. PICK x : x = [req[w] EXCEPT !.pc = "close", !.log = log]
    OBVIOUS
  <2>4. x.pc = "close" /\ x.log = log /\ req[w].log \subseteq log
    BY <1>0, <2>2, <2>3 DEF Request
  <2>5. req' = [req EXCEPT ![w] = x] /\ UNCHANGED <<landing, journal>>
    BY <1>6, <2>1, <2>2, <2>3 DEF Answer
  <2>6. \A a \in acked' :
          a \in acked \/ (IsWrite(req[w]) /\ a.single = req[w].single /\ a.ids = req[w].own)
    BY <1>6 DEF Answer
  <2>7. req[w].single /\ IsWrite(req[w]) => e \in log
    BY <2>2 DEF Filed
  <2>8. e.what = "write" /\ e.ids = req[w].own
    BY <2>1
  <2> QED
    BY <2>4, <2>5, <2>6, <2>7, <2>8, RecordedStep
<1>7. CASE Close(w)
  <2>1. /\ req' = [req EXCEPT ![w] = Idle] /\ Idle.log = {}
        /\ journal' = journal \cup req[w].log /\ UNCHANGED <<landing, acked>>
    BY <1>7 DEF Close, Idle
  <2> QED
    BY <2>1, RecordedStep
<1> QED
  BY <1>1, <1>2, <1>3, <1>4, <1>5, <1>6, <1>7 DEF Run

(* A request begins with an empty session.                                   *)
LEMMA BeginRecorded ==
  ASSUME Typed, Recorded, NEW w \in Worker, NEW pc, NEW single, NEW key, NEW rows,
         Begin(w, pc, single, key, rows)
  PROVE  Recorded'
<1>1. PICK x : x = [Idle EXCEPT !.pc = pc, !.single = single, !.key = key, !.rows = rows]
  OBVIOUS
<1>2. x.log = {} /\ req[w].log = {} /\ req[w].pc = "idle"
  BY <1>1 DEF Idle, Recorded, Begin
<1>3. req' = [req EXCEPT ![w] = x] /\ UNCHANGED <<landing, journal, acked>>
  BY <1>1 DEF Begin
<1> QED
  BY <1>2, <1>3, MoveRecorded

(* Without crashes, once no request is in flight every promoted row is in a  *)
(* committed promotion batch and every accepted single write in a committed  *)
(* event, whatever requests overlapped or were refused (get_db, the session  *)
(* that commits last).                                                       *)
THEOREM AlwaysOnRecord == ASSUME ~MayCrash PROVE Spec => []OnRecord
<1>1. Init => Recorded
  BY DEF Init, Idle, NoRow, Recorded
<1>2. Typed /\ Recorded /\ [Next]_vars => Recorded'
  <2> SUFFICES ASSUME Typed, Recorded, [Next]_vars PROVE Recorded'
    OBVIOUS
  <2>1. CASE UNCHANGED vars
    BY <2>1 DEF vars, Recorded, BatchFiled, WriteFiled
  <2> QED
    BY <2>1, BeginRecorded, RunRecorded DEF Next, Submit, RunPromotion, Crash
<1>3. Recorded => OnRecord
  <2> SUFFICES ASSUME Recorded, \A w \in Worker : req[w].pc = "idle"
               PROVE  /\ \A i \in LandingId : landing[i].status = "promoted" =>
                           \E e \in journal : e.what = "batch" /\ i \in e.ids
                      /\ \A a \in acked : a.single =>
                           \E e \in journal : e.what = "write" /\ e.ids = a.ids
    BY DEF OnRecord
  <2>1. \A w \in Worker : req[w].log = {}
    BY DEF Recorded
  <2> QED
    BY <2>1 DEF Recorded, BatchFiled, WriteFiled
<1> QED
  BY <1>1, <1>2, <1>3, TypedAlways, PTL DEF Spec

----------------------------------------------------------------------------
(* Staging.  While no two promotions have read the same row, the rows one    *)
(* has read are still pending when it stages them.                           *)

\* No row is about to be staged by two promotions: what SELECT ... FOR UPDATE
\* would give.
Apart ==
  \A v, w \in Worker :
    v # w /\ req[v].pc = "stage" /\ req[w].pc = "stage" => req[v].batch \cap req[w].batch = {}

Reading(r) == r.pc = "stage" => \A i \in r.batch : landing[i].status = "pending"

Once == StagedOnce /\ \A w \in Worker : Reading(req[w])

(* A step that changes neither the rows nor their staging, and reads none    *)
(* that is not pending.                                                      *)
LEMMA QuietOnce ==
  ASSUME Typed, Once, NEW w \in Worker, NEW x, req' = [req EXCEPT ![w] = x],
         Reading(x), UNCHANGED <<landing, staged>>
  PROVE  Once'
<1>1. \A v \in Worker : req'[v] = IF v = w THEN x ELSE req[v]
  BY DEF Typed, TypeOK
<1> QED
  BY <1>1 DEF Once, StagedOnce, Reading

(* A step that leaves every row pending that another promotion has read.     *)
LEMMA OthersOnce ==
  ASSUME Typed, Once, NEW w \in Worker, NEW x, req' = [req EXCEPT ![w] = x],
         x.pc # "stage", StagedOnce',
         \A v \in Worker \ {w} : req[v].pc = "stage" =>
           \A i \in req[v].batch : landing[i].status = "pending" => landing'[i].status = "pending"
  PROVE  Once'
<1>1. \A v \in Worker : req'[v] = IF v = w THEN x ELSE req[v]
  BY DEF Typed, TypeOK
<1> QED
  BY <1>1 DEF Once, Reading

(* One case for each operation.                                              *)
LEMMA RunOnce ==
  ASSUME Typed, Owned, Apart, Once, NEW w \in Worker, Run(w)
  PROVE  Once'
<1>0. /\ req[w] \in Request /\ req \in [Worker -> Request]
      /\ landing \in [LandingId -> Row] /\ staged \in [LandingId -> Nat]
  BY DEF Typed, TypeOK
<1>1. ASSUME NEW x, req' = [req EXCEPT ![w] = x], x.pc # "stage", UNCHANGED <<landing, staged>>
      PROVE  Once'
  BY <1>1, QuietOnce DEF Reading
<1>10. Idle.pc # "stage"
  BY DEF Idle
<1>2. CASE Fail(w)
  BY <1>1, <1>2, <1>10 DEF Fail
<1>3. CASE LookUp(w)
  <2>1. CASE Goto(w, "insert")
    <3>1. PICK x : x = [req[w] EXCEPT !.pc = "insert"]
      OBVIOUS
    <3>2. x.pc = "insert"
      BY <1>0, <3>1 DEF Request
    <3>3. req' = [req EXCEPT ![w] = x]
      BY <2>1, <3>1 DEF Goto
    <3> QED
      BY <1>1, <1>3, <3>2, <3>3 DEF LookUp
  <2>2. CASE ~Goto(w, "insert")
    <3>1. PICK i : req' = [req EXCEPT ![w] = [@ EXCEPT !.own = {i}, !.pc = "answer"]]
      BY <1>3, <2>2 DEF LookUp
    <3>2. PICK x : x = [req[w] EXCEPT !.own = {i}, !.pc = "answer"]
      OBVIOUS
    <3>3. x.pc = "answer"
      BY <1>0, <3>2 DEF Request
    <3> QED
      BY <1>1, <1>3, <3>1, <3>2, <3>3 DEF LookUp
  <2> QED
    BY <2>1, <2>2
<1>4. CASE Insert(w) /\ ~Fail(w)
  <2>1. PICK own : req' = [req EXCEPT ![w] = [@ EXCEPT !.own = own, !.pc = "commit"]]
    BY <1>4 DEF Insert
  <2>2. PICK x : x = [req[w] EXCEPT !.own = own, !.pc = "commit"]
    OBVIOUS
  <2>3. x.pc = "commit"
    BY <1>0, <2>2 DEF Request
  <2> QED
    BY <1>1, <1>4, <2>1, <2>2, <2>3 DEF Insert
<1>5. CASE Commit(w)
  <2>1. PICK x : x = [req[w] EXCEPT !.pc = IF AutoPromote THEN "promote" ELSE "answer"]
    OBVIOUS
  <2>2. x.pc # "stage"
    BY <1>0, <2>1 DEF Request
  <2>3. req' = [req EXCEPT ![w] = x] /\ req[w].pc # "idle" /\ staged' = staged
    BY <1>5, <2>1 DEF Commit, Goto
  <2>4. StagedOnce'
    BY <1>5, <2>3, CommitLands DEF Once, StagedOnce
  <2>5. \A i \in LandingId : landing[i].status = "pending" => landing'[i].status = "pending"
    BY <1>5, CommitLands
  <2>6. \A v \in Worker : req[v].batch \subseteq LandingId
    BY <1>0 DEF Request
  <2> QED
    BY <2>2, <2>3, <2>4, <2>5, <2>6, OthersOnce
<1>6. CASE Select(w)
  <2>1. PICK x : x = [req[w] EXCEPT !.batch = Oldest(Pending), !.pc = "stage"]
    OBVIOUS
  <2>2. x.batch = Oldest(Pending)
    BY <1>0, <2>1 DEF Request
  <2>3. Reading(x)
    BY <2>2 DEF Reading, Oldest, Pending
  <2>4. req' = [req EXCEPT ![w] = x] /\ UNCHANGED <<landing, staged>>
    BY <1>6, <2>1 DEF Select
  <2> QED
    BY <2>3, <2>4, QuietOnce
<1>7. CASE Stage(w) /\ ~Fail(w)
  <2>1. PICK log : log = req[w].log \cup {[what |-> "batch", ids |-> req[w].batch]}
    OBVIOUS
  <2>2. PICK x : x = [req[w] EXCEPT !.pc = "answer", !.log = log]
    OBVIOUS
  <2>3. x.pc = "answer"
    BY <1>0, <2>2 DEF Request
  <2>4. req' = [req EXCEPT ![w] = x] /\ req[w].pc = "stage"
    BY <1>7, <2>1, <2>2 DEF Stage
  <2>5. \A i \in req[w].batch : i \in LandingId /\ landing[i].status = "pending" /\ staged[i] = 0
    BY <1>0, <2>4 DEF Once, Reading, StagedOnce, Request
  <2>6. ASSUME NEW i \in LandingId
        PROVE  staged'[i] = IF landing'[i].status = "promoted" THEN 1 ELSE 0
    <3>1. CASE i \notin req[w].batch
      <4>1. landing'[i] = landing[i] /\ staged'[i] = staged[i]
        BY <1>7, <3>1 DEF Stage, StagedOf
      <4> QED
        BY <4>1 DEF Once, StagedOnce
    <3>2. CASE i \in req[w].batch
      <4>1. landing[i] \in Row
        BY <1>0
      <4>2. /\ landing'[i] = Settled(landing[i])
            /\ staged'[i] = IF landing[i].kind # "raises" THEN staged[i] + 1 ELSE staged[i]
        BY <1>7, <3>2 DEF Stage, StagedOf
      <4>3. landing'[i].status = IF landing[i].kind = "raises" THEN "error" ELSE "promoted"
        BY <4>1, <4>2 DEF Settled, Row
      <4> QED
        BY <2>5, <3>2, <4>2, <4>3
    <3> QED
      BY <3>1, <3>2
  <2>7. StagedOnce'
    BY <2>6 DEF StagedOnce
  <2>8. ASSUME NEW v \in Worker \ {w}, req[v].pc = "stage", NEW i \in req[v].batch
        PROVE  landing'[i] = landing[i]
    <3>1. i \in LandingId /\ i \notin req[w].batch
      BY <1>0, <2>4, <2>8 DEF Apart, Request
    <3> QED
      BY <1>7, <3>1 DEF Stage
  <2> QED
    BY <2>3, <2>4, <2>7, <2>8, OthersOnce
<1>8. CASE Answer(w)
  <2>1. PICK log : log = IF IsWrite(req[w]) /\ Filed(req[w])
                         THEN req[w].log \cup {[what |-> "write", ids |-> req[w].own]}
                         ELSE req[w].log
    OBVIOUS
  <2>2. PICK x : x = [req[w] EXCEPT !.pc = "close", !.log = log]
    OBVIOUS
  <2>3. x.pc = "close"
    BY <1>0, <2>2 DEF Request
  <2> QED
    BY <1>1, <1>8, <2>1, <2>2, <2>3 DEF Answer
<1>9. CASE Close(w)
  BY <1>1, <1>9, <1>10 DEF Close
<1> QED
  BY <1>2, <1>3, <1>4, <1>5, <1>6, <1>7, <1>8, <1>9 DEF Run

(* While no two promotions have read the same row, a landing row is staged   *)
(* once if it is marked promoted and not at all otherwise, whatever crashes  *)
(* and retries (promote_landing_to_staging: one transaction for both).       *)
THEOREM AlwaysStagedOnce == Spec /\ []Apart => []StagedOnce
<1>1. Init => Owned /\ Once
  BY DEF Init, Idle, NoRow, Owned, Numbered, BlocksApart, OwnSound, Moved, Once, StagedOnce,
         Reading
<1>2. Typed /\ Owned /\ Apart /\ Once /\ [Next]_vars => Once'
  <2> SUFFICES ASSUME Typed, Owned, Apart, Once, [Next]_vars PROVE Once'
    OBVIOUS
  <2>1. CASE UNCHANGED vars
    BY <2>1 DEF vars, Once, StagedOnce, Reading
  <2>2. ASSUME NEW w \in Worker, NEW pc \in {"lookup", "insert", "promote"},
               NEW single, NEW key, NEW rows, Begin(w, pc, single, key, rows)
        PROVE  Once'
    <3>1. PICK x : x = [Idle EXCEPT !.pc = pc, !.single = single, !.key = key, !.rows = rows]
      OBVIOUS
    <3>2. x.pc = pc
      BY <3>1 DEF Idle
    <3> QED
      BY <2>2, <3>1, <3>2, QuietOnce DEF Begin, Reading
  <2>3. ASSUME NEW w \in Worker, Crash(w) PROVE Once'
    BY <2>3, QuietOnce DEF Crash, Fail, Idle, Reading
  <2> QED
    BY <2>1, <2>2, <2>3, RunOnce DEF Next, Submit, RunPromotion
<1>3. Once => StagedOnce
  BY DEF Once
<1> QED
  BY <1>1, <1>2, <1>3, TypedAlways, OwnedStep, PTL DEF Spec
===============================================================================
