----------------------------- MODULE Pool_proofs -----------------------------
(* What requests hold, for pools and thread pools of every size.            *)
EXTENDS Pool, FiniteSetTheorems, TLAPS

Threaded  == {r \in Request : HoldsThread(r)}
Sessions  == {r \in Request : HoldsSession(r)}
Blocks(e) == {r \in Request : HoldsBlock(r, e)}

\* The types without the bounds: those follow from what is held.
Shape ==
  /\ req \in [Request -> [pc : Pc, engine : Engine, left : 0 .. MaxBlocks, async : BOOLEAN]]
  /\ free \in [Engine -> Nat]
  /\ threads \in Nat

Inv == Shape /\ NothingLeaks

InBlock(row, e) == row.pc = "block" /\ row.engine = e

\* One if so, else none.
One(b) == IF b THEN 1 ELSE 0

(* Adding a member to a finite set, or removing one.                        *)
LEMMA Counting ==
  ASSUME NEW S, IsFiniteSet(S), NEW r
  PROVE  /\ Cardinality(S) \in Nat
         /\ Cardinality(S \cup {r}) = Cardinality(S) + 1 - One(r \in S)
         /\ Cardinality(S \ {r}) = Cardinality(S) - One(r \in S)
<1>1. Cardinality(S) \in Nat
  BY FS_CardinalityType
<1>2. /\ Cardinality(S \cup {r}) = IF r \in S THEN Cardinality(S) ELSE Cardinality(S) + 1
      /\ Cardinality(S \ {r}) = IF r \in S THEN Cardinality(S) - 1 ELSE Cardinality(S)
  BY FS_AddElement, FS_RemoveElement
<1> QED
  BY <1>1, <1>2 DEF One

InThread(row) ==
  \/ row.pc \in {"connecting", "principal"}
  \/ row.pc \in {"handler", "waiting", "block"} /\ ~row.async

SessionPc == {"principal", "queued", "handler", "waiting", "block", "closing"}

(* What is held changes by what the one request that moves takes and gives. *)
LEMMA Recount ==
  ASSUME Shape, NEW r \in Request, NEW new, req' = [req EXCEPT ![r] = new], NEW e
  PROVE  /\ Cardinality(Threaded') = Cardinality(Threaded)
              + One(InThread(new)) - One(InThread(req[r]))
         /\ Cardinality(Sessions') = Cardinality(Sessions)
              + One(new.pc \in SessionPc) - One(req[r].pc \in SessionPc)
         /\ Cardinality(Blocks(e)') = Cardinality(Blocks(e))
              + One(InBlock(new, e))
              - One(InBlock(req[r], e))
         /\ Cardinality(Threaded) \in Nat /\ Cardinality(Sessions) \in Nat
         /\ Cardinality(Blocks(e)) \in Nat
<1>1. req'[r] = new /\ \A s \in Request \ {r} : req'[s] = req[s]
  BY DEF Shape
<1>2. IsFiniteSet(Threaded) /\ IsFiniteSet(Sessions) /\ IsFiniteSet(Blocks(e))
  BY PoolAssumption, FS_Subset DEF Threaded, Sessions, Blocks
<1>3. Threaded' = IF InThread(new) THEN Threaded \cup {r} ELSE Threaded \ {r}
  BY <1>1 DEF Threaded, HoldsThread, InHandler, InThread
<1>4. Sessions' = IF new.pc \in SessionPc THEN Sessions \cup {r} ELSE Sessions \ {r}
  BY <1>1 DEF Sessions, HoldsSession, SessionPc
<1>5. Blocks(e)' = IF InBlock(new, e) THEN Blocks(e) \cup {r}
                                   ELSE Blocks(e) \ {r}
  BY <1>1 DEF Blocks, HoldsBlock, InBlock
<1>6. /\ r \in Threaded <=> InThread(req[r])
      /\ r \in Sessions <=> req[r].pc \in SessionPc
      /\ r \in Blocks(e) <=> InBlock(req[r], e)
  BY DEF Threaded, Sessions, Blocks, HoldsThread, InHandler, HoldsSession, HoldsBlock, InBlock,
         InThread, SessionPc
<1>7. /\ Cardinality(Threaded) \in Nat
      /\ Cardinality(Threaded') = Cardinality(Threaded)
              + One(InThread(new)) - One(r \in Threaded)
  <2>1. CASE InThread(new)
    <3>1. Threaded' = Threaded \cup {r}
      BY <1>3, <2>1
    <3>2. Cardinality(Threaded \cup {r}) = Cardinality(Threaded) + 1 - One(r \in Threaded)
      BY <1>2, Counting
    <3>3. Cardinality(Threaded) \in Nat
      BY <1>2, Counting
    <3> QED
      BY <2>1, <3>1, <3>2, <3>3 DEF One
  <2>2. CASE ~(InThread(new))
    <3>1. Threaded' = Threaded \ {r}
      BY <1>3, <2>2
    <3>2. Cardinality(Threaded \ {r}) = Cardinality(Threaded) - One(r \in Threaded)
      BY <1>2, Counting
    <3>3. Cardinality(Threaded) \in Nat
      BY <1>2, Counting
    <3> QED
      BY <2>2, <3>1, <3>2, <3>3 DEF One
  <2> QED
    BY <2>1, <2>2
<1>8. /\ Cardinality(Sessions) \in Nat
      /\ Cardinality(Sessions') = Cardinality(Sessions)
              + One(new.pc \in SessionPc) - One(r \in Sessions)
  <2>1. CASE new.pc \in SessionPc
    <3>1. Sessions' = Sessions \cup {r}
      BY <1>4, <2>1
    <3>2. Cardinality(Sessions \cup {r}) = Cardinality(Sessions) + 1 - One(r \in Sessions)
      BY <1>2, Counting
    <3>3. Cardinality(Sessions) \in Nat
      BY <1>2, Counting
    <3> QED
      BY <2>1, <3>1, <3>2, <3>3 DEF One
  <2>2. CASE ~(new.pc \in SessionPc)
    <3>1. Sessions' = Sessions \ {r}
      BY <1>4, <2>2
    <3>2. Cardinality(Sessions \ {r}) = Cardinality(Sessions) - One(r \in Sessions)
      BY <1>2, Counting
    <3>3. Cardinality(Sessions) \in Nat
      BY <1>2, Counting
    <3> QED
      BY <2>2, <3>1, <3>2, <3>3 DEF One
  <2> QED
    BY <2>1, <2>2
<1>9. /\ Cardinality(Blocks(e)) \in Nat
      /\ Cardinality(Blocks(e)') = Cardinality(Blocks(e))
              + One(InBlock(new, e)) - One(r \in Blocks(e))
  <2>1. CASE InBlock(new, e)
    <3>1. Blocks(e)' = Blocks(e) \cup {r}
      BY <1>5, <2>1
    <3>2. Cardinality(Blocks(e) \cup {r}) = Cardinality(Blocks(e)) + 1 - One(r \in Blocks(e))
      BY <1>2, Counting
    <3>3. Cardinality(Blocks(e)) \in Nat
      BY <1>2, Counting
    <3> QED
      BY <2>1, <3>1, <3>2, <3>3 DEF One
  <2>2. CASE ~InBlock(new, e)
    <3>1. Blocks(e)' = Blocks(e) \ {r}
      BY <1>5, <2>2
    <3>2. Cardinality(Blocks(e) \ {r}) = Cardinality(Blocks(e)) - One(r \in Blocks(e))
      BY <1>2, Counting
    <3>3. Cardinality(Blocks(e)) \in Nat
      BY <1>2, Counting
    <3> QED
      BY <2>2, <3>1, <3>2, <3>3 DEF One
  <2> QED
    BY <2>1, <2>2
<1>10. /\ One(r \in Threaded) = One(InThread(req[r]))
       /\ One(r \in Sessions) = One(req[r].pc \in SessionPc)
       /\ One(r \in Blocks(e)) = One(InBlock(req[r], e))
  BY <1>6 DEF One
<1> QED
  BY <1>7, <1>8, <1>9, <1>10

Row == [pc : Pc, engine : Engine, left : 0 .. MaxBlocks, async : BOOLEAN]

(* A request that moves takes what it holds next and gives what it held.    *)
LEMMA OneMoves ==
  ASSUME Inv, NEW r \in Request, NEW new \in Row, req' = [req EXCEPT ![r] = new],
         free' \in [Engine -> Nat], threads' \in Nat,
         threads' = threads - One(InThread(new)) + One(InThread(req[r])),
         free'["ddl"] = free["ddl"]
            - One(InBlock(new, "ddl"))
            + One(InBlock(req[r], "ddl")),
         free'["runtime"] = free["runtime"]
            - One(new.pc \in SessionPc) + One(req[r].pc \in SessionPc)
            - One(InBlock(new, "runtime"))
            + One(InBlock(req[r], "runtime"))
  PROVE  Inv'
<1>1. Shape'
  BY DEF Inv, Shape, Row
<1>2. \A e : Blocks(e) = {q \in Request : HoldsBlock(q, e)}
  BY DEF Blocks
<1>3. \A b : One(b) \in Int
  BY DEF One
<1>4. threads \in Nat /\ free["ddl"] \in Nat /\ free["runtime"] \in Nat
  BY DEF Inv, Shape, Engine
<1>5. threads' + Cardinality(Threaded') = Threads
  <2>1. threads + Cardinality(Threaded) = Threads
    BY DEF Inv, NothingLeaks, Threaded
  <2>2. /\ Cardinality(Threaded) \in Nat
        /\ Cardinality(Threaded') = Cardinality(Threaded)
              + One(InThread(new)) - One(InThread(req[r]))
    BY Recount DEF Inv
  <2> QED
    BY <1>3, <1>4, <2>1, <2>2
<1>6. free'["ddl"] + Cardinality(Blocks("ddl")') = DdlSize
  <2>1. free["ddl"] + Cardinality(Blocks("ddl")) = DdlSize
    BY DEF Inv, NothingLeaks, Blocks
  <2>2. /\ Cardinality(Blocks("ddl")) \in Nat
        /\ Cardinality(Blocks("ddl")') = Cardinality(Blocks("ddl"))
              + One(InBlock(new, "ddl"))
              - One(InBlock(req[r], "ddl"))
    BY Recount DEF Inv
  <2> QED
    BY <1>3, <1>4, <2>1, <2>2
<1>7. free'["runtime"] + Cardinality(Sessions') + Cardinality(Blocks("runtime")') = RuntimeSize
  <2>1. free["runtime"] + Cardinality(Sessions) + Cardinality(Blocks("runtime")) = RuntimeSize
    BY DEF Inv, NothingLeaks, Sessions, Blocks
  <2>2. /\ Cardinality(Blocks("runtime")) \in Nat
        /\ Cardinality(Blocks("runtime")') = Cardinality(Blocks("runtime"))
              + One(InBlock(new, "runtime"))
              - One(InBlock(req[r], "runtime"))
    BY Recount DEF Inv
  <2>3. /\ Cardinality(Sessions) \in Nat
        /\ Cardinality(Sessions') = Cardinality(Sessions)
              + One(new.pc \in SessionPc) - One(req[r].pc \in SessionPc)
    BY Recount DEF Inv
  <2> QED
    BY <1>3, <1>4, <2>1, <2>2, <2>3
<1> QED
  BY <1>1, <1>5, <1>6, <1>7 DEF Inv, NothingLeaks, Threaded, Sessions, Blocks

(* Every step is a move of one request.                                     *)
LEMMA InvStep == Inv /\ [Next]_vars => Inv'
<1> SUFFICES ASSUME Inv, [Next]_vars
             PROVE  Inv'
  OBVIOUS
<1>1. CASE UNCHANGED vars
  BY <1>1 DEF Inv, Shape, NothingLeaks, HoldsThread, InHandler, HoldsSession, HoldsBlock, vars
<1>2. ASSUME NEW r \in Request
      PROVE  /\ req[r] \in Row /\ threads \in Nat /\ free \in [Engine -> Nat]
             /\ \A pc \in Pc : /\ [req[r] EXCEPT !.pc = pc] \in Row
                               /\ [req[r] EXCEPT !.pc = pc].pc = pc
                               /\ [req[r] EXCEPT !.pc = pc].engine = req[r].engine
                               /\ [req[r] EXCEPT !.pc = pc].async = req[r].async
  BY <1>2 DEF Inv, Shape, Row
<1>3. ASSUME NEW r \in Request, OpenSession(r)
      PROVE  Inv'
  <2> DEFINE new == [req[r] EXCEPT !.pc = "principal"]
  <2>1. /\ new \in Row /\ new.pc = "principal" /\ new.engine = req[r].engine /\ new.async = req[r].async
        /\ req[r].engine \in Engine /\ req[r].pc = "connecting"
    BY <1>2, <1>3 DEF Pc, Row, OpenSession
  <2>2. req' = [req EXCEPT ![r] = new]
    BY <1>3 DEF OpenSession, Goto
  <2> HIDE DEF new
  <2>3. /\ threads' \in Nat /\ free' \in [Engine -> Nat]
        /\ threads' = threads - One(InThread(new)) + One(InThread(req[r]))
    BY <1>2, <1>3, <2>1 DEF OpenSession, TakeConnection, InThread, SessionPc, InBlock, One, Engine
  <2>4. /\ free'["ddl"] = free["ddl"]
              - One(InBlock(new, "ddl"))
              + One(InBlock(req[r], "ddl"))
        /\ free'["runtime"] = free["runtime"]
              - One(new.pc \in SessionPc) + One(req[r].pc \in SessionPc)
              - One(InBlock(new, "runtime"))
              + One(InBlock(req[r], "runtime"))
    BY <1>2, <1>3, <2>1 DEF OpenSession, TakeConnection, InThread, SessionPc, InBlock, One, Engine
  <2> QED
    BY <2>1, <2>2, <2>3, <2>4, OneMoves
<1>4. ASSUME NEW r \in Request, Resolve(r)
      PROVE  Inv'
  <2> DEFINE new == [req[r] EXCEPT !.pc = "queued"]
  <2>1. /\ new \in Row /\ new.pc = "queued" /\ new.engine = req[r].engine /\ new.async = req[r].async
        /\ req[r].engine \in Engine /\ req[r].pc = "principal"
    BY <1>2, <1>4 DEF Pc, Row, Resolve
  <2>2. req' = [req EXCEPT ![r] = new]
    BY <1>4 DEF Resolve, Goto
  <2> HIDE DEF new
  <2>3. /\ threads' \in Nat /\ free' \in [Engine -> Nat]
        /\ threads' = threads - One(InThread(new)) + One(InThread(req[r]))
    BY <1>2, <1>4, <2>1 DEF Resolve, Return, GiveThread, HoldsThread, InHandler, InThread, SessionPc, InBlock, One, Engine
  <2>4. /\ free'["ddl"] = free["ddl"]
              - One(InBlock(new, "ddl"))
              + One(InBlock(req[r], "ddl"))
        /\ free'["runtime"] = free["runtime"]
              - One(new.pc \in SessionPc) + One(req[r].pc \in SessionPc)
              - One(InBlock(new, "runtime"))
              + One(InBlock(req[r], "runtime"))
    BY <1>2, <1>4, <2>1 DEF Resolve, Return, GiveThread, HoldsThread, InHandler, InThread, SessionPc, InBlock, One, Engine
  <2> QED
    BY <2>1, <2>2, <2>3, <2>4, OneMoves
<1>5. ASSUME NEW r \in Request, StartHandler(r)
      PROVE  Inv'
  <2> DEFINE new == [req[r] EXCEPT !.pc = "handler"]
  <2>1. /\ new \in Row /\ new.pc = "handler" /\ new.engine = req[r].engine /\ new.async = req[r].async
        /\ req[r].engine \in Engine /\ req[r].pc = "queued"
    BY <1>2, <1>5 DEF Pc, Row, StartHandler
  <2>2. req' = [req EXCEPT ![r] = new]
    BY <1>5 DEF StartHandler, Goto
  <2> HIDE DEF new
  <2>3. /\ threads' \in Nat /\ free' \in [Engine -> Nat]
        /\ threads' = threads - One(InThread(new)) + One(InThread(req[r]))
    BY <1>2, <1>5, <2>1 DEF StartHandler, TakeThread, InThread, SessionPc, InBlock, One, Engine
  <2>4. /\ free'["ddl"] = free["ddl"]
              - One(InBlock(new, "ddl"))
              + One(InBlock(req[r], "ddl"))
        /\ free'["runtime"] = free["runtime"]
              - One(new.pc \in SessionPc) + One(req[r].pc \in SessionPc)
              - One(InBlock(new, "runtime"))
              + One(InBlock(req[r], "runtime"))
    BY <1>2, <1>5, <2>1 DEF StartHandler, TakeThread, InThread, SessionPc, InBlock, One, Engine
  <2> QED
    BY <2>1, <2>2, <2>3, <2>4, OneMoves
<1>6. ASSUME NEW r \in Request, CheckOut(r)
      PROVE  Inv'
  <2> DEFINE new == [req[r] EXCEPT !.pc = "block"]
  <2>1. /\ new \in Row /\ new.pc = "block" /\ new.engine = req[r].engine /\ new.async = req[r].async
        /\ req[r].engine \in Engine /\ req[r].pc = "waiting"
    BY <1>2, <1>6 DEF Pc, Row, CheckOut
  <2>2. req' = [req EXCEPT ![r] = new]
    BY <1>6 DEF CheckOut, Goto
  <2> HIDE DEF new
  <2>3. /\ threads' \in Nat /\ free' \in [Engine -> Nat]
        /\ threads' = threads - One(InThread(new)) + One(InThread(req[r]))
    BY <1>2, <1>6, <2>1 DEF CheckOut, TakeConnection, InThread, SessionPc, InBlock, One, Engine
  <2>4. /\ free'["ddl"] = free["ddl"]
              - One(InBlock(new, "ddl"))
              + One(InBlock(req[r], "ddl"))
        /\ free'["runtime"] = free["runtime"]
              - One(new.pc \in SessionPc) + One(req[r].pc \in SessionPc)
              - One(InBlock(new, "runtime"))
              + One(InBlock(req[r], "runtime"))
    BY <1>2, <1>6, <2>1 DEF CheckOut, TakeConnection, InThread, SessionPc, InBlock, One, Engine
  <2> QED
    BY <2>1, <2>2, <2>3, <2>4, OneMoves
<1>7. ASSUME NEW r \in Request, LeaveBlock(r)
      PROVE  Inv'
  <2> DEFINE new == [req[r] EXCEPT !.pc = "handler"]
  <2>1. /\ new \in Row /\ new.pc = "handler" /\ new.engine = req[r].engine /\ new.async = req[r].async
        /\ req[r].engine \in Engine /\ req[r].pc = "block"
    BY <1>2, <1>7 DEF Pc, Row, LeaveBlock
  <2>2. req' = [req EXCEPT ![r] = new]
    BY <1>7 DEF LeaveBlock, Goto
  <2> HIDE DEF new
  <2>3. /\ threads' \in Nat /\ free' \in [Engine -> Nat]
        /\ threads' = threads - One(InThread(new)) + One(InThread(req[r]))
    BY <1>2, <1>7, <2>1 DEF LeaveBlock, GiveConnection, InThread, SessionPc, InBlock, One, Engine
  <2>4. /\ free'["ddl"] = free["ddl"]
              - One(InBlock(new, "ddl"))
              + One(InBlock(req[r], "ddl"))
        /\ free'["runtime"] = free["runtime"]
              - One(new.pc \in SessionPc) + One(req[r].pc \in SessionPc)
              - One(InBlock(new, "runtime"))
              + One(InBlock(req[r], "runtime"))
    BY <1>2, <1>7, <2>1 DEF LeaveBlock, GiveConnection, InThread, SessionPc, InBlock, One, Engine
  <2> QED
    BY <2>1, <2>2, <2>3, <2>4, OneMoves
<1>8. ASSUME NEW r \in Request, Answer(r)
      PROVE  Inv'
  <2> DEFINE new == [req[r] EXCEPT !.pc = "closing"]
  <2>1. /\ new \in Row /\ new.pc = "closing" /\ new.engine = req[r].engine /\ new.async = req[r].async
        /\ req[r].engine \in Engine /\ req[r].pc = "handler"
    BY <1>2, <1>8 DEF Pc, Row, Answer
  <2>2. req' = [req EXCEPT ![r] = new]
    BY <1>8 DEF Answer, Goto
  <2> HIDE DEF new
  <2>3. /\ threads' \in Nat /\ free' \in [Engine -> Nat]
        /\ threads' = threads - One(InThread(new)) + One(InThread(req[r]))
    BY <1>2, <1>8, <2>1 DEF Answer, Return, GiveThread, HoldsThread, InHandler, InThread, SessionPc, InBlock, One, Engine
  <2>4. /\ free'["ddl"] = free["ddl"]
              - One(InBlock(new, "ddl"))
              + One(InBlock(req[r], "ddl"))
        /\ free'["runtime"] = free["runtime"]
              - One(new.pc \in SessionPc) + One(req[r].pc \in SessionPc)
              - One(InBlock(new, "runtime"))
              + One(InBlock(req[r], "runtime"))
    BY <1>2, <1>8, <2>1 DEF Answer, Return, GiveThread, HoldsThread, InHandler, InThread, SessionPc, InBlock, One, Engine
  <2> QED
    BY <2>1, <2>2, <2>3, <2>4, OneMoves
<1>9. ASSUME NEW r \in Request, EnterBlock(r)
      PROVE  Inv'
  <2> DEFINE new == [req[r] EXCEPT !.pc = "waiting", !.left = req[r].left - 1]
  <2>1. /\ new \in Row /\ new.pc = "waiting" /\ req[r].pc = "handler"
        /\ new.engine = req[r].engine /\ new.async = req[r].async
    <3>1. /\ req[r].pc = "handler" /\ req[r].engine \in Engine
          /\ req[r].left - 1 \in 0 .. MaxBlocks
      BY <1>2, <1>9, PoolAssumption DEF EnterBlock, Row
    <3>2. req[r] \in [pc : Pc, engine : Engine, left : 0 .. MaxBlocks, async : BOOLEAN]
      BY <1>2 DEF Row
    <3> QED
      BY <3>1, <3>2 DEF Row, Pc
  <2>2. req' = [req EXCEPT ![r] = new]
    BY <1>9 DEF EnterBlock
  <2> HIDE DEF new
  <2>3. /\ threads' \in Nat /\ free' \in [Engine -> Nat]
        /\ threads' = threads - One(InThread(new)) + One(InThread(req[r]))
    BY <1>2, <1>9, <2>1 DEF EnterBlock, InThread, SessionPc, InBlock, One, Engine
  <2>4. /\ free'["ddl"] = free["ddl"]
              - One(InBlock(new, "ddl"))
              + One(InBlock(req[r], "ddl"))
        /\ free'["runtime"] = free["runtime"]
              - One(new.pc \in SessionPc) + One(req[r].pc \in SessionPc)
              - One(InBlock(new, "runtime"))
              + One(InBlock(req[r], "runtime"))
    BY <1>2, <1>9, <2>1 DEF EnterBlock, InThread, SessionPc, InBlock, One, Engine
  <2> QED
    BY <2>1, <2>2, <2>3, <2>4, OneMoves
<1>10. ASSUME NEW r \in Request, Arrive(r)
       PROVE  Inv'
  <2>0. PICK e \in Engine, m \in 0 .. MaxBlocks, async \in BOOLEAN :
          req' = [req EXCEPT ![r] =
            [pc |-> "connecting", engine |-> e, left |-> m, async |-> async]]
    BY <1>10 DEF Arrive
  <2> DEFINE new == [pc |-> "connecting", engine |-> e, left |-> m, async |-> async]
  <2>1. new \in Row /\ new.pc = "connecting" /\ req[r].pc = "idle"
    BY <1>10 DEF Row, Pc, Arrive
  <2>2. req' = [req EXCEPT ![r] = new]
    BY <1>10, <2>0 DEF Arrive
  <2> HIDE DEF new
  <2>3. /\ threads' \in Nat /\ free' \in [Engine -> Nat]
        /\ threads' = threads - One(InThread(new)) + One(InThread(req[r]))
    BY <1>2, <1>10, <2>1 DEF Arrive, TakeThread, InThread, SessionPc, InBlock, One, Engine
  <2>4. /\ free'["ddl"] = free["ddl"]
              - One(InBlock(new, "ddl"))
              + One(InBlock(req[r], "ddl"))
        /\ free'["runtime"] = free["runtime"]
              - One(new.pc \in SessionPc) + One(req[r].pc \in SessionPc)
              - One(InBlock(new, "runtime"))
              + One(InBlock(req[r], "runtime"))
    BY <1>2, <1>10, <2>1 DEF Arrive, TakeThread, InThread, SessionPc, InBlock, One, Engine
  <2> QED
    BY <2>1, <2>2, <2>3, <2>4, OneMoves
<1>11. ASSUME NEW r \in Request, Close(r)
       PROVE  Inv'
  <2> DEFINE new == Nobody
  <2>1. new \in Row /\ new.pc = "idle" /\ req[r].pc = "closing"
    BY <1>11, PoolAssumption DEF Nobody, Row, Pc, Engine, Close
  <2>2. req' = [req EXCEPT ![r] = new]
    BY <1>11 DEF Close
  <2> HIDE DEF new
  <2>3. /\ threads' \in Nat /\ free' \in [Engine -> Nat]
        /\ threads' = threads - One(InThread(new)) + One(InThread(req[r]))
    BY <1>2, <1>11, <2>1 DEF Close, GiveConnection, InThread, SessionPc, InBlock, One, Engine
  <2>4. /\ free'["ddl"] = free["ddl"]
              - One(InBlock(new, "ddl"))
              + One(InBlock(req[r], "ddl"))
        /\ free'["runtime"] = free["runtime"]
              - One(new.pc \in SessionPc) + One(req[r].pc \in SessionPc)
              - One(InBlock(new, "runtime"))
              + One(InBlock(req[r], "runtime"))
    BY <1>2, <1>11, <2>1 DEF Close, GiveConnection, InThread, SessionPc, InBlock, One, Engine
  <2> QED
    BY <2>1, <2>2, <2>3, <2>4, OneMoves
<1>12. ASSUME NEW r \in Request, TimeOut(r)
       PROVE  Inv'
  <2> DEFINE new == [req[r] EXCEPT !.pc = AfterError(req[r].pc)]
  <2>1. /\ new \in Row /\ new.pc = AfterError(req[r].pc) /\ new.async = req[r].async
        /\ req[r].pc \in {"connecting", "waiting"}
    <3>1. AfterError(req[r].pc) \in Pc /\ req[r].pc \in {"connecting", "waiting"}
      BY <1>12 DEF TimeOut, AfterError, Pc
    <3> QED
      BY <1>2, <3>1
  <2>2. req' = [req EXCEPT ![r] = new]
    BY <1>12 DEF TimeOut, Goto
  <2> HIDE DEF new
  <2>3. /\ threads' \in Nat /\ free' \in [Engine -> Nat]
        /\ threads' = threads - One(InThread(new)) + One(InThread(req[r]))
    BY <1>2, <1>12, <2>1 DEF TimeOut, AfterError, Return, GiveThread, HoldsThread, InHandler, InThread, SessionPc, InBlock, One, Engine
  <2>4. /\ free'["ddl"] = free["ddl"]
              - One(InBlock(new, "ddl"))
              + One(InBlock(req[r], "ddl"))
        /\ free'["runtime"] = free["runtime"]
              - One(new.pc \in SessionPc) + One(req[r].pc \in SessionPc)
              - One(InBlock(new, "runtime"))
              + One(InBlock(req[r], "runtime"))
    BY <1>2, <1>12, <2>1 DEF TimeOut, AfterError, Return, GiveThread, HoldsThread, InHandler, InThread, SessionPc, InBlock, One, Engine
  <2> QED
    BY <2>1, <2>2, <2>3, <2>4, OneMoves
<1> QED
  BY <1>1, <1>3, <1>4, <1>5, <1>6, <1>7, <1>8, <1>9, <1>10, <1>11, <1>12 DEF Next, Work, Turn

(* Nobody holds anything at first.                                          *)
LEMMA InvInit == Init => Inv
<1> SUFFICES ASSUME Init PROVE Inv
  OBVIOUS
<1>1. /\ {r \in Request : HoldsThread(r)} = {} /\ {r \in Request : HoldsSession(r)} = {}
      /\ \A e : {r \in Request : HoldsBlock(r, e)} = {}
  BY DEF Init, Nobody, HoldsThread, InHandler, HoldsSession, HoldsBlock
<1>2. Shape
  BY PoolAssumption DEF Init, Shape, Nobody, Pc, Engine, Size
<1>3. NothingLeaks
  BY <1>1, FS_EmptySet, PoolAssumption DEF Init, NothingLeaks, Size, Engine
<1> QED
  BY <1>2, <1>3 DEF Inv

(* So the invariant always holds.                                           *)
LEMMA InvAlways == Spec => []Inv
BY InvInit, InvStep, PTL DEF Spec

(* Whatever way requests end, everything they held is free again            *)
(* (get_db, the with blocks of the handlers), for pools of every size.      *)
THEOREM NothingEverLeaks == Spec => []NothingLeaks
<1>1. Inv => NothingLeaks
  BY DEF Inv
<1> QED
  BY <1>1, InvAlways, PTL


(* What is held is counted in natural numbers.                              *)
LEMMA HeldFinite ==
  /\ IsFiniteSet(Threaded) /\ Cardinality(Threaded) \in Nat
  /\ IsFiniteSet(Sessions) /\ Cardinality(Sessions) \in Nat
  /\ \A e : IsFiniteSet(Blocks(e)) /\ Cardinality(Blocks(e)) \in Nat
  /\ IsFiniteSet(InFlight) /\ Cardinality(InFlight) \in Nat
<1>1. /\ Threaded \subseteq Request /\ Sessions \subseteq Request /\ InFlight \subseteq Request
      /\ \A e : Blocks(e) \subseteq Request
  BY DEF Threaded, Sessions, Blocks, InFlight
<1>2. /\ IsFiniteSet(Threaded) /\ IsFiniteSet(Sessions) /\ IsFiniteSet(InFlight)
      /\ \A e : IsFiniteSet(Blocks(e))
  BY <1>1, PoolAssumption, FS_Subset
<1> QED
  BY <1>2, FS_CardinalityType

(* The counts that Inv balances, in the terms of the sets.                  *)
LEMMA Balance ==
  ASSUME Inv
  PROVE  /\ threads + Cardinality(Threaded) = Threads
         /\ free["ddl"] + Cardinality(Blocks("ddl")) = DdlSize
         /\ free["runtime"] + Cardinality(Sessions) + Cardinality(Blocks("runtime")) = RuntimeSize
         /\ threads \in Nat /\ free["ddl"] \in Nat /\ free["runtime"] \in Nat
BY DEF Inv, Shape, NothingLeaks, Threaded, Sessions, Blocks, Engine

(* The pools are never overdrawn, nor given back more than was taken.       *)
THEOREM TypeCorrect == Spec => []TypeOK
<1>1. ASSUME Inv PROVE TypeOK
  <2>1. threads \in 0 .. Threads
    BY <1>1, Balance, HeldFinite, PoolAssumption
  <2>2. free["ddl"] \in 0 .. DdlSize
    BY <1>1, Balance, HeldFinite, PoolAssumption
  <2>3. free["runtime"] \in 0 .. RuntimeSize
    BY <1>1, Balance, HeldFinite, PoolAssumption
  <2>4. \A e \in Engine : free[e] \in 0 .. Size[e]
    BY <2>2, <2>3 DEF Engine, Size
  <2> QED
    BY <1>1, <2>1, <2>4 DEF TypeOK, Inv, Shape
<1> QED
  BY <1>1, InvAlways, PTL

(* As long as fewer requests are in flight than the runtime engine has      *)
(* connections, some request can go on without a timeout, whatever threads  *)
(* and DDL connections there are, and even while an async handler blocks    *)
(* the event loop: when everybody waits, no block is open, so that a        *)
(* runtime connection is left and nobody waits for one; then no handler     *)
(* blocks the loop, and all wait for a thread while nobody holds one.       *)
THEOREM NoGridlock == Spec => []NoGridlockBelowSize
<1>1. ASSUME Inv PROVE NoGridlockBelowSize
  <2> SUFFICES ASSUME InFlight # {}, Cardinality(InFlight) < RuntimeSize,
                      \A r \in InFlight : Stuck(r)
               PROVE  FALSE
    BY DEF NoGridlockBelowSize
  <2>1. \A r \in InFlight : req[r].pc # "block"
    BY DEF Stuck
  <2>2. \A e : Blocks(e) = {}
    BY <2>1 DEF Blocks, HoldsBlock, InFlight
  <2>3. free["ddl"] > 0
    <3>1. Cardinality(Blocks("ddl")) = 0
      BY <2>2, FS_EmptySet
    <3> QED
      BY <1>1, <3>1, Balance, PoolAssumption
  <2>4. free["runtime"] > 0
    <3>1. Cardinality(Blocks("runtime")) = 0
      BY <2>2, FS_EmptySet
    <3>2. Cardinality(Sessions) <= Cardinality(InFlight)
      <4>1. Sessions \subseteq InFlight
        BY DEF Sessions, HoldsSession, InFlight
      <4> QED
        BY <4>1, HeldFinite, FS_Subset
    <3> QED
      BY <1>1, <3>1, <3>2, Balance, HeldFinite, PoolAssumption
  <2>5. \A r \in InFlight : req[r].pc \notin {"connecting", "waiting", "block"}
    <3>1. \A r \in InFlight : req[r].engine \in Engine
      BY <1>1 DEF Inv, Shape, InFlight
    <3> QED
      BY <2>1, <2>3, <2>4, <3>1 DEF Stuck, Engine
  <2>6. LoopFree
    <3> SUFFICES ASSUME NEW r \in Request, req[r].async, InHandler(r)
                 PROVE  FALSE
      BY DEF LoopFree
    <3>1. r \in InFlight /\ req[r].pc = "handler"
      BY <2>5 DEF InHandler, InFlight
    <3> QED
      BY <3>1 DEF Stuck
  <2>7. \A r \in InFlight : req[r].pc = "queued" /\ threads = 0
    BY <2>5, <2>6 DEF Stuck
  <2>8. Threaded = {}
    BY <2>7 DEF Threaded, HoldsThread, InHandler, InFlight
  <2>9. threads > 0
    <3>1. Cardinality(Threaded) = 0
      BY <2>8, FS_EmptySet
    <3> QED
      BY <1>1, <3>1, Balance, PoolAssumption
  <2> QED
    BY <2>7, <2>9
<1> QED
  BY <1>1, InvAlways, PTL
=============================================================================
