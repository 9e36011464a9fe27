--------------------------------- MODULE Pool ---------------------------------
(****************************************************************************)
(* What a request holds while it is served by one worker process: a thread  *)
(* of the server's thread pool and connections of the two engines.          *)
(*                                                                          *)
(* The session of get_db takes a runtime connection at its first query, the *)
(* look-up of the principal, and keeps it until the dependency is closed,   *)
(* after the answer.  Most handlers open a second connection meanwhile, of  *)
(* the runtime engine for data and of the DDL engine for publishing.  A     *)
(* wait for a connection ends in an error after the pool's timeout; a wait  *)
(* for a thread does not end that way.                                      *)
(*                                                                          *)
(* Dependencies and most handlers are plain functions: each runs in a       *)
(* thread and gives it back in between.  import_csv and import_models are   *)
(* async functions that block: they run in the event loop, and meanwhile    *)
(* nothing the loop has to do for a request is done.                        *)
(****************************************************************************)
EXTENDS Integers, FiniteSets

CONSTANTS
  Request,      \* requests a worker process serves at the same time
  Threads,      \* size of the server's thread pool
  RuntimeSize,  \* DB_POOL_SIZE + DB_MAX_OVERFLOW
  DdlSize,      \* what SQLAlchemy gives an engine without arguments
  MaxBlocks     \* bound: `with engine.begin()` blocks of one handler

ASSUME PoolAssumption ==
  /\ IsFiniteSet(Request)
  /\ Threads \in Nat \ {0}
  /\ RuntimeSize \in Nat \ {0}
  /\ DdlSize \in Nat \ {0}
  /\ MaxBlocks \in Nat

VARIABLES
  req,      \* where each request is, the engine its handler uses, blocks left,
            \* and whether its handler is an async function
  free,     \* connections of each engine that nobody holds
  threads   \* threads that nobody holds

vars == <<req, free, threads>>

Engine == {"runtime", "ddl"}

Size == [e \in Engine |-> IF e = "runtime" THEN RuntimeSize ELSE DdlSize]

Pc == {"idle", "connecting", "principal", "queued", "handler", "waiting", "block",
       "closing"}

Nobody == [pc |-> "idle", engine |-> "runtime", left |-> 0, async |-> FALSE]

Init ==
  /\ req = [r \in Request |-> Nobody]
  /\ free = Size
  /\ threads = Threads

Goto(r, pc) == req' = [req EXCEPT ![r].pc = pc]

----------------------------------------------------------------------------
(* Resources.                                                               *)

InHandler(r) == req[r].pc \in {"handler", "waiting", "block"}

\* What the event loop does for a request waits for an async handler to end.
LoopFree == \A r \in Request : ~(req[r].async /\ InHandler(r))

HoldsThread(r) ==
  req[r].pc \in {"connecting", "principal"} \/ (InHandler(r) /\ ~req[r].async)

TakeThread == threads > 0 /\ threads' = threads - 1

GiveThread == threads' = threads + 1

\* A function ends: the loop collects what a thread returned.
Return(r) == IF HoldsThread(r) THEN LoopFree /\ GiveThread ELSE UNCHANGED threads

\* Variant: the overflow has no limit.
TakeOverflow(e) == free' = [free EXCEPT ![e] = @ - 1]

TakeConnection(e) == free[e] > 0 /\ free' = [free EXCEPT ![e] = @ - 1]

GiveConnection(e) == free' = [free EXCEPT ![e] = @ + 1]

----------------------------------------------------------------------------
(* A request.                                                               *)

\* A request arrives and get_current_principal starts in a thread.
Arrive(r) ==
  /\ req[r].pc = "idle"
  /\ LoopFree
  /\ TakeThread
  /\ \E e \in Engine, n \in 0 .. MaxBlocks, async \in BOOLEAN :
       /\ n = 0 \/ async => e = "runtime"
       /\ req' = [req EXCEPT ![r] =
            [pc |-> "connecting", engine |-> e, left |-> n, async |-> async]]
  /\ UNCHANGED free

\* Its first query checks the session's connection out.
OpenSession(r) ==
  /\ req[r].pc = "connecting"
  /\ TakeConnection("runtime")
  /\ Goto(r, "principal")
  /\ UNCHANGED threads

\* The principal is known: the thread goes back, the connection stays.
Resolve(r) ==
  /\ req[r].pc = "principal"
  /\ Return(r)
  /\ Goto(r, "queued")
  /\ UNCHANGED free

\* An async handler needs no thread.
StartHandler(r) ==
  /\ req[r].pc = "queued"
  /\ LoopFree
  /\ IF req[r].async THEN UNCHANGED threads ELSE TakeThread
  /\ Goto(r, "handler")
  /\ UNCHANGED free

\* The handler asks for a connection of its own.
EnterBlock(r) ==
  /\ req[r].pc = "handler" /\ req[r].left > 0
  /\ req' = [req EXCEPT ![r].pc = "waiting", ![r].left = @ - 1]
  /\ UNCHANGED <<free, threads>>

CheckOut(r) ==
  /\ req[r].pc = "waiting"
  /\ TakeConnection(req[r].engine)
  /\ Goto(r, "block")
  /\ UNCHANGED threads

\* Variant: a handler keeps what it opened while it opens the next one.
KeepBlock(r) ==
  /\ req[r].pc = "block"
  /\ IF req[r].left > 0 THEN UNCHANGED free ELSE GiveConnection(req[r].engine)
  /\ Goto(r, "handler")
  /\ UNCHANGED threads

\* The block is committed or rolled back.
LeaveBlock(r) ==
  /\ req[r].pc = "block"
  /\ GiveConnection(req[r].engine)
  /\ Goto(r, "handler")
  /\ UNCHANGED threads

\* The handler returns or raises, in or out of the middle of its blocks.
Answer(r) ==
  /\ req[r].pc = "handler"
  /\ Return(r)
  /\ Goto(r, "closing")
  /\ UNCHANGED free

\* get_db is resumed once the answer is out: commit or rollback, then close.
\* Its thread is not one of the pool's.
Close(r) ==
  /\ req[r].pc = "closing"
  /\ LoopFree
  /\ GiveConnection("runtime")
  /\ req' = [req EXCEPT ![r] = Nobody]
  /\ UNCHANGED threads

\* Variant: waits have no timeout.
Forever == FALSE

\* create_engine sets no pool_timeout, and SQLAlchemy's default is 30 seconds.
Impatient == TRUE

\* Variant: the session is not closed after an error.
Abandoned(pc) == "idle"

\* After an error a session that holds a connection is rolled back and closed.
AfterError(pc) == IF pc = "waiting" THEN "closing" ELSE "idle"

\* QueuePool gives up: the error ends the handler or the dependency.
TimeOut(r) ==
  /\ req[r].pc \in {"connecting", "waiting"}
  /\ Impatient
  /\ Return(r)
  /\ Goto(r, AfterError(req[r].pc))
  /\ UNCHANGED free

\* What the code run for a request does by itself.
Work(r) == OpenSession(r) \/ EnterBlock(r) \/ CheckOut(r) \/ LeaveBlock(r)

\* What the event loop takes part in.
Turn(r) == Resolve(r) \/ StartHandler(r) \/ Answer(r) \/ Close(r) \/ TimeOut(r)

Next == \E r \in Request : Arrive(r) \/ Work(r) \/ Turn(r)

(* A started request goes on, and its waits for a connection time out.  The *)
(* event loop and the thread pool serve those that wait for them first      *)
(* come, first served.                                                      *)
Fairness ==
  \A r \in Request :
    /\ WF_vars(Work(r))
    /\ SF_vars(Turn(r))

Spec == Init /\ [][Next]_vars /\ Fairness

----------------------------------------------------------------------------
(* Properties.                                                              *)

\* Every variable has its type.
TypeOK ==
  /\ req \in [Request -> [pc : Pc, engine : Engine, left : 0 .. MaxBlocks, async : BOOLEAN]]
  /\ \A e \in Engine : free[e] \in 0 .. Size[e]
  /\ threads \in 0 .. Threads

HoldsSession(r) == req[r].pc \in {"principal", "queued", "handler", "waiting", "block", "closing"}

HoldsBlock(r, e) == req[r].pc = "block" /\ req[r].engine = e

\* Nothing leaks: whatever way a request ends, timeouts included, what is not
\* free is held by a request that still runs.
NothingLeaks ==
  /\ threads + Cardinality({r \in Request : HoldsThread(r)}) = Threads
  /\ free["ddl"] + Cardinality({r \in Request : HoldsBlock(r, "ddl")}) = DdlSize
  /\ free["runtime"] + Cardinality({r \in Request : HoldsSession(r)})
       + Cardinality({r \in Request : HoldsBlock(r, "runtime")}) = RuntimeSize

Stuck(r) ==
  \/ req[r].pc \in {"principal", "queued", "closing"} /\ ~LoopFree
  \/ req[r].pc = "handler" /\ req[r].left = 0 /\ ~req[r].async /\ ~LoopFree
  \/ req[r].pc = "queued" /\ ~req[r].async /\ threads = 0
  \/ req[r].pc = "connecting" /\ free["runtime"] = 0
  \/ req[r].pc = "waiting" /\ free[req[r].engine] = 0

InFlight == {r \in Request : req[r].pc # "idle"}

\* With fewer requests in flight than the runtime engine has connections, one
\* of them can go on without waiting for a timeout, even while an async handler
\* blocks the event loop; with as many, every one can hold its session's
\* connection and wait for a second.
NoGridlockBelowSize ==
  (InFlight # {} /\ Cardinality(InFlight) < RuntimeSize) => \E r \in InFlight : ~Stuck(r)

\* Every request ends, by an answer or by a timeout.
EveryRequestEnds == \A r \in Request : req[r].pc = "connecting" ~> req[r].pc = "idle"
=============================================================================
