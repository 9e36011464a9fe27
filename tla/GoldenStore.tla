----------------------------- MODULE GoldenStore -----------------------------
(****************************************************************************)
(* What the live and history tiers promise together, without staging,       *)
(* requests or people: a store of versioned records in which only permitted *)
(* contents ever appear and every change leaves one more archived row of    *)
(* its record behind.                                                       *)
(****************************************************************************)
EXTENDS Integers

CONSTANTS
  Id,        \* identifiers of records
  Contents,  \* the contents a record may have
  Nothing    \* those of a record that is not there

VARIABLE store  \* for each identifier its state, version, contents and archived rows

Unborn == [state |-> "unborn", version |-> 0, contents |-> Nothing, archived |-> 0]

Present(r) == r.state \in {"active", "deleted"}

\* Every change but a creation adds an archived row.
Change(id, state, version, contents) ==
  /\ Present(store[id])
  /\ store' = [store EXCEPT ![id] =
       [state |-> state, version |-> version, contents |-> contents,
        archived |-> store[id].archived + 1]]

Create(id) ==
  /\ store[id].state = "unborn"
  /\ \E c \in Contents :
       store' = [store EXCEPT ![id] =
         [state |-> "active", version |-> 1, contents |-> c,
          archived |-> store[id].archived]]

Amend(id) ==
  \E c \in Contents : Change(id, store[id].state, store[id].version + 1, c)

Retire(id) == Change(id, "deleted", store[id].version + 1, store[id].contents)

Purge(id) == Change(id, "purged", 0, Nothing)

\* An archived row without a change: an approval that had nothing to write.
Note(id) ==
  store' = [store EXCEPT ![id] =
    [state |-> store[id].state, version |-> store[id].version,
     contents |-> store[id].contents, archived |-> store[id].archived + 1]]

Init == store = [id \in Id |-> Unborn]

Next == \E id \in Id : Create(id) \/ Amend(id) \/ Retire(id) \/ Purge(id) \/ Note(id)

Spec == Init /\ [][Next]_store
=============================================================================
