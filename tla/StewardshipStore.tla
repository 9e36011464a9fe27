-------------------------- MODULE StewardshipStore --------------------------
(* The review handlers implement a store of versioned golden records.        *)
EXTENDS Stewardship

Permitted == {values \in Record : Clean(values)}

\* A golden record and the number of its history rows; what a record that was
\* never there, or was removed, is made of does not matter.
AsStored(g) ==
  [state    |-> live[g].state,
   version  |-> live[g].version,
   contents |-> IF HasRow(live[g]) THEN live[g].values ELSE None,
   archived |-> Cardinality(Archived(g))]

Store == INSTANCE GoldenStore WITH
  Id <- Golden, Contents <- Permitted, Nothing <- None,
  store <- [g \in Golden |-> AsStored(g)]

\* Seen from live and history, every step of every request, overlapping or
\* crashing, is one change of one record with the history row that goes with it,
\* or none: an approval never writes half of one, and never contents that break
\* a rule (apply_staging_to_live).
RefinesGoldenStore == Store!Spec
=============================================================================
