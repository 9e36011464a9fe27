---------------------------- MODULE MCStewardship ----------------------------
(* A small entity for TLC: a required, unique business key and a free field *)
(* with a default that is not in its normal form; the writes and edits that  *)
(* reach every branch.                                                       *)
EXTENDS StewardshipStore, TLC

CONSTANTS code, credit, a1, a2, raw, bad, mistyped, stray

MCAttr == {code, credit}
MCKey == {code}
MCValue == {a1, a2, raw, bad}
MCNormal == [v \in MCValue |-> IF v = raw THEN a1 ELSE v]
MCOffLimits == {bad}
MCFold == [v \in MCValue |-> v]
MCDefault == (code :> None) @@ (credit :> raw)

Write(op, payload, target) == [op |-> op, payload |-> payload, target |-> target]

NewRecord == (code :> a1) @@ (credit :> a2)

MCWrites ==
  {Write("INSERT", NewRecord, None),
   Write("UPSERT", (code :> a2) @@ (credit :> bad), None),
   Write("UPDATE", credit :> a1, None),
   Write("DELETE", code :> a1, None)}
  \cup {Write("UPDATE", code :> a2, g) : g \in Golden}
  \cup {Write("UPDATE", NoUpdates, g) : g \in Golden}
  \cup {Write("UPDATE", stray :> a1, g) : g \in Golden}

MCEdits == {credit :> a2, code :> mistyped, stray :> a1}

MCConcDefault == code :> None
MCConcWrites ==
  {Write("INSERT", code :> raw, None), Write("UPSERT", code :> bad, None)}
  \cup {Write("UPDATE", code :> a2, g) : g \in Golden}
  \cup {Write("DELETE", NoUpdates, g) : g \in Golden}
MCConcEdits == {code :> a2}

Symmetries == Permutations(Golden) \cup Permutations(StagingId) \cup Permutations(User)
  \cup Permutations(Worker)
=============================================================================
