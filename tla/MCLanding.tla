------------------------------ MODULE MCLanding ------------------------------
(* Submissions for TLC: keyed single writes, keyless ones, and batches.      *)
EXTENDS Landing, TLC

CONSTANT k1

Single(key, kind) == [via |-> "single", key |-> key, rows |-> <<kind>>]
Bulk(kinds) == [via |-> "bulk", key |-> None, rows |-> kinds]
Csv(kinds) == [via |-> "csv", key |-> None, rows |-> kinds]

\* Every kind of row, alone or in a batch; a bulk write and a file over the limit.
MCEveryKind ==
  {Single(k1, "plain"), Single(k1, "breaks"), Single(None, "raises"),
   Single(None, "unlandable"), Bulk(<<"plain", "raises">>),
   Csv(<<"plain", "unlandable">>), Bulk(<<"plain", "plain", "plain">>),
   Csv(<<"raises", "plain", "unlandable">>)}

\* Nothing a statement breaks on.
MCSoundKinds ==
  {Single(k1, "plain"), Single(k1, "raises"), Single(None, "raises"),
   Bulk(<<"plain">>), Bulk(<<"plain", "raises">>), Csv(<<"plain", "unlandable">>)}

\* A row a statement breaks on, and one it does not.
MCPoison == {Single(None, "breaks"), Single(None, "plain")}
=============================================================================
