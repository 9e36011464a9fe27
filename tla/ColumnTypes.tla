---------------------------- MODULE ColumnTypes ----------------------------
(****************************************************************************)
(* Logical attribute types, the PostgreSQL types they render to, and the    *)
(* rule that tells a safe widening from a destructive change.  The code     *)
(* tests lengths, precisions and scales for truth, so 0 stands for "none".  *)
(****************************************************************************)
EXTENDS Integers

Base ==
  [string |-> "varchar", text |-> "text", integer |-> "integer", bigint |-> "bigint",
   decimal |-> "numeric", float |-> "double precision", boolean |-> "boolean",
   date |-> "date", timestamp |-> "timestamptz", uuid |-> "uuid", json |-> "jsonb",
   email |-> "varchar", url |-> "text", enum |-> "varchar"]

DataType == DOMAIN Base

DefaultLength == [string |-> 0, email |-> 320, enum |-> 100]

Sized == DOMAIN DefaultLength

PgBase == {"varchar", "text", "integer", "bigint", "numeric", "double precision", "boolean",
           "date", "timestamptz", "uuid", "jsonb"}

LogicalType == [data_type : DataType, length : Nat, precision : Nat, scale : Nat]

ColumnType == [base : PgBase, length : Nat, precision : Nat, scale : Nat]

Pg(base, length, precision, scale) ==
  [base |-> base, length |-> length, precision |-> precision, scale |-> scale]

Length(t) == IF t.length # 0 THEN t.length ELSE DefaultLength[t.data_type]

\* The column type of an attribute.
PgType(t) ==
  CASE t.data_type = "decimal" /\ t.precision # 0 -> Pg("numeric", 0, t.precision, t.scale)
    [] t.data_type \in Sized -> IF Length(t) = 0 THEN Pg("text", 0, 0, 0)
                                                 ELSE Pg("varchar", Length(t), 0, 0)
    [] OTHER -> Pg(Base[t.data_type], 0, 0, 0)

\* What information_schema.columns reports of such a column: whole and binary
\* numbers have a precision there too.
Catalog(p) ==
  CASE p.base = "integer"          -> [p EXCEPT !.precision = 32]
    [] p.base = "bigint"           -> [p EXCEPT !.precision = 64]
    [] p.base = "double precision" -> [p EXCEPT !.precision = 53]
    [] OTHER                       -> p

RenderPg(c) ==
  CASE c.base = "varchar" -> Pg("varchar", c.length, 0, 0)
    [] c.base = "numeric" /\ c.precision # 0 -> Pg("numeric", 0, c.precision, c.scale)
    [] OTHER -> Pg(c.base, 0, 0, 0)

LogicalOf ==
  [b \in PgBase |->
    CASE b = "varchar" -> "string"  [] b = "numeric" -> "decimal"
      [] b = "double precision" -> "float"  [] b = "timestamptz" -> "timestamp"
      [] b = "jsonb" -> "json"  [] OTHER -> b]

Family ==
  [d \in DataType |->
    CASE d \in {"string", "text", "email", "url", "enum"}      -> "text"
      [] d \in {"integer", "bigint", "decimal", "float"}       -> "num"
      [] d \in {"date", "timestamp"}                           -> "time"
      [] OTHER                                                 -> d]

Rank ==
  [d \in DataType |->
    CASE d \in {"text", "url", "bigint", "timestamp"} -> 2
      [] d = "decimal" -> 3  [] d = "float" -> 4  [] OTHER -> 1]

IsSafeWidening(old, oldLength, new, newLength) ==
  /\ Family[old] = Family[new]
  /\ Rank[new] >= Rank[old]
  /\ Family[old] = "text" /\ Rank[new] = Rank[old] =>
       newLength = 0 \/ (oldLength # 0 /\ newLength >= oldLength)

\* Variant: logical names are compared, not rendered types.
RetypedByName(p, t) == LogicalOf[p.base] # t.data_type

\* Whether a column is not of the type its attribute asks for, and whether
\* ALTER ... TYPE may then be planned without asking.
Retyped(p, t) == PgType(t) # RenderPg(Catalog(p))

Safe(p, t) == IsSafeWidening(LogicalOf[p.base], p.length, t.data_type, t.length)

----------------------------------------------------------------------------
(* What a type can hold, to judge the rule by.                              *)

\* Decimal digits before and after the point; a binary float holds fifteen
\* significant digits and no decimal fraction exactly.
Plenty == 1000

WholeDigits(p) ==
  CASE p.base = "integer" -> 10  [] p.base = "bigint" -> 19
    [] p.base = "double precision" -> 15
    [] OTHER -> IF p.precision = 0 THEN Plenty ELSE p.precision - p.scale

Fraction(p) ==
  CASE p.base \in {"integer", "bigint", "double precision"} -> 0
    [] OTHER -> IF p.precision = 0 THEN Plenty ELSE p.scale

\* Every value of the one type is a value of the other.
Lossless(p, q) ==
  \/ p = q
  \/ q.base = "text" /\ p.base = "varchar"
  \/ p.base = "varchar" /\ q.base = "varchar" /\ q.length >= p.length
  \/ /\ {p.base, q.base} \subseteq {"integer", "bigint", "numeric", "double precision"}
     /\ p.base # "double precision"
     /\ WholeDigits(q) >= WholeDigits(p)
     /\ Fraction(q) >= Fraction(p)
  \/ p.base = "date" /\ q.base = "timestamptz"

\* ALTER ... TYPE without USING: an assignment cast exists within a family and
\* to text.
Castable(p, q) ==
  LET family(r) == Family[LogicalOf[r.base]] IN family(p) = family(q) \/ family(q) = "text"
=============================================================================
