------------------------------- MODULE Records -------------------------------
(****************************************************************************)
(* The data of one master-data entity and the pure functions over it:       *)
(* validation of a payload, resolution of the golden record it addresses,   *)
(* the fields an approval may write, the constraints of the live table.     *)
(*                                                                          *)
(* Values are abstract.  What the rest of the system tells apart is what    *)
(* normalising and typing make of one (Normal), whether a raw value can be  *)
(* typed at all (Mistyped), whether it breaks one of the attribute's rules  *)
(* (OffLimits), whether it is null, and which values the match key          *)
(* identifies (Fold).                                                       *)
(****************************************************************************)
EXTENDS FiniteSets

CONSTANTS
  Attr,          \* names of the entity's attributes
  Required,      \* is_required: NOT NULL in the live table
  BusinessKey,   \* is_business_key
  MatchKey,      \* is_match_key
  UniqueAttr,    \* is_unique: partial unique index on the live table
  Default,       \* default_value of each attribute (None when it has none)
  Value,         \* values of the attributes' types
  Normal,        \* a value normalised and coerced: another value, null or Mistyped
  OffLimits,     \* the values check_constraints objects to
  Fold,          \* lower(trim(.)): what the match key compares
  Mistyped,      \* a raw value that cannot be coerced
  Stray,         \* a key the entity does not define
  Golden,        \* golden record identifiers (mdm_id)
  None           \* null

Column == Value \cup {None}
Raw    == Column \cup {Mistyped}
Record == [Attr -> Column]

Payload == UNION {[K -> Raw] : K \in SUBSET (Attr \cup {Stray})}

Operation == {"INSERT", "UPDATE", "DELETE", "UPSERT"}

ASSUME EntityAssumption ==
  /\ Required \subseteq Attr
  /\ BusinessKey \subseteq Attr
  /\ MatchKey \subseteq Attr
  /\ UniqueAttr \subseteq Attr
  /\ Stray \notin Attr
  /\ Normal \in [Value -> Raw]
  /\ OffLimits \subseteq Value
  /\ Fold \in [Value -> Value]
  /\ Default \in [Attr -> Column]
  /\ None \notin Value
  /\ Mistyped \notin Column
  /\ None \notin Golden

(* A default is not normalised, and it is checked against the rules only     *)
(* where validate_record applies it; the column default of the staging table *)
(* is not.  The model designer is expected not to configure a default the   *)
(* rules forbid.                                                            *)
ASSUME DefaultAssumption == \A a \in Attr : Default[a] \notin OffLimits

----------------------------------------------------------------------------
(* validate_record: one inbound record against the entity.                  *)

CheckedFields(payload, partial) ==
  IF partial THEN Attr \cap DOMAIN payload ELSE Attr

\* normalize_value and coerce_value.  Nothing says that doing it twice changes
\* nothing: a rule can undo what an earlier one settled.
Normalised(raw) == IF raw \in Value THEN Normal[raw] ELSE raw

\* An absent attribute takes its default as it is, an untypable one becomes null.
Coerced(payload, a) ==
  IF a \notin DOMAIN payload THEN Default[a]
  ELSE IF Normalised(payload[a]) = Mistyped THEN None ELSE Normalised(payload[a])

RecordErrors(payload, fields) ==
  LET untyped == {a \in fields \cap DOMAIN payload : Normalised(payload[a]) = Mistyped} IN
  {<<k, "unknown_field">> : k \in DOMAIN payload \ Attr}
    \cup {<<a, "type">> : a \in untyped}
    \cup {<<a, "required">> :
            a \in {b \in (fields \cap Required) \ untyped : Coerced(payload, b) = None}}
    \cup {<<a, "constraint">> : a \in {b \in fields : Coerced(payload, b) \in OffLimits}}

ValidateRecord(payload, partial) ==
  LET fields == CheckedFields(payload, partial) IN
  [values |-> [a \in fields |-> Coerced(payload, a)],
   errors |-> RecordErrors(payload, fields)]

\* The staging row of validated values: a column the INSERT does not name
\* takes the default of the staging table.
StagedValues(values) ==
  [a \in Attr |-> IF a \in DOMAIN values THEN values[a] ELSE Default[a]]

----------------------------------------------------------------------------
(* The live tier.  A golden record is a row of the live table: "active", or *)
(* "deleted" when it carries the soft-delete tombstone.  "unborn" and       *)
(* "purged" have no row: an identifier not minted yet, and one whose row    *)
(* was hard-deleted (identifiers are random and never minted again).        *)

HasRow(rec) == rec.state \in {"active", "deleted"}

\* Every attribute of a lookup key has a non-null value.
KeyGiven(keys, values) ==
  /\ keys # {}
  /\ \A a \in keys : a \in DOMAIN values /\ values[a] # None

ByBusinessKey(live, values) ==
  {g \in Golden : /\ live[g].state = "active"
                  /\ \A a \in BusinessKey : live[g].values[a] = values[a]}

ByMatchKey(live, values) ==
  {g \in Golden : /\ live[g].state = "active"
                  /\ \A a \in MatchKey : /\ live[g].values[a] # None
                                         /\ Fold[live[g].values[a]] = Fold[values[a]]}

\* A lookup by key returns one of the rows it finds; finding one is an error
\* of an INSERT.
KeyLookup(found, operation, code) ==
  IF found = {} THEN {[target |-> None, errors |-> {}]}
  ELSE {[target |-> g,
         errors |-> IF operation = "INSERT" THEN {code} ELSE {}] : g \in found}

\* _resolve_target: the possible outcomes.  An explicit identifier is looked
\* up whether or not the row is deleted; the match key is consulted only when
\* the business key was not given in full.
ResolveTarget(live, values, target, operation) ==
  CASE target # None /\ HasRow(live[target]) ->
         {[target |-> target, errors |-> {}]}
    [] target # None /\ ~HasRow(live[target]) ->
         {[target |-> None, errors |-> {"not_found"}]}
    [] target = None /\ KeyGiven(BusinessKey, values) ->
         KeyLookup(ByBusinessKey(live, values), operation, "duplicate")
    [] target = None /\ ~KeyGiven(BusinessKey, values) /\ KeyGiven(MatchKey, values) ->
         KeyLookup(ByMatchKey(live, values), operation, "probable_duplicate")
    [] OTHER -> {[target |-> None, errors |-> {}]}

----------------------------------------------------------------------------
(* What an approval writes.                                                 *)

\* Variant: every non-null column is written, supplied or not.
WrittenNonNull(supplied, values) == {a \in Attr : values[a] # None}

\* The fields the caller supplied; failing any, every non-null column.
WrittenFields(supplied, values) ==
  IF supplied # {} THEN supplied ELSE {a \in Attr : values[a] # None}

Overlay(values, fields, onto) ==
  [a \in Attr |-> IF a \in fields THEN values[a] ELSE onto[a]]

\* The NOT NULL columns and the partial unique indexes of the live table:
\* would storing values in row g, active or not, be refused?
Refused(live, g, active, values) ==
  \/ \E a \in Required : values[a] = None
  \/ /\ active
     /\ \E a \in UniqueAttr, h \in Golden \ {g} :
          /\ live[h].state = "active"
          /\ values[a] # None
          /\ live[h].values[a] = values[a]
=============================================================================
