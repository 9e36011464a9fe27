---------------------------- MODULE MCRegistry ----------------------------
(* Two attributes and the definitions that reach every kind of change: a     *)
(* safe and an unsafe widening, another family, a column added and removed,  *)
(* a default that does not render.                                           *)
EXTENDS RegistryClaims, TLC

CONSTANTS code, credit

MCCol == {code, credit}

Sort(data_type, length, precision, scale) ==
  [data_type |-> data_type, length |-> length, precision |-> precision, scale |-> scale]

Attribute(type, required, default, unique) ==
  [type |-> type, required |-> required, default |-> default, unique |-> unique, indexed |-> FALSE]

Short  == Attribute(Sort("string", 2, 0, 0), TRUE, "none", TRUE)
Long   == Attribute(Sort("string", 5, 0, 0), TRUE, "none", FALSE)
Money  == Attribute(Sort("decimal", 0, 6, 2), TRUE, "literal", FALSE)
Whole  == Attribute(Sort("decimal", 0, 6, 0), FALSE, "none", FALSE)
Broken == Attribute(Sort("integer", 0, 0, 0), FALSE, "junk", TRUE)

MCDefinitions == {Short, Long, Money, Whole, Broken}

MCPayloads ==
  {code :> Short, code :> Long, (code :> Long) @@ (credit :> Money),
   (code :> Short) @@ (credit :> Whole), credit :> Whole, credit :> Broken,
   NoModel}

MCConcPayloads == {code :> Short, (code :> Long) @@ (credit :> Money), credit :> Whole}

Symmetries == Permutations(Worker)
=============================================================================
