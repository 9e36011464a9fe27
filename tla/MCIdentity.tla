------------------------------ MODULE MCIdentity ------------------------------
(* The break-glass administrator and somebody of the directory, whose group  *)
(* makes them an administrator until a mapping makes it a group of readers.  *)
(* The directory does not mind the case of the name they type.               *)
EXTENDS Identity, TLC

CONSTANTS root, ann, ANN, staff

MCDirectory == [a \in Account |-> IF a = ANN THEN ann ELSE a]

MCBootstrap == {<<staff, "admin">>}

MCMappings == {<<staff, "reader">>}

MCOverrides == {{}, {"admin"}}

Symmetries == Permutations(Worker)
=============================================================================
