--------------------------- MODULE RegistryClaims ---------------------------
(* Statements the repository makes about publishing and which the code does *)
(* not keep.                                                                *)
EXTENDS Registry

\* "Re-submit with confirm_destructive: true to proceed" (docs/API.md): once a
\* confirmed publication was applied, the columns it listed are of the type
\* their attribute asks for, or gone.
ConfirmedChangesMade ==
  [][\A w \in Worker :
       req[w].pc = "apply" /\ req'[w].pc = "record" =>
         \A change \in PlanOf(req[w]).destructive :
           LET t == change[1]
               c == change[2]
               model == req[w].loaded.model
           IN c \in DOMAIN tables'[t].columns =>
                /\ c \in DOMAIN model
                /\ tables'[t].columns[c].type = PgType(model[c].type)]_vars

\* "Drops and narrowings are classified destructive and require explicit
\* confirmation" (build_alter_plan), "True when ALTER TYPE cannot lose data"
\* (is_safe_widening): unasked, a column only changes to a type that holds all
\* it held.
NoUnaskedLoss ==
  [][\A w \in Worker :
       req[w].pc = "apply" /\ req'[w].pc = "record" /\ ~req[w].confirm =>
         \A t \in Typed : \A c \in DOMAIN tables[t].columns :
           Lossless(tables[t].columns[c].type, tables'[t].columns[c].type)]_vars
=============================================================================
