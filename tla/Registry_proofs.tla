--------------------------- MODULE Registry_proofs ---------------------------
(* The versions of an entity stay complete and immutable, and the circum-   *)
(* stances are named under which alone its tables can be torn apart, its    *)
(* status can cease to be honest, and a publication can fall short of the   *)
(* definition: for any number of overlapping requests and crashes.          *)
EXTENDS Registry, FiniteSetTheorems, TLAPS

Fields == {"pc", "loaded", "payload", "replace", "confirm", "read", "seen"}

\* A request and what it loaded of the entity: never ahead of it, and the
\* same definition when it is not behind.
Loaded(w) ==
  LET r == req[w] IN
  /\ DOMAIN r = Fields
  /\ r.loaded \in EntityRow
  /\ r.payload \in Model
  /\ r.loaded.id <= born
  /\ r.pc \in {"update", "plan", "reflect", "apply", "record", "drop", "unlink"} => r.loaded.id # 0
  /\ r.loaded.id # 0 /\ r.loaded.id = entity.id =>
       /\ r.loaded.version \in 1..entity.version
       /\ r.loaded.version = entity.version => r.loaded.model = entity.model

\* The version rows: one for each number up to the present one.
Numbered ==
  /\ versions \subseteq VersionRow
  /\ \A v \in versions :
       /\ entity.id # 0
       /\ v.id = entity.id
       /\ v.version \in 1..entity.version
       /\ v.version = entity.version => v.snapshot = entity.model
  /\ entity.id # 0 => \A n \in 1..entity.version : \E v \in versions : v.version = n
  /\ \A u, v \in versions : u.version = v.version => u = v

Inv ==
  /\ born \in Nat
  /\ entity \in EntityRow
  /\ entity.id <= born
  /\ entity.id # 0 => entity.version >= 1
  /\ req = [w \in Worker |-> req[w]]
  /\ \A w \in Worker : Loaded(w)
  /\ Numbered

-----------------------------------------------------------------------------
(* A payload replaces a definition or is merged into it; the result is one. *)
LEMMA MergedModel ==
  ASSUME NEW loaded \in EntityRow, NEW payload \in Model, NEW replace
  PROVE  Merged(loaded, payload, replace) \in Model
<1> DEFINE S == DOMAIN payload \cup (IF replace THEN {} ELSE DOMAIN loaded.model)
<1>1. PICK A \in SUBSET Col : payload \in [A -> Definitions]
  BY DEF Model
<1>2. PICK B \in SUBSET Col : loaded.model \in [B -> Definitions]
  BY DEF Model, EntityRow
<1>3. S \in SUBSET Col
  BY <1>1, <1>2
<1>4. Merged(loaded, payload, replace) \in [S -> Definitions]
  BY <1>1, <1>2 DEF Merged
<1> HIDE DEF S
<1> QED
  BY <1>3, <1>4 DEF Model

(* An entity that is not there, and a request that ended, are well-formed.   *)
LEMMA NoModelType == NoModel \in Model /\ NoEntity \in EntityRow
<1>1. NoModel \in [{} -> Definitions]
  BY DEF NoModel
<1>2. NoModel \in Model
  BY <1>1 DEF Model
<1> QED
  BY <1>2 DEF NoEntity, EntityRow

(* A request that ended.                                                    *)
LEMMA IdleShape ==
  /\ DOMAIN Idle = Fields
  /\ Idle.pc = "idle" /\ Idle.payload = NoModel /\ Idle.loaded = NoEntity
  /\ Idle.read = {} /\ Idle.seen = NoTables
BY DEF Idle, Fields

(* A request that ends, or begins, knows the entity as it is.               *)
LEMMA Fresh ==
  ASSUME Inv, NEW w \in Worker, NEW r, req' = [req EXCEPT ![w] = r],
         UNCHANGED <<entity, born, versions>>,
         DOMAIN r = Fields,
         r.payload \in Model,
         r.loaded \in {NoEntity, entity, req[w].loaded},
         r.pc \in {"update", "plan", "reflect", "apply", "record", "drop", "unlink"} => r.loaded.id # 0
  PROVE  Inv'
<1>1. req'[w] = r /\ \A v \in Worker \ {w} : req'[v] = req[v]
  BY DEF Inv
<1>2. req' = [v \in Worker |-> req'[v]]
  BY DEF Inv
<1>3. r.loaded \in EntityRow /\ r.loaded.id <= born
  BY NoModelType DEF Inv, Loaded, NoEntity
<1>4. r.loaded.id # 0 /\ r.loaded.id = entity.id =>
       /\ r.loaded.version \in 1..entity.version
       /\ r.loaded.version = entity.version => r.loaded.model = entity.model
  BY DEF Inv, Loaded, NoEntity, EntityRow
<1>5. Loaded(w)'
  BY <1>1, <1>3, <1>4 DEF Loaded
<1>6. \A v \in Worker \ {w} : Loaded(v)'
  BY <1>1 DEF Inv, Loaded
<1>7. Numbered'
  BY DEF Inv, Numbered
<1> QED
  BY <1>2, <1>5, <1>6, <1>7 DEF Inv

(* A request that ends after changing the entity: what the others loaded    *)
(* must not be ahead of what there is now.                                  *)
LEMMA EntityChanged ==
  ASSUME Inv, NEW w \in Worker, req' = [req EXCEPT ![w] = Idle],
         born' \in Nat, born <= born', entity' \in EntityRow, entity'.id <= born',
         entity'.id # 0 => entity'.version >= 1,
         \A v \in Worker :
           req[v].loaded.id # 0 /\ req[v].loaded.id = entity'.id =>
             /\ req[v].loaded.version \in 1..entity'.version
             /\ req[v].loaded.version = entity'.version => req[v].loaded.model = entity'.model,
         Numbered'
  PROVE  Inv'
<1>1. req'[w] = Idle /\ \A v \in Worker \ {w} : req'[v] = req[v]
  BY DEF Inv
<1>2. req' = [v \in Worker |-> req'[v]]
  BY DEF Inv
<1>3. Loaded(w)'
  BY <1>1, NoModelType, IdleShape DEF Loaded, NoEntity
<1>4. ASSUME NEW v \in Worker \ {w} PROVE Loaded(v)'
  <2>1. Loaded(v) /\ req'[v] = req[v] /\ req[v].loaded.id \in Nat
    BY <1>1 DEF Inv, Loaded, EntityRow
  <2>2. /\ req'[v].loaded.id <= born'
        /\ req'[v].loaded.id # 0 /\ req'[v].loaded.id = entity'.id =>
             /\ req'[v].loaded.version \in 1..entity'.version
             /\ req'[v].loaded.version = entity'.version => req'[v].loaded.model = entity'.model
    BY <2>1 DEF Loaded, Inv
  <2> QED
    BY <2>1, <2>2 DEF Loaded
<1>5. \A v \in Worker : Loaded(v)'
  BY <1>3, <1>4
<1> QED
  BY <1>2, <1>5 DEF Inv

(* The unique constraint makes a change that overlaps another fail: only a  *)
(* request that loaded the present version can add the next.                *)
LEMMA OnlyTheLatest ==
  ASSUME Inv, NEW w \in Worker, req[w].loaded.id # 0, entity.id = req[w].loaded.id,
         ~VersionTaken(req[w].loaded)
  PROVE  req[w].loaded.version = entity.version
<1> DEFINE old == req[w].loaded
<1>1. old.version \in 1..entity.version /\ entity.version \in Nat
  BY DEF Inv, Loaded, EntityRow
<1>2. CASE old.version < entity.version
  <2>1. old.version + 1 \in 1..entity.version
    BY <1>1, <1>2
  <2>2. PICK v \in versions : v.version = old.version + 1
    BY <2>1 DEF Inv, Numbered
  <2>3. v.id = old.id
    BY <2>2 DEF Inv, Numbered
  <2> QED
    BY <2>2, <2>3 DEF VersionTaken
<1> QED
  BY <1>1, <1>2

(* A creation, or an import that created.                                   *)
LEMMA InsertStep ==
  ASSUME Inv, NEW w \in Worker, NEW action, Insert(w, action)
  PROVE  Inv'
<1> DEFINE new == [id |-> born + 1, status |-> "draft", version |-> 1, published |-> 0,
                   model |-> req[w].payload]
           row == Snapshot(born + 1, 1, req[w].payload)
<1>1. CASE entity.id = 0
  <2>1. /\ born' = born + 1 /\ entity' = new /\ versions' = versions \cup {row}
        /\ req' = [req EXCEPT ![w] = Idle]
    BY <1>1 DEF Insert
  <2>2. /\ new \in EntityRow /\ new.id = born + 1 /\ new.version = 1
        /\ new.model = req[w].payload /\ born \in Nat
    BY DEF Inv, Loaded, EntityRow
  <2>3. /\ row \in VersionRow /\ row.id = born + 1 /\ row.version = 1
        /\ row.snapshot = req[w].payload
    BY <2>2 DEF Inv, Loaded, Snapshot, VersionRow
  <2> HIDE DEF new, row
  <2>4. versions = {}
    BY <1>1 DEF Inv, Numbered
  <2>5. versions' = {row}
    BY <2>1, <2>4
  <2>6. Numbered'
    BY <2>1, <2>2, <2>3, <2>5 DEF Numbered
  <2>7. \A v \in Worker : req[v].loaded.id # entity'.id
    BY <2>1, <2>2 DEF Inv, Loaded, EntityRow
  <2> QED
    <3>1. /\ born' \in Nat /\ born <= born' /\ entity' \in EntityRow /\ entity'.id <= born'
          /\ entity'.id # 0 => entity'.version >= 1
      BY <2>1, <2>2
    <3> QED
      BY <2>1, <2>6, <2>7, <3>1, EntityChanged
<1>2. CASE entity.id # 0
  <2>1. req' = [req EXCEPT ![w] = Idle] /\ UNCHANGED <<entity, born, versions>>
    BY <1>2 DEF Insert, Fail
  <2> QED
    BY <2>1, Fresh, NoModelType, IdleShape
<1> QED
  BY <1>1, <1>2

(* A change, or an import that changed.                                     *)
LEMMA ReviseStep ==
  ASSUME Inv, NEW w \in Worker, NEW events, req[w].loaded.id # 0, Revise(w, events)
  PROVE  Inv'
<1> DEFINE old   == req[w].loaded
           model == Merged(old, req[w].payload, req[w].replace)
           new   == [id |-> old.id, status |-> StatusAfterChange(old),
                     version |-> old.version + 1, published |-> entity.published,
                     model |-> model]
           row   == Snapshot(old.id, old.version + 1, model)
<1>1. CASE entity.id = old.id /\ ~VersionTaken(old)
  <2>1. /\ UNCHANGED born /\ entity' = new /\ versions' = versions \cup {row}
        /\ req' = [req EXCEPT ![w] = Idle]
    BY <1>1 DEF Revise
  <2>2. /\ old.version = entity.version /\ old.version \in Nat /\ old.id \in Nat
        /\ old.version >= 1
    BY <1>1, OnlyTheLatest DEF Inv, Loaded, EntityRow
  <2>3. model \in Model
    BY MergedModel DEF Inv, Loaded
  <2> HIDE DEF model
  <2>4. StatusAfterChange(old) \in {"draft", "published", "modified"}
    BY DEF StatusAfterChange, Inv, EntityRow
  <2>5. /\ new \in EntityRow /\ new.id = entity.id /\ new.version = entity.version + 1
        /\ new.model = model
    <3>1. entity.published \in Nat
      BY DEF Inv, EntityRow
    <3> QED
      BY <1>1, <2>2, <2>3, <2>4, <3>1 DEF EntityRow
  <2>6. /\ row \in VersionRow /\ row.id = entity.id /\ row.version = entity.version + 1
        /\ row.snapshot = model
    BY <1>1, <2>2, <2>3 DEF Snapshot, VersionRow
  <2> HIDE DEF new, row, old
  <2>7. Numbered'
    <3>1. /\ entity.id # 0 /\ entity.version \in Nat
          /\ \A v \in versions : v.version \in 1..entity.version
      BY <1>1 DEF Inv, Numbered, EntityRow, old
    <3>2. versions' \subseteq VersionRow
      BY <2>1, <2>6 DEF Inv, Numbered
    <3>3. \A v \in versions' :
            /\ v.id = entity'.id /\ v.version \in 1..entity'.version
            /\ v.version = entity'.version => v.snapshot = entity'.model
      BY <2>1, <2>5, <2>6, <3>1 DEF Inv, Numbered
    <3>4. \A n \in 1..entity'.version : \E v \in versions' : v.version = n
      BY <2>1, <2>5, <2>6, <3>1 DEF Inv, Numbered
    <3>5. \A u, v \in versions' : u.version = v.version => u = v
      BY <2>1, <2>6, <3>1 DEF Inv, Numbered
    <3> QED
      BY <2>1, <2>5, <3>1, <3>2, <3>3, <3>4, <3>5 DEF Numbered
  <2>8. \A v \in Worker :
          req[v].loaded.id # 0 /\ req[v].loaded.id = entity.id =>
            req[v].loaded.version \in 1..entity.version
    BY DEF Inv, Loaded
  <2>9. entity.version \in Nat
    BY DEF Inv, EntityRow
  <2> QED
    <3>1. /\ born' \in Nat /\ born <= born' /\ entity' \in EntityRow /\ entity'.id <= born'
          /\ entity'.id # 0 => entity'.version >= 1
      BY <2>1, <2>5, <2>9 DEF Inv
    <3>2. \A v \in Worker :
            req[v].loaded.id # 0 /\ req[v].loaded.id = entity'.id =>
              /\ req[v].loaded.version \in 1..entity'.version
              /\ req[v].loaded.version # entity'.version
      BY <2>1, <2>5, <2>8, <2>9
    <3> QED
      BY <2>1, <2>7, <3>1, <3>2, EntityChanged
<1>2. CASE entity.id # old.id \/ VersionTaken(old)
  <2>1. req' = [req EXCEPT ![w] = Idle] /\ UNCHANGED <<entity, born, versions>>
    BY <1>2 DEF Revise, Fail
  <2> QED
    BY <2>1, Fresh, NoModelType, IdleShape
<1> QED
  BY <1>1, <1>2

(* The outcome of a publication changes neither the versions nor the        *)
(* definition: the version it applied has its row already.                  *)
LEMMA RecordStep ==
  ASSUME Inv, NEW w \in Worker, RecordPublish(w)
  PROVE  Inv' /\ versions' = versions
<1> DEFINE old == req[w].loaded
           new == [entity EXCEPT
             !.status = IF old.status = "published" THEN entity.status ELSE "published",
             !.published = IF old.published = old.version THEN entity.published
                                                          ELSE old.version]
<1>1. CASE entity.id = old.id
  <2>1. /\ UNCHANGED born /\ entity' = new /\ versions' = WithVersionOf(old)
        /\ req' = [req EXCEPT ![w] = Idle]
    BY <1>1 DEF RecordPublish
  <2>2. old.id # 0 /\ old \in EntityRow /\ old.version \in 1..entity.version
    BY <1>1 DEF RecordPublish, Inv, Loaded
  <2>3. /\ new \in EntityRow /\ new.id = entity.id /\ new.version = entity.version
        /\ new.model = entity.model
    BY <2>2 DEF Inv, EntityRow
  <2>4. \E v \in versions : v.id = old.id /\ v.version = old.version
    BY <1>1, <2>2 DEF Inv, Numbered
  <2>5. versions' = versions
    BY <2>1, <2>4 DEF WithVersionOf
  <2> HIDE DEF new
  <2>6. Numbered'
    BY <2>1, <2>3, <2>5 DEF Inv, Numbered
  <2> QED
    <3>1. /\ born' \in Nat /\ born <= born' /\ entity' \in EntityRow /\ entity'.id <= born'
          /\ entity'.id # 0 => entity'.version >= 1
      BY <2>1, <2>3 DEF Inv
    <3>2. \A v \in Worker :
            req[v].loaded.id # 0 /\ req[v].loaded.id = entity'.id =>
              /\ req[v].loaded.version \in 1..entity'.version
              /\ req[v].loaded.version = entity'.version => req[v].loaded.model = entity'.model
      BY <2>1, <2>3 DEF Inv, Loaded
    <3>3. req' = [req EXCEPT ![w] = Idle]
      BY <2>1
    <3> HIDE DEF old
    <3> QED
      BY <2>5, <2>6, <3>1, <3>2, <3>3, EntityChanged
<1>2. CASE entity.id # old.id
  <2>1. req' = [req EXCEPT ![w] = Idle] /\ UNCHANGED <<entity, born, versions>>
    BY <1>2 DEF RecordPublish, Fail
  <2> QED
    BY <2>1, Fresh, NoModelType, IdleShape
<1> QED
  BY <1>1, <1>2

(* A deletion takes the versions with it, and only the entity it loaded.    *)
LEMMA UnlinkStep ==
  ASSUME Inv, NEW w \in Worker, Unlink(w)
  PROVE  Inv' /\ versions' \subseteq versions
<1> DEFINE old == req[w].loaded
<1>1. /\ entity' = IF entity.id = old.id THEN NoEntity ELSE entity
      /\ versions' = {v \in versions : v.id # old.id}
      /\ req' = [req EXCEPT ![w] = Idle] /\ UNCHANGED born
  BY DEF Unlink
<1>2. CASE entity.id = old.id
  <2>1. versions' = {} /\ entity' = NoEntity
    BY <1>1, <1>2 DEF Inv, Numbered
  <2>2. Numbered'
    BY <2>1 DEF Numbered, NoEntity
  <2> QED
    <3>1. /\ born' \in Nat /\ born <= born' /\ entity' \in EntityRow /\ entity'.id <= born'
          /\ entity'.id = 0
      BY <1>1, <2>1, NoModelType DEF Inv, NoEntity
    <3> QED
      BY <1>1, <2>1, <2>2, <3>1, EntityChanged
<1>3. CASE entity.id # old.id
  <2>1. versions' = versions /\ entity' = entity
    BY <1>1, <1>3 DEF Inv, Numbered
  <2> QED
    BY <1>1, <2>1, Fresh, NoModelType, IdleShape
<1> QED
  BY <1>2, <1>3

(* A request begins with what is there.                                     *)
LEMMA Beginning ==
  ASSUME NEW w \in Worker,
         BeginCreate(w) \/ BeginImport(w) \/ BeginUpdate(w) \/ BeginPublish(w) \/ BeginDelete(w)
  PROVE  \E r : /\ req' = [req EXCEPT ![w] = r] /\ req[w].pc = "idle"
                /\ r.pc \in {"create", "import", "update", "plan", "drop", "unlink"}
                /\ r.pc \in {"update", "plan", "drop", "unlink"} => entity.id # 0
                /\ DOMAIN r = Fields /\ r.loaded = entity /\ r.payload \in Model
                /\ r.read = {} /\ r.seen = NoTables
                /\ UNCHANGED <<entity, versions, tables, audit, born>>
<1>1. PICK pc, payload, replace, confirm :
        /\ Begin(w, pc, payload, replace, confirm)
        /\ pc \in {"create", "import", "update", "plan", "drop", "unlink"}
        /\ pc \in {"update", "plan", "drop", "unlink"} => entity.id # 0
        /\ payload \in Model
  BY NoModelType, RegistryAssumption
     DEF BeginCreate, BeginImport, BeginUpdate, BeginPublish, BeginDelete
<1>2. PICK r : r = [pc |-> pc, loaded |-> entity, payload |-> payload, replace |-> replace,
                    confirm |-> confirm, read |-> {}, seen |-> NoTables]
  OBVIOUS
<1>3. /\ r.pc = pc /\ r.loaded = entity /\ r.payload = payload /\ DOMAIN r = Fields
      /\ r.read = {} /\ r.seen = NoTables
  BY <1>2 DEF Fields
<1>4. req' = [req EXCEPT ![w] = r] /\ req[w].pc = "idle"
      /\ UNCHANGED <<entity, versions, tables, audit, born>>
  BY <1>1, <1>2 DEF Begin
<1> QED
  BY <1>1, <1>3, <1>4

\* A request goes on to another step, with the same entity in hand.
GoesOn(w, r) ==
  /\ req' = [req EXCEPT ![w] = r]
  /\ DOMAIN r = Fields /\ r.loaded = req[w].loaded /\ r.payload = req[w].payload
  /\ UNCHANGED <<entity, versions, audit, born>>

(* A step that changes nothing of a request but where it is.                *)
LEMMA Moving ==
  ASSUME Inv, NEW w \in Worker, NEW pc, req' = [req EXCEPT ![w] = [@ EXCEPT !.pc = pc]],
         UNCHANGED <<entity, versions, audit, born>>
  PROVE  \E r : GoesOn(w, r) /\ r.pc = pc /\ r.seen = req[w].seen /\ r.read = req[w].read
<1>1. PICK r : r = [req[w] EXCEPT !.pc = pc]
  OBVIOUS
<1>2. /\ DOMAIN r = Fields /\ r.loaded = req[w].loaded /\ r.payload = req[w].payload
      /\ r.pc = pc /\ r.seen = req[w].seen /\ r.read = req[w].read
  BY <1>1 DEF Inv, Loaded, Fields
<1>3. req' = [req EXCEPT ![w] = r]
  BY <1>1
<1> QED
  BY <1>2, <1>3 DEF GoesOn

(* A look at the catalog, for a migration.                                  *)
LEMMA Looking ==
  ASSUME Inv, NEW w \in Worker, LookForTable(w)
  PROVE  \E t \in Tier : \E r :
           /\ GoesOn(w, r) /\ UNCHANGED tables
           /\ req[w].pc = "plan" /\ r.pc \in {"plan", "reflect"}
           /\ r.seen \in {req[w].seen,
                          [req[w].seen EXCEPT ![t] = Shown(tables[t].exists, NoModel)]}
           /\ r.read \in {req[w].read, req[w].read \cup {t}}
<1>1. PICK t \in Tier :
        /\ req[w].pc = "plan"
        /\ \/ req' = [req EXCEPT ![w] = [@ EXCEPT !.pc = "reflect"]]
           \/ req' = [req EXCEPT ![w] = Looked(@, t, Shown(tables[t].exists, NoModel), "plan")]
        /\ UNCHANGED <<entity, versions, tables, audit, born>>
  BY DEF LookForTable
<1>2. CASE req' = [req EXCEPT ![w] = [@ EXCEPT !.pc = "reflect"]]
  <2>1. PICK r : GoesOn(w, r) /\ r.pc = "reflect" /\ r.seen = req[w].seen /\ r.read = req[w].read
    BY <1>1, <1>2, Moving
  <2> QED
    BY <1>1, <2>1
<1>3. CASE req' = [req EXCEPT ![w] = Looked(@, t, Shown(tables[t].exists, NoModel), "plan")]
  <2>0. PICK x : x = Shown(tables[t].exists, NoModel)
    OBVIOUS
  <2>1. /\ req' = [req EXCEPT ![w] = Looked(@, t, x, "plan")]
        /\ UNCHANGED <<entity, versions, audit, born>>
    BY <1>1, <1>3, <2>0
  <2>2. PICK r : r = Looked(req[w], t, x, "plan")
    OBVIOUS
  <2>3. /\ DOMAIN r = Fields /\ r.loaded = req[w].loaded /\ r.payload = req[w].payload
        /\ r.pc = "plan" /\ r.read = req[w].read \cup {t}
        /\ r.seen = [req[w].seen EXCEPT ![t] = x]
    BY <2>2 DEF Looked, Inv, Loaded, Fields
  <2>4. req' = [req EXCEPT ![w] = r]
    BY <2>1, <2>2
  <2>5. GoesOn(w, r)
    BY <1>1, <2>3, <2>4 DEF GoesOn
  <2> QED
    BY <1>1, <2>0, <2>3, <2>5
<1> QED
  BY <1>1, <1>2, <1>3

(* A look at the columns of a table.                                        *)
LEMMA Reflecting ==
  ASSUME Inv, NEW w \in Worker, ReflectColumns(w)
  PROVE  \E t \in Typed : \E r :
           /\ GoesOn(w, r) /\ UNCHANGED tables
           /\ req[w].pc = "reflect" /\ r.pc = "plan"
           /\ r.seen = [req[w].seen EXCEPT ![t] = Shown(TRUE, tables[t].columns)]
           /\ r.read = req[w].read \cup {t}
<1>1. PICK t \in Typed :
        /\ req[w].pc = "reflect"
        /\ req' = [req EXCEPT ![w] = Looked(@, t, Shown(TRUE, tables[t].columns), "plan")]
        /\ UNCHANGED <<entity, versions, tables, audit, born>>
  BY DEF ReflectColumns
<1>0. PICK x : x = Shown(TRUE, tables[t].columns)
  OBVIOUS
<1>2. /\ req' = [req EXCEPT ![w] = Looked(@, t, x, "plan")]
      /\ UNCHANGED <<entity, versions, audit, born>>
  BY <1>0, <1>1
<1>3. PICK r : r = Looked(req[w], t, x, "plan")
  OBVIOUS
<1>4. /\ DOMAIN r = Fields /\ r.loaded = req[w].loaded /\ r.payload = req[w].payload
      /\ r.pc = "plan" /\ r.read = req[w].read \cup {t}
      /\ r.seen = [req[w].seen EXCEPT ![t] = x]
  BY <1>3 DEF Looked, Inv, Loaded, Fields
<1>5. req' = [req EXCEPT ![w] = r]
  BY <1>2, <1>3
<1>6. GoesOn(w, r)
  BY <1>1, <1>4, <1>5 DEF GoesOn
<1> QED
  BY <1>0, <1>1, <1>4, <1>6

(* A statement of a deletion, but for the last, and that one.               *)
LEMMA Dropping ==
  ASSUME Inv, NEW w \in Worker, DropTable(w)
  PROVE  \E t \in Tier : \E r :
           /\ GoesOn(w, r) /\ req[w].pc = "drop" /\ r.pc \in {"drop", "unlink"}
           /\ \/ /\ r.seen = [req[w].seen EXCEPT ![t] = Shown(tables[t].exists, NoModel)]
                 /\ r.read = req[w].read \cup {t} /\ UNCHANGED tables
              \/ /\ r.seen = req[w].seen /\ r.read = req[w].read /\ r.pc = "unlink"
                 /\ tables' = [u \in Tier |-> IF u = "landing" \/ req[w].seen[u].exists
                                              THEN NoTable ELSE tables[u]]
<1>1. PICK t \in Tier :
        /\ req[w].pc = "drop"
        /\ IF t # "landing"
           THEN /\ req' = [req EXCEPT ![w] = Looked(@, t, Shown(tables[t].exists, NoModel), "drop")]
                /\ UNCHANGED tables
           ELSE /\ tables' = [u \in Tier |-> IF u = t \/ req[w].seen[u].exists THEN NoTable
                                                                             ELSE tables[u]]
                /\ req' = [req EXCEPT ![w] = [@ EXCEPT !.pc = "unlink"]]
        /\ UNCHANGED <<entity, versions, audit, born>>
  BY DEF DropTable
<1>2. CASE t = "landing"
  <2>1. PICK r : /\ GoesOn(w, r) /\ r.pc = "unlink" /\ r.seen = req[w].seen
                 /\ r.read = req[w].read
    BY <1>1, <1>2, Moving
  <2> QED
    BY <1>1, <1>2, <2>1
<1>3. CASE t # "landing"
  <2>0. PICK x : x = Shown(tables[t].exists, NoModel)
    OBVIOUS
  <2>1. /\ req' = [req EXCEPT ![w] = Looked(@, t, x, "drop")]
        /\ UNCHANGED <<entity, versions, audit, born>>
    BY <1>1, <1>3, <2>0
  <2>2. PICK r : r = Looked(req[w], t, x, "drop")
    OBVIOUS
  <2>3. /\ DOMAIN r = Fields /\ r.loaded = req[w].loaded /\ r.payload = req[w].payload
        /\ r.pc = "drop" /\ r.read = req[w].read \cup {t}
        /\ r.seen = [req[w].seen EXCEPT ![t] = x]
    BY <2>2 DEF Looked, Inv, Loaded, Fields
  <2>4. req' = [req EXCEPT ![w] = r]
    BY <2>1, <2>2
  <2>5. GoesOn(w, r)
    BY <1>1, <2>3, <2>4 DEF GoesOn
  <2> QED
    BY <1>1, <1>3, <2>0, <2>3, <2>5
<1> QED
  BY <1>2, <1>3

(* Every step keeps the invariant.                                          *)
LEMMA InvStep == Inv /\ [Next]_vars => Inv'
<1> SUFFICES ASSUME Inv, [Next]_vars
             PROVE  Inv'
  OBVIOUS
<1>1. CASE UNCHANGED vars
  BY <1>1 DEF vars, Inv, Loaded, Numbered
<1>2. ASSUME NEW w \in Worker,
             BeginCreate(w) \/ BeginImport(w) \/ BeginUpdate(w) \/ BeginPublish(w) \/ BeginDelete(w)
      PROVE  Inv'
  <2>1. PICK r : /\ req' = [req EXCEPT ![w] = r]
                 /\ r.pc \in {"create", "import", "update", "plan", "drop", "unlink"}
                 /\ r.pc \in {"update", "plan", "drop", "unlink"} => entity.id # 0
                 /\ DOMAIN r = Fields /\ r.loaded = entity /\ r.payload \in Model
                 /\ UNCHANGED <<entity, versions, born>>
    BY <1>2, Beginning
  <2> QED
    BY <2>1, Fresh
<1>3. ASSUME NEW w \in Worker, SaveCreate(w) \/ SaveImport(w) \/ SaveUpdate(w)
      PROVE  Inv'
  BY <1>3, InsertStep, ReviseStep DEF SaveCreate, SaveImport, SaveUpdate, Inv, Loaded
<1>4. ASSUME NEW w \in Worker, Fail(w)
      PROVE  Inv'
  BY <1>4, Fresh, NoModelType, IdleShape DEF Fail
<1>5. ASSUME NEW w \in Worker, NEW r, GoesOn(w, r),
             req[w].pc \in {"plan", "reflect", "apply", "drop"}
      PROVE  Inv'
  <2>1. req[w].loaded.id # 0 /\ req[w].payload \in Model
    BY <1>5 DEF Inv, Loaded
  <2> QED
    BY <1>5, <2>1, Fresh DEF GoesOn
<1>6. ASSUME NEW w \in Worker, LookForTable(w) PROVE Inv'
  <2>1. PICK r : GoesOn(w, r) /\ req[w].pc = "plan"
    BY <1>6, Looking
  <2> QED
    BY <1>5, <2>1
<1>7. ASSUME NEW w \in Worker, ReflectColumns(w) PROVE Inv'
  <2>1. PICK r : GoesOn(w, r) /\ req[w].pc = "reflect"
    BY <1>7, Reflecting
  <2> QED
    BY <1>5, <2>1
<1>8. ASSUME NEW w \in Worker, PlanPublish(w) \/ ApplyPublish(w), ~Fail(w) PROVE Inv'
  <2>1. PICK pc : /\ req' = [req EXCEPT ![w] = [@ EXCEPT !.pc = pc]]
                  /\ req[w].pc \in {"plan", "apply"}
                  /\ UNCHANGED <<entity, versions, audit, born>>
    BY <1>8 DEF PlanPublish, ApplyPublish
  <2>2. PICK r : GoesOn(w, r)
    BY <2>1, Moving
  <2> QED
    BY <1>5, <2>1, <2>2
<1>9. ASSUME NEW w \in Worker, DropTable(w) PROVE Inv'
  <2>1. PICK r : GoesOn(w, r) /\ req[w].pc = "drop"
    BY <1>9, Dropping
  <2> QED
    BY <1>5, <2>1
<1> QED
  BY <1>1, <1>2, <1>3, <1>4, <1>6, <1>7, <1>8, <1>9, RecordStep, UnlinkStep
     DEF Next, Crash, DropDeadlock

(* There is no entity, no version and no request at first.                  *)
LEMMA InvInit == Init => Inv
BY NoModelType, IdleShape DEF Init, Inv, Loaded, Numbered, NoEntity

(* So the invariant always holds.                                           *)
LEMMA InvAlways == Spec => []Inv
BY InvInit, InvStep, PTL DEF Spec

(* Every version of an entity has exactly one snapshot, the last of them    *)
(* the definition as it is (models/meta.py, uq_model_version), however      *)
(* changes, imports, publications and deletions overlap.                    *)
THEOREM AlwaysComplete == Spec => []VersionsComplete
<1>1. ASSUME Inv PROVE VersionsComplete
  <2> SUFFICES ASSUME entity.id # 0
               PROVE  /\ \A n \in 1..entity.version :
                           Cardinality({v \in versions : v.id = entity.id /\ v.version = n}) = 1
                      /\ \A v \in versions :
                           /\ v.id = entity.id /\ v.version \in 1..entity.version
                           /\ v.version = entity.version => v.snapshot = entity.model
    BY DEF VersionsComplete
  <2>1. ASSUME NEW n \in 1..entity.version
        PROVE  Cardinality({v \in versions : v.id = entity.id /\ v.version = n}) = 1
    <3>1. PICK u \in versions : u.version = n
      BY <1>1 DEF Inv, Numbered
    <3>2. {v \in versions : v.id = entity.id /\ v.version = n} = {u}
      BY <1>1, <3>1 DEF Inv, Numbered
    <3> QED
      BY <3>2, FS_Singleton
  <2> QED
    BY <1>1, <2>1 DEF Inv, Numbered
<1> QED
  BY <1>1, InvAlways, PTL

(* A step adds versions with new numbers only, or takes them all away.      *)
LEMMA SnapshotsKept ==
  ASSUME Inv, [Next]_vars, NEW v \in versions, NEW u \in versions',
         v.id = u.id, v.version = u.version
  PROVE  v.snapshot = u.snapshot
<1>1. CASE versions' \subseteq versions
  BY <1>1 DEF Inv, Numbered
<1>2. ASSUME NEW w \in Worker, NEW action, Insert(w, action)
      PROVE  v.snapshot = u.snapshot
  <2>1. CASE entity.id = 0
    BY <2>1 DEF Inv, Numbered
  <2>2. CASE entity.id # 0
    BY <1>1, <1>2, <2>2 DEF Insert, Fail
  <2> QED
    BY <2>1, <2>2
<1>3. ASSUME NEW w \in Worker, NEW events, Revise(w, events)
      PROVE  v.snapshot = u.snapshot
  <2> DEFINE old == req[w].loaded
             row == Snapshot(old.id, old.version + 1,
                             Merged(old, req[w].payload, req[w].replace))
  <2>1. CASE ~VersionTaken(old) /\ versions' = versions \cup {row}
    <3>1. row.id = old.id /\ row.version = old.version + 1
      BY DEF Snapshot
    <3> HIDE DEF row
    <3>2. u # row
      BY <2>1, <3>1 DEF VersionTaken
    <3> QED
      BY <2>1, <3>2 DEF Inv, Numbered
  <2>2. CASE versions' = versions
    BY <1>1, <2>2
  <2> QED
    BY <1>3, <2>1, <2>2 DEF Revise, Fail
<1> QED
  BY <1>1, <1>2, <1>3, RecordStep, UnlinkStep
     DEF Next, vars, Crash, Fail, BeginCreate, BeginImport, BeginUpdate, BeginPublish,
         BeginDelete, Begin, SaveCreate, SaveImport, SaveUpdate, PlanPublish, ApplyPublish,
         LookForTable, ReflectColumns, DropTable, DropDeadlock

(* A snapshot on record never changes ("Immutable snapshot of an entity     *)
(* definition", models/meta.py): what was published can always be read back.*)
THEOREM AlwaysImmutable == Spec => SnapshotsImmutable
<1>1. Inv /\ [Next]_vars =>
        [\A v \in versions, u \in versions' :
           v.id = u.id /\ v.version = u.version => v.snapshot = u.snapshot]_vars
  BY SnapshotsKept
<1> QED
  BY <1>1, InvAlways, PTL DEF Spec, SnapshotsImmutable

-----------------------------------------------------------------------------

\* Columns of the same names and types, constraints aside.
Alike(a, b) == DOMAIN a = DOMAIN b /\ \A c \in DOMAIN a : a[c].type = b[c].type

\* Tables, or what a request saw of them, that agree.
Agreed(x) ==
  \A t \in Typed : x[t].exists = x["live"].exists /\ Alike(x[t].columns, x["live"].columns)

\* A plan that does the same to each typed tier, whatever they are by then.
Even(plan) ==
  \A t \in Typed :
    /\ t \in plan.create <=> "live" \in plan.create
    /\ Alike(plan.add[t], plan.add["live"])
    /\ DOMAIN plan.alter[t] = DOMAIN plan.alter["live"]
    /\ \A c \in DOMAIN plan.alter[t] : plan.alter[t][c] = plan.alter["live"][c]

(* The tiers are together if their columns are alike.                       *)
LEMMA TogetherAgree == ASSUME NEW x PROVE Together(x) <=> Agreed(x)
<1>1. Typed = {"staging", "live", "history"}
  BY DEF Typed, Tier
<1>2. ASSUME NEW a, NEW b PROVE Alike(a.columns, b.columns) <=> TypesOf(a) = TypesOf(b)
  <2>1. /\ TypesOf(a) = [c \in DOMAIN a.columns |-> a.columns[c].type]
        /\ TypesOf(b) = [c \in DOMAIN b.columns |-> b.columns[c].type]
    BY DEF TypesOf
  <2>2. ASSUME TypesOf(a) = TypesOf(b) PROVE Alike(a.columns, b.columns)
    <3>1. DOMAIN a.columns = DOMAIN b.columns
      BY <2>1, <2>2
    <3>2. ASSUME NEW c \in DOMAIN a.columns PROVE a.columns[c].type = b.columns[c].type
      <4>1. TypesOf(a)[c] = a.columns[c].type /\ TypesOf(b)[c] = b.columns[c].type
        BY <2>1, <3>1
      <4> QED
        BY <2>2, <4>1
    <3> QED
      BY <3>1, <3>2 DEF Alike
  <2>3. ASSUME Alike(a.columns, b.columns) PROVE TypesOf(a) = TypesOf(b)
    BY <2>1, <2>3 DEF Alike
  <2> QED
    BY <2>2, <2>3
<1> QED
  BY <1>1, <1>2 DEF Together, Agreed

(* The plan of a first publication.                                         *)
LEMMA CreateEven == ASSUME NEW model PROVE Even(CreatePlan(model))
<1>1. /\ CreatePlan(model).create = Tier
      /\ CreatePlan(model).add = [t \in Tier |-> NoModel]
      /\ CreatePlan(model).alter = [t \in Tier |-> NoModel]
  BY DEF CreatePlan, NoPlan
<1> QED
  BY <1>1 DEF Even, Alike, Typed, Tier, NoModel

(* The plan of a migration, made of tiers that agree.                       *)
LEMMA AlterEven == ASSUME NEW seen, Agreed(seen), NEW model PROVE Even(AlterPlan(model, seen))
<1> SUFFICES ASSUME NEW t \in Typed
             PROVE  LET plan == AlterPlan(model, seen) IN
                    /\ t \in plan.create <=> "live" \in plan.create
                    /\ Alike(plan.add[t], plan.add["live"])
                    /\ DOMAIN plan.alter[t] = DOMAIN plan.alter["live"]
                    /\ \A c \in DOMAIN plan.alter[t] : plan.alter[t][c] = plan.alter["live"][c]
  BY DEF Even
<1>1. t \in Tier /\ "live" \in Tier /\ "live" \in Typed /\ t # "landing"
  BY DEF Typed, Tier
<1>2. /\ seen[t].exists = seen["live"].exists
      /\ DOMAIN seen[t].columns = DOMAIN seen["live"].columns
      /\ \A c \in DOMAIN seen[t].columns :
           seen[t].columns[c].type = seen["live"].columns[c].type
  BY DEF Agreed, Alike
<1>3. Missing(t, model, seen) = Missing("live", model, seen)
  BY <1>1, <1>2 DEF Missing
<1>4. \A c \in Missing(t, model, seen) :
        AddedColumn(t, model[c]).type = AddedColumn("live", model[c]).type
  BY DEF AddedColumn
<1>5. Changed(t, model, seen) = Changed("live", model, seen)
  BY <1>2 DEF Changed
<1> DEFINE safe(s) == {c \in Changed(s, model, seen) :
                         Safe(seen[s].columns[c].type, model[c].type)}
<1>6. safe(t) = safe("live")
  BY <1>2, <1>5 DEF Changed
<1>7. /\ AlterPlan(model, seen).create = {s \in Tier : ~seen[s].exists}
      /\ \A s \in Tier :
           /\ AlterPlan(model, seen).add[s] =
                [c \in Missing(s, model, seen) |-> AddedColumn(s, model[c])]
           /\ AlterPlan(model, seen).alter[s] = [c \in safe(s) |-> PgType(model[c].type)]
  BY DEF AlterPlan
<1> HIDE DEF safe
<1> DEFINE plan == AlterPlan(model, seen)
           miss(s) == Missing(s, model, seen)
<1>8. /\ t \in plan.create <=> ~seen[t].exists
      /\ "live" \in plan.create <=> ~seen["live"].exists
  BY <1>1, <1>7
<1>9. /\ plan.add[t] = [c \in miss(t) |-> AddedColumn(t, model[c])]
      /\ plan.add["live"] = [c \in miss("live") |-> AddedColumn("live", model[c])]
      /\ plan.alter[t] = [c \in safe(t) |-> PgType(model[c].type)]
      /\ plan.alter["live"] = [c \in safe("live") |-> PgType(model[c].type)]
  BY <1>1, <1>7
<1>10. plan.alter[t] = plan.alter["live"]
  BY <1>6, <1>9
<1> HIDE DEF plan, miss
<1>11. DOMAIN plan.add[t] = miss(t) /\ DOMAIN plan.add["live"] = miss("live")
  BY <1>9
<1>12. miss(t) = miss("live")
  BY <1>3 DEF miss
<1>13. ASSUME NEW c \in miss(t)
       PROVE  plan.add[t][c].type = plan.add["live"][c].type
  <2>1. plan.add[t][c] = AddedColumn(t, model[c])
    BY <1>9
  <2>2. plan.add["live"][c] = AddedColumn("live", model[c])
    BY <1>9, <1>12
  <2> QED
    BY <1>13, <1>4, <2>1, <2>2 DEF miss
<1>14. Alike(plan.add[t], plan.add["live"])
  BY <1>11, <1>12, <1>13 DEF Alike
<1> QED
  BY <1>2, <1>8, <1>10, <1>14 DEF plan

(* An even plan leaves tiers that agree in agreement, stale or not.         *)
LEMMA ExecutedEven ==
  ASSUME Agreed(tables), NEW plan, Even(plan), tables' = [t \in Tier |-> Executed(plan, tables, t)]
  PROVE  Agreed(tables')
<1> SUFFICES ASSUME NEW t \in Typed
             PROVE  /\ tables'[t].exists = tables'["live"].exists
                    /\ Alike(tables'[t].columns, tables'["live"].columns)
  BY DEF Agreed
<1>1. t \in Tier /\ "live" \in Tier /\ "live" \in Typed /\ t # "landing"
  BY DEF Typed, Tier
<1>2. /\ tables'[t] = Executed(plan, tables, t)
      /\ tables'["live"] = Executed(plan, tables, "live")
  BY <1>1
<1>3. /\ tables[t].exists = tables["live"].exists
      /\ DOMAIN tables[t].columns = DOMAIN tables["live"].columns
      /\ \A c \in DOMAIN tables[t].columns :
           tables[t].columns[c].type = tables["live"].columns[c].type
  BY DEF Agreed, Alike
<1>4. Executed(plan, tables, t).exists = Executed(plan, tables, "live").exists
  BY <1>3 DEF Executed, Even
<1>5. CASE t \in plan.create
  <2>1. "live" \in plan.create
    BY <1>5 DEF Even
  <2>2. Alike(Columns(t, plan.model), Columns("live", plan.model))
    BY <1>1 DEF Columns, Alike
  <2>3. CASE tables[t].exists
    <3>1. /\ Executed(plan, tables, t).columns = tables[t].columns
          /\ Executed(plan, tables, "live").columns = tables["live"].columns
      BY <1>3, <1>5, <2>1, <2>3 DEF Executed
    <3> QED
      BY <1>2, <1>3, <1>4, <3>1 DEF Alike
  <2>4. CASE ~tables[t].exists
    <3>1. ~tables["live"].exists
      BY <1>3, <2>4
    <3>2. /\ Executed(plan, tables, t).columns = Columns(t, plan.model)
          /\ Executed(plan, tables, "live").columns = Columns("live", plan.model)
      BY <1>5, <2>1, <2>4, <3>1 DEF Executed
    <3> QED
      BY <1>2, <1>4, <2>2, <3>2
  <2> QED
    BY <2>3, <2>4
<1>6. CASE t \notin plan.create
  <2>1. "live" \notin plan.create
    BY <1>6 DEF Even
  <2> DEFINE cols(s) ==
        [c \in DOMAIN plan.add[s] \cup DOMAIN tables[s].columns |->
           IF c \in DOMAIN plan.add[s] THEN plan.add[s][c]
           ELSE IF c \in DOMAIN plan.alter[s]
           THEN [tables[s].columns[c] EXCEPT !.type = plan.alter[s][c]]
           ELSE tables[s].columns[c]]
  <2>2. tables'[t].columns = cols(t) /\ tables'["live"].columns = cols("live")
    BY <1>2, <1>6, <2>1 DEF Executed
  <2>3. Alike(cols(t), cols("live"))
    BY <1>3 DEF Alike, Even
  <2> QED
    BY <1>2, <1>4, <2>2, <2>3
<1> QED
  BY <1>5, <1>6

(* A plan made of what a request saw is even if that agreed.                *)
LEMMA PlanEven == ASSUME NEW r, Together(r.seen) PROVE Even(PlanOf(r))
BY CreateEven, AlterEven, TogetherAgree DEF PlanOf

(* Only the statements of a plan and a deletion that commits change tables. *)
LEMMA TablesChange ==
  ASSUME Inv, [Next]_vars, tables' # tables
  PROVE  \E w \in Worker :
           \/ /\ req[w].pc = "apply" /\ req'[w].pc = "record"
              /\ Executable(PlanOf(req[w]), tables)
              /\ tables' = [t \in Tier |-> Executed(PlanOf(req[w]), tables, t)]
              /\ UNCHANGED <<entity, audit>>
           \/ /\ req[w].pc = "drop" /\ req'[w].pc = "unlink"
              /\ tables' = [t \in Tier |-> IF t = "landing" \/ req[w].seen[t].exists
                                           THEN NoTable ELSE tables[t]]
              /\ UNCHANGED <<entity, audit>>
<1>1. PICK w \in Worker : \/ ApplyPublish(w) /\ ~Fail(w)
                          \/ DropTable(w)
  BY DEF vars, Next, BeginCreate, BeginImport, BeginUpdate, BeginPublish, BeginDelete, Begin,
         SaveCreate, SaveImport, SaveUpdate, Insert, Revise, Fail, Crash, LookForTable,
         ReflectColumns, PlanPublish, RecordPublish, DropDeadlock, Unlink
<1>2. CASE ApplyPublish(w) /\ ~Fail(w)
  <2>1. /\ req' = [req EXCEPT ![w] = [@ EXCEPT !.pc = "record"]] /\ req[w].pc = "apply"
        /\ Executable(PlanOf(req[w]), tables)
        /\ tables' = [t \in Tier |-> Executed(PlanOf(req[w]), tables, t)]
        /\ UNCHANGED <<entity, versions, audit, born>>
    BY <1>2 DEF ApplyPublish
  <2>2. PICK r : /\ GoesOn(w, r) /\ r.pc = "record" /\ r.seen = req[w].seen
                 /\ r.read = req[w].read
    <3>1. /\ req' = [req EXCEPT ![w] = [@ EXCEPT !.pc = "record"]]
          /\ UNCHANGED <<entity, versions, audit, born>>
      BY <2>1
    <3> QED
      BY <3>1, Moving
  <2>3. req'[w].pc = "record"
    BY <2>2 DEF GoesOn, Inv
  <2> QED
    BY <2>1, <2>3
<1>3. CASE DropTable(w)
  <2>1. PICK r : /\ GoesOn(w, r) /\ req[w].pc = "drop" /\ r.pc = "unlink"
                 /\ tables' = [u \in Tier |-> IF u = "landing" \/ req[w].seen[u].exists
                                              THEN NoTable ELSE tables[u]]
    BY <1>3, Dropping
  <2>2. req'[w].pc = "unlink" /\ UNCHANGED <<entity, audit>>
    BY <2>1 DEF GoesOn, Inv
  <2> QED
    BY <2>1, <2>2
<1> QED
  BY <1>1, <1>2, <1>3

(* The three tiers can be torn apart only by a request whose own statements *)
(* straddled somebody's DDL: a plan made of tiers that agreed does the same *)
(* to each of them, however late it is applied and to whatever it finds     *)
(* (build_alter_plan and apply_plan, ddl.py), and a deletion that found them*)
(* together leaves them together (build_drop_plan).                         *)
THEOREM TornOnlyThus == Spec => TornOnlyByTornReads
<1>1. ASSUME Inv, [Next]_vars, Together(tables), ~Together(tables')
      PROVE  \E w \in Worker : req'[w].pc # req[w].pc /\ ~Together(req[w].seen)
  <2>1. PICK w \in Worker :
          \/ /\ req[w].pc = "apply" /\ req'[w].pc = "record"
             /\ tables' = [t \in Tier |-> Executed(PlanOf(req[w]), tables, t)]
          \/ /\ req[w].pc = "drop" /\ req'[w].pc = "unlink"
             /\ tables' = [t \in Tier |-> IF t = "landing" \/ req[w].seen[t].exists
                                          THEN NoTable ELSE tables[t]]
    BY <1>1, TablesChange
  <2>2. ASSUME Together(req[w].seen) PROVE FALSE
    <3>1. Agreed(tables) /\ Agreed(req[w].seen) /\ ~Agreed(tables')
      BY <1>1, <2>2, TogetherAgree
    <3>2. CASE tables' = [t \in Tier |-> Executed(PlanOf(req[w]), tables, t)]
      BY <2>2, <3>1, <3>2, PlanEven, ExecutedEven
    <3>3. CASE tables' = [t \in Tier |-> IF t = "landing" \/ req[w].seen[t].exists
                                         THEN NoTable ELSE tables[t]]
      <4>1. \A t \in Typed : t \in Tier /\ t # "landing"
        BY DEF Typed
      <4>2. "live" \in Typed
        BY DEF Typed, Tier
      <4>3. \A t \in Typed : tables'[t] = IF req[w].seen["live"].exists THEN NoTable ELSE tables[t]
        BY <3>1, <3>3, <4>1 DEF Agreed
      <4>4. Agreed(tables')
        BY <3>1, <4>2, <4>3 DEF Agreed, Alike
      <4> QED
        BY <3>1, <4>4
    <3> QED
      BY <2>1, <3>2, <3>3
  <2> QED
    BY <2>1, <2>2
<1>2. Inv /\ [Next]_vars =>
        [Together(tables) /\ ~Together(tables') =>
           \E w \in Worker : req'[w].pc # req[w].pc /\ ~Together(req[w].seen)]_vars
  BY <1>1
<1> QED
  BY <1>2, InvInit, InvStep, PTL DEF Spec, TornOnlyByTornReads

-----------------------------------------------------------------------------
\* The column type of some attribute.
Rendering(p) == \E l \in LogicalType : p = PgType(l)

(* Every logical type has a column type, a sized one that of a string.      *)
LEMMA BaseTypes ==
  ASSUME NEW d \in DataType
  PROVE  Base[d] \in PgBase /\ (Base[d] = "varchar" => d \in {"string", "email", "enum"})
<1>1. DataType = {"string", "text", "integer", "bigint", "decimal", "float", "boolean", "date",
                  "timestamp", "uuid", "json", "email", "url", "enum"}
  BY DEF DataType, Base
<1>2. /\ Base["string"] = "varchar" /\ Base["text"] = "text" /\ Base["integer"] = "integer"
      /\ Base["bigint"] = "bigint" /\ Base["decimal"] = "numeric"
      /\ Base["float"] = "double precision" /\ Base["boolean"] = "boolean"
      /\ Base["date"] = "date" /\ Base["timestamp"] = "timestamptz" /\ Base["uuid"] = "uuid"
      /\ Base["json"] = "jsonb" /\ Base["email"] = "varchar" /\ Base["url"] = "text"
      /\ Base["enum"] = "varchar"
  BY DEF Base
<1> QED
  BY <1>1, <1>2 DEF PgBase

(* An attribute's column type is a column type.                             *)
LEMMA RenderedTypes == ASSUME NEW l \in LogicalType PROVE PgType(l) \in ColumnType
<1>1. /\ l.data_type \in DataType /\ l.length \in Nat /\ l.precision \in Nat /\ l.scale \in Nat
  BY DEF LogicalType
<1>2. ASSUME NEW b \in PgBase, NEW x \in Nat, NEW y \in Nat, NEW z \in Nat
      PROVE  Pg(b, x, y, z) \in ColumnType
  BY <1>2 DEF Pg, ColumnType
<1>3. "numeric" \in PgBase /\ "text" \in PgBase /\ "varchar" \in PgBase
  BY DEF PgBase
<1>4. Base[l.data_type] \in PgBase
  BY <1>1, BaseTypes
<1>5. l.data_type \in Sized => Length(l) \in Nat
  BY <1>1 DEF Sized, DefaultLength, Length
<1>6. CASE l.data_type = "decimal" /\ l.precision # 0
  <2>1. PgType(l) = Pg("numeric", 0, l.precision, l.scale)
    BY <1>6 DEF PgType, Sized, DefaultLength
  <2> QED
    BY <1>1, <1>2, <1>3, <2>1
<1>7. CASE ~(l.data_type = "decimal" /\ l.precision # 0) /\ l.data_type \in Sized
  <2>1. PgType(l) = IF Length(l) = 0 THEN Pg("text", 0, 0, 0) ELSE Pg("varchar", Length(l), 0, 0)
    BY <1>7 DEF PgType, Sized, DefaultLength
  <2> QED
    BY <1>2, <1>3, <1>5, <1>7, <2>1
<1>8. CASE ~(l.data_type = "decimal" /\ l.precision # 0) /\ l.data_type \notin Sized
  <2>1. PgType(l) = Pg(Base[l.data_type], 0, 0, 0)
    BY <1>8 DEF PgType
  <2> QED
    BY <1>2, <1>4, <2>1
<1> QED
  BY <1>6, <1>7, <1>8

(* What the catalog reports of such a column renders to the type it was     *)
(* made with: a column as published never counts as changed.                *)
LEMMA RoundTrip == ASSUME NEW l \in LogicalType PROVE RenderPg(Catalog(PgType(l))) = PgType(l)
<1>1. l.data_type \in DataType
  BY DEF LogicalType
<1>2. CASE l.data_type = "decimal" /\ l.precision # 0
  <2>1. PgType(l) = Pg("numeric", 0, l.precision, l.scale)
    BY <1>2 DEF PgType, Sized, DefaultLength
  <2> QED
    BY <1>2, <2>1 DEF Pg, Catalog, RenderPg
<1>3. CASE ~(l.data_type = "decimal" /\ l.precision # 0) /\ l.data_type \in Sized
  <2>1. PgType(l) = IF Length(l) = 0 THEN Pg("text", 0, 0, 0) ELSE Pg("varchar", Length(l), 0, 0)
    BY <1>3 DEF PgType, Sized, DefaultLength
  <2>2. CASE Length(l) = 0
    BY <2>1, <2>2 DEF Pg, Catalog, RenderPg
  <2>3. CASE Length(l) # 0
    BY <2>1, <2>3 DEF Pg, Catalog, RenderPg
  <2> QED
    BY <2>2, <2>3
<1>4. CASE ~(l.data_type = "decimal" /\ l.precision # 0) /\ l.data_type \notin Sized
  <2>1. PgType(l) = Pg(Base[l.data_type], 0, 0, 0)
    BY <1>4 DEF PgType
  <2>2. Base[l.data_type] # "varchar"
    BY <1>1, <1>4, BaseTypes DEF Sized, DefaultLength
  <2>3. PICK b : b = Base[l.data_type]
    OBVIOUS
  <2>4. RenderPg(Catalog(Pg(b, 0, 0, 0))) = Pg(b, 0, 0, 0)
    <3>1. Catalog(Pg(b, 0, 0, 0)) \in {Pg(b, 0, x, 0) : x \in {0, 32, 64, 53}}
      BY DEF Pg, Catalog
    <3>2. b = "numeric" => Catalog(Pg(b, 0, 0, 0)) = Pg(b, 0, 0, 0)
      BY DEF Pg, Catalog
    <3>3. PICK x \in {0, 32, 64, 53} : Catalog(Pg(b, 0, 0, 0)) = Pg(b, 0, x, 0)
      BY <3>1
    <3>4. b # "numeric" \/ x = 0
      BY <3>2, <3>3 DEF Pg
    <3> QED
      BY <2>2, <2>3, <3>3, <3>4 DEF Pg, RenderPg
  <2> QED
    BY <2>1, <2>3, <2>4
<1> QED
  BY <1>2, <1>3, <1>4

-----------------------------------------------------------------------------
\* Columns with types of attributes.
SoundColumns(columns) ==
  /\ DOMAIN columns \subseteq Col
  /\ \A c \in DOMAIN columns : columns[c] \in Column /\ Rendering(columns[c].type)

\* A table of such columns, unique ones among them.
SoundTable(x) ==
  /\ x.exists \in BOOLEAN
  /\ ~x.exists => DOMAIN x.columns = {}
  /\ x.unique \subseteq DOMAIN x.columns
  /\ SoundColumns(x.columns)

\* What a request saw of the tiers.
SoundRead(r) ==
  /\ r.read \subseteq Tier
  /\ r.seen = [t \in Tier |-> r.seen[t]]
  /\ \A t \in Tier : SoundColumns(r.seen[t].columns)

\* A plan whose statements name attributes and types of attributes.
SoundPlan(plan) ==
  /\ plan.model \in Model
  /\ plan.unique \subseteq plan.indexed
  /\ plan.destructive \subseteq Tier \X Col
  /\ DOMAIN plan.add["landing"] = {}
  /\ \A t \in Tier :
       /\ DOMAIN plan.add[t] \subseteq Col
       /\ \A c \in DOMAIN plan.add[t] : plan.add[t][c] \in Column /\ Rendering(plan.add[t][c].type)
       /\ \A c \in DOMAIN plan.alter[t] : Rendering(plan.alter[t][c])

ShapeInv ==
  /\ Inv
  /\ audit \subseteq Event
  /\ \A t \in Tier : SoundTable(tables[t])
  /\ \A w \in Worker : SoundRead(req[w])

(* The attributes of a definition have logical types.                       *)
LEMMA AttributeTypes ==
  ASSUME NEW model \in Model
  PROVE  /\ DOMAIN model \subseteq Col
         /\ \A c \in DOMAIN model :
              /\ model[c].type \in LogicalType
              /\ model[c].required \in BOOLEAN
<1>1. PICK S \in SUBSET Col : model \in [S -> Definitions]
  BY DEF Model
<1> QED
  BY <1>1, RegistryAssumption DEF Definition

(* The columns of a new table, and one that is added.                       *)
LEMMA ColumnsSound ==
  ASSUME NEW model \in Model, NEW t \in Tier
  PROVE  /\ DOMAIN Columns(t, model) \subseteq Col
         /\ \A c \in DOMAIN Columns(t, model) :
              Columns(t, model)[c] \in Column /\ Rendering(Columns(t, model)[c].type)
         /\ \A c \in DOMAIN model :
              AddedColumn(t, model[c]) \in Column /\ Rendering(AddedColumn(t, model[c]).type)
<1>1. ASSUME NEW c \in DOMAIN model, NEW q \in BOOLEAN
      PROVE  LET x == [type |-> PgType(model[c].type), required |-> q]
             IN  x \in Column /\ Rendering(x.type)
  BY <1>1, AttributeTypes, RenderedTypes DEF Column, Rendering
<1>2. ASSUME NEW c \in DOMAIN model
      PROVE  AddedColumn(t, model[c]) \in Column /\ Rendering(AddedColumn(t, model[c]).type)
  BY <1>1, AttributeTypes DEF AddedColumn
<1>3. CASE t = "landing"
  BY <1>2, <1>3 DEF Columns, NoModel
<1>4. CASE t # "landing"
  <2>1. Columns(t, model) =
          [c \in DOMAIN model |->
             [type |-> PgType(model[c].type), required |-> t = "live" /\ model[c].required]]
    BY <1>4 DEF Columns
  <2>2. \A c \in DOMAIN model : (t = "live" /\ model[c].required) \in BOOLEAN
    BY AttributeTypes
  <2>3. ASSUME NEW c \in DOMAIN model
        PROVE  Columns(t, model)[c] \in Column /\ Rendering(Columns(t, model)[c].type)
    BY <1>1, <2>1, <2>2
  <2> QED
    BY <1>2, <2>1, <2>3, AttributeTypes
<1> QED
  BY <1>3, <1>4

(* Both kinds of plan.                                                      *)
LEMMA PlansSound ==
  ASSUME NEW r, r.loaded \in EntityRow, \A t \in Tier : SoundColumns(r.seen[t].columns)
  PROVE  SoundPlan(PlanOf(r))
<1> DEFINE e == r.loaded
           seen == r.seen
<1>1. e.model \in Model
  BY DEF EntityRow
<1>0. \A t \in Tier : SoundColumns(seen[t].columns)
  OBVIOUS
<1> HIDE DEF e, seen
<1>2. Unique(e.model) \subseteq Indexed(e.model)
  BY DEF Unique, Indexed
<1>3. SoundPlan(CreatePlan(e.model))
  <2>1. /\ CreatePlan(e.model).model = e.model /\ CreatePlan(e.model).unique = Unique(e.model)
        /\ CreatePlan(e.model).indexed = Indexed(e.model)
        /\ CreatePlan(e.model).destructive = {}
        /\ CreatePlan(e.model).add = [t \in Tier |-> NoModel]
        /\ CreatePlan(e.model).alter = [t \in Tier |-> NoModel]
    BY DEF CreatePlan, NoPlan
  <2>2. DOMAIN NoModel = {}
    BY DEF NoModel
  <2> QED
    BY <1>1, <1>2, <2>1, <2>2 DEF SoundPlan, Tier
<1>4. SoundPlan(AlterPlan(e.model, seen))
  <2> DEFINE safe(t) == {c \in Changed(t, e.model, seen) :
                           Safe(seen[t].columns[c].type, e.model[c].type)}
  <2>1. /\ AlterPlan(e.model, seen).model = e.model
        /\ AlterPlan(e.model, seen).unique = Unique(e.model)
        /\ AlterPlan(e.model, seen).indexed = Indexed(e.model)
        /\ AlterPlan(e.model, seen).destructive =
             UNION {{<<t, c>> : c \in (Changed(t, e.model, seen) \ safe(t))
                                        \cup Removed(t, e.model, seen)} : t \in Tier}
        /\ \A t \in Tier :
             /\ AlterPlan(e.model, seen).add[t] =
                  [c \in Missing(t, e.model, seen) |-> AddedColumn(t, e.model[c])]
             /\ AlterPlan(e.model, seen).alter[t] = [c \in safe(t) |-> PgType(e.model[c].type)]
    BY DEF AlterPlan
  <2>2. ASSUME NEW t \in Tier
        PROVE  /\ Missing(t, e.model, seen) \subseteq DOMAIN e.model
               /\ safe(t) \subseteq DOMAIN e.model
               /\ Changed(t, e.model, seen) \cup Removed(t, e.model, seen) \subseteq Col
    BY <1>0, <2>2 DEF Missing, Changed, Removed, SoundColumns
  <2> HIDE DEF safe
  <2> DEFINE plan == AlterPlan(e.model, seen)
  <2>3. plan.destructive \subseteq Tier \X Col /\ DOMAIN plan.add["landing"] = {}
    <3>1. Missing("landing", e.model, seen) = {} /\ "landing" \in Tier
      BY DEF Missing, Typed, Tier
    <3>2. plan.add["landing"] =
            [c \in Missing("landing", e.model, seen) |-> AddedColumn("landing", e.model[c])]
      BY <2>1, <3>1
    <3>3. DOMAIN plan.add["landing"] = {}
      BY <3>1, <3>2
    <3> QED
      BY <2>1, <2>2, <3>3
  <2>4. ASSUME NEW t \in Tier
        PROVE  /\ DOMAIN plan.add[t] \subseteq Col
               /\ \A c \in DOMAIN plan.add[t] :
                    plan.add[t][c] \in Column /\ Rendering(plan.add[t][c].type)
               /\ \A c \in DOMAIN plan.alter[t] : Rendering(plan.alter[t][c])
    <3>1. /\ plan.add[t] = [c \in Missing(t, e.model, seen) |-> AddedColumn(t, e.model[c])]
          /\ plan.alter[t] = [c \in safe(t) |-> PgType(e.model[c].type)]
      BY <2>1
    <3> HIDE DEF plan
    <3>2. \A c \in DOMAIN e.model : Rendering(PgType(e.model[c].type))
      BY <1>1, AttributeTypes DEF Rendering
    <3> QED
      BY <1>1, <2>2, <3>1, <3>2, AttributeTypes, ColumnsSound
  <2>5. plan.model = e.model /\ plan.unique = Unique(e.model) /\ plan.indexed = Indexed(e.model)
    BY <2>1
  <2> HIDE DEF plan
  <2>6. SoundPlan(plan)
    BY <1>1, <1>2, <2>3, <2>4, <2>5 DEF SoundPlan
  <2> QED
    BY <2>6 DEF plan
<1> QED
  BY <1>3, <1>4 DEF PlanOf, e, seen

(* What the statements of a plan make of a table.                           *)
LEMMA ExecutedSound ==
  ASSUME \A t \in Tier : SoundTable(tables[t]), NEW plan, SoundPlan(plan),
         Executable(plan, tables), NEW t \in Tier
  PROVE  SoundTable(Executed(plan, tables, t))
<1> DEFINE now == tables[t]
           new == Executed(plan, tables, t)
<1>1. /\ new.exists = (now.exists \/ t \in plan.create)
      /\ new.unique = IF t = "live" THEN now.unique \cup plan.unique ELSE {}
      /\ t \in plan.create => new.columns = IF now.exists THEN now.columns ELSE Columns(t, plan.model)
      /\ t \notin plan.create => new.columns =
           [c \in DOMAIN plan.add[t] \cup DOMAIN now.columns |->
             IF c \in DOMAIN plan.add[t] THEN plan.add[t][c]
             ELSE IF c \in DOMAIN plan.alter[t]
             THEN [now.columns[c] EXCEPT !.type = plan.alter[t][c]]
             ELSE now.columns[c]]
  BY DEF Executed
<1>2. SoundTable(now)
  OBVIOUS
<1>3. t = "live" => plan.unique \subseteq DOMAIN new.columns
  BY DEF Executable, SoundPlan
<1> HIDE DEF new, now
<1>4. DOMAIN new.columns \subseteq Col /\ (now.exists => DOMAIN now.columns \subseteq DOMAIN new.columns)
      /\ \A c \in DOMAIN new.columns : new.columns[c] \in Column /\ Rendering(new.columns[c].type)
  <2>1. CASE t \in plan.create
    BY <1>1, <1>2, <2>1, ColumnsSound DEF SoundPlan, SoundTable, SoundColumns
  <2>2. CASE t \notin plan.create
    <3>1. ASSUME NEW c \in DOMAIN now.columns, c \in DOMAIN plan.alter[t]
          PROVE  LET x == [now.columns[c] EXCEPT !.type = plan.alter[t][c]]
                 IN  x \in Column /\ Rendering(x.type)
      <4>1. now.columns[c] \in Column /\ Rendering(plan.alter[t][c])
        BY <1>2, <3>1 DEF SoundPlan, SoundTable, SoundColumns
      <4>2. plan.alter[t][c] \in ColumnType
        BY <4>1, RenderedTypes DEF Rendering
      <4> QED
        BY <4>1, <4>2 DEF Column
    <3>2. ASSUME NEW c \in DOMAIN new.columns
          PROVE  new.columns[c] \in Column /\ Rendering(new.columns[c].type)
      <4>1. CASE c \in DOMAIN plan.add[t]
        BY <1>1, <2>2, <3>2, <4>1 DEF SoundPlan
      <4>2. CASE c \notin DOMAIN plan.add[t] /\ c \in DOMAIN plan.alter[t]
        <5>1. c \in DOMAIN now.columns
          BY <1>1, <2>2, <3>2, <4>2
        <5>2. PICK x : x = [now.columns[c] EXCEPT !.type = plan.alter[t][c]]
          OBVIOUS
        <5>3. x \in Column /\ Rendering(x.type)
          BY <3>1, <4>2, <5>1, <5>2
        <5>4. new.columns[c] = x
          BY <1>1, <2>2, <3>2, <4>2, <5>2
        <5> QED
          BY <5>3, <5>4
      <4>3. CASE c \notin DOMAIN plan.add[t] /\ c \notin DOMAIN plan.alter[t]
        BY <1>1, <1>2, <2>2, <3>2, <4>3 DEF SoundTable, SoundColumns
      <4> QED
        BY <4>1, <4>2, <4>3
    <3> QED
      BY <1>1, <1>2, <2>2, <3>2 DEF SoundPlan, SoundTable, SoundColumns
  <2> QED
    BY <2>1, <2>2
<1>5. new.unique \subseteq DOMAIN new.columns
  BY <1>1, <1>2, <1>3, <1>4 DEF SoundTable, SoundColumns
<1> QED
  <2>1. new.exists \in BOOLEAN
    BY <1>1, <1>2 DEF SoundTable, SoundColumns
  <2>2. ~new.exists => DOMAIN new.columns = {}
    <3>1. ASSUME ~now.exists, t \notin plan.create PROVE DOMAIN plan.add[t] = {}
      BY <3>1 DEF Executable, SoundPlan, Typed, now
    <3> QED
      BY <1>1, <1>2, <3>1 DEF SoundTable, SoundColumns
  <2>3. SoundTable(new)
    BY <1>4, <1>5, <2>1, <2>2 DEF SoundTable, SoundColumns
  <2> QED
    BY <2>3 DEF new

(* A tier that was not looked at.                                           *)
LEMMA NothingSeen ==
  /\ SoundTable(NoTable) /\ SoundColumns(NoModel)
  /\ \A r : r.read = {} /\ r.seen = NoTables => SoundRead(r)
<1>1. SoundTable(NoTable) /\ SoundColumns(NoTable.columns) /\ SoundColumns(NoModel)
  BY DEF SoundTable, SoundColumns, NoTable, NoModel
<1>2. NoTables = [t \in Tier |-> NoTables[t]] /\ \A t \in Tier : NoTables[t] = NoTable
  BY DEF NoTables
<1> QED
  BY <1>1, <1>2 DEF SoundRead

(* One more tier looked at.                                                 *)
LEMMA MoreSeen ==
  ASSUME NEW q, SoundRead(q), NEW r, NEW t \in Tier, NEW exists, NEW columns, SoundColumns(columns),
         r.seen \in {q.seen, [q.seen EXCEPT ![t] = Shown(exists, columns)]},
         r.read \in {q.read, q.read \cup {t}}
  PROVE  SoundRead(r)
<1>1. PICK x : x = Shown(exists, columns) /\ x.columns = columns
  BY DEF Shown
<1>2. ASSUME r.seen = [q.seen EXCEPT ![t] = x] PROVE SoundRead(r)
  <2>1. r.seen = [u \in Tier |-> IF u = t THEN x ELSE q.seen[u]]
    BY <1>2 DEF SoundRead
  <2> QED
    BY <1>1, <2>1 DEF SoundRead
<1>3. ASSUME r.seen = q.seen PROVE SoundRead(r)
  BY <1>3 DEF SoundRead
<1> QED
  BY <1>1, <1>2, <1>3

(* A step that changes one request, and maybe tables.                       *)
LEMMA QuietShape ==
  ASSUME ShapeInv, Inv', NEW w \in Worker, NEW r, req' = [req EXCEPT ![w] = r], SoundRead(r),
         \A t \in Tier : SoundTable(tables'[t]), audit' \subseteq Event
  PROVE  ShapeInv'
<1>1. \A v \in Worker : req'[v] = IF v = w THEN r ELSE req[v]
  BY DEF ShapeInv, Inv
<1>2. \A v \in Worker : SoundRead(req'[v])
  BY <1>1 DEF ShapeInv
<1> QED
  BY <1>2 DEF ShapeInv, SoundRead, SoundTable

(* The tables as a step leaves them.                                        *)
LEMMA TablesSound ==
  ASSUME ShapeInv, [Next]_vars, NEW t \in Tier
  PROVE  SoundTable(tables'[t])
<1>1. CASE UNCHANGED tables
  BY <1>1 DEF ShapeInv
<1>2. CASE tables' # tables
  <2>1. PICK w \in Worker :
          \/ /\ Executable(PlanOf(req[w]), tables)
             /\ tables' = [u \in Tier |-> Executed(PlanOf(req[w]), tables, u)]
          \/ tables' = [u \in Tier |-> IF u = "landing" \/ req[w].seen[u].exists
                                       THEN NoTable ELSE tables[u]]
    BY <1>2, TablesChange DEF ShapeInv
  <2>2. SoundPlan(PlanOf(req[w]))
    BY PlansSound DEF ShapeInv, Inv, Loaded, SoundRead
  <2>3. CASE tables' = [u \in Tier |-> IF u = "landing" \/ req[w].seen[u].exists
                                       THEN NoTable ELSE tables[u]]
    BY <2>3, NothingSeen DEF ShapeInv
  <2>4. CASE /\ Executable(PlanOf(req[w]), tables)
             /\ tables' = [u \in Tier |-> Executed(PlanOf(req[w]), tables, u)]
    <3>1. SoundTable(Executed(PlanOf(req[w]), tables, t))
      BY <2>2, <2>4, ExecutedSound DEF ShapeInv
    <3> QED
      BY <2>4, <3>1
  <2> QED
    BY <2>1, <2>3, <2>4
<1> QED
  BY <1>1, <1>2

(* The events a step records.                                               *)
LEMMA EventsSound ==
  ASSUME ShapeInv, NEW w \in Worker,
         SaveCreate(w) \/ SaveImport(w) \/ SaveUpdate(w) \/ Fail(w) \/ RecordPublish(w) \/ Unlink(w)
  PROVE  audit' \subseteq Event
<1>0. Inv /\ audit \subseteq Event
  BY DEF ShapeInv
<1>1. born + 1 \in Nat /\ req[w].loaded.id \in Nat /\ req[w].loaded.version \in Nat
      /\ req[w].loaded.version + 1 \in Nat
  BY <1>0 DEF Inv, Loaded, EntityRow
<1>2. ASSUME NEW id \in Nat, NEW version \in Nat,
             NEW a \in {"model_create", "model_import", "model_publish", "model_delete"}
      PROVE  Happened(a, id, version) \in Event
  BY DEF Happened, Event
<1>3. ASSUME NEW a \in {"model_create", "model_import"}, Insert(w, a) PROVE audit' \subseteq Event
  BY <1>0, <1>1, <1>2, <1>3 DEF Insert, Fail
<1>4. ASSUME NEW events, Revise(w, events), events \subseteq Event PROVE audit' \subseteq Event
  BY <1>0, <1>4 DEF Revise, Fail
<1>5. CASE SaveCreate(w)
  BY <1>3, <1>5 DEF SaveCreate
<1>6. CASE SaveUpdate(w)
  BY <1>4, <1>6 DEF SaveUpdate
<1>7. CASE SaveImport(w)
  <2>1. {Happened("model_import", req[w].loaded.id, req[w].loaded.version + 1)} \subseteq Event
    BY <1>1, <1>2
  <2> QED
    BY <1>3, <1>4, <1>7, <2>1 DEF SaveImport
<1>8. CASE Fail(w) \/ RecordPublish(w) \/ Unlink(w)
  BY <1>0, <1>1, <1>2, <1>8 DEF Fail, RecordPublish, Unlink
<1> QED
  BY <1>5, <1>6, <1>7, <1>8

(* Every step keeps tables, events and what was seen in shape.              *)
LEMMA ShapeStep == ShapeInv /\ [Next]_vars => ShapeInv'
<1> SUFFICES ASSUME ShapeInv, [Next]_vars
             PROVE  ShapeInv'
  OBVIOUS
<1>0. Inv /\ Inv' /\ audit \subseteq Event /\ \A t \in Tier : SoundTable(tables'[t])
  BY InvStep, TablesSound DEF ShapeInv
<1>1. CASE UNCHANGED vars
  <2>1. UNCHANGED <<tables, audit, req>>
    BY <1>1 DEF vars
  <2> QED
    BY <1>0, <2>1 DEF ShapeInv, SoundRead, SoundTable
<1>2. ASSUME NEW w \in Worker,
             BeginCreate(w) \/ BeginImport(w) \/ BeginUpdate(w) \/ BeginPublish(w) \/ BeginDelete(w)
      PROVE  ShapeInv'
  <2>1. PICK r : /\ req' = [req EXCEPT ![w] = r] /\ r.read = {} /\ r.seen = NoTables
                 /\ UNCHANGED <<entity, versions, tables, audit, born>>
    BY <1>2, Beginning
  <2>2. SoundRead(r)
    BY <2>1, NothingSeen
  <2> QED
    BY <1>0, <2>1, <2>2, QuietShape
<1>3. ASSUME NEW w \in Worker,
             SaveCreate(w) \/ SaveImport(w) \/ SaveUpdate(w) \/ Fail(w) \/ RecordPublish(w) \/ Unlink(w)
      PROVE  ShapeInv'
  <2>1. req' = [req EXCEPT ![w] = Idle]
    BY <1>3 DEF SaveCreate, SaveImport, SaveUpdate, Insert, Revise, Fail, RecordPublish, Unlink
  <2>2. audit' \subseteq Event
    BY <1>3, EventsSound
  <2>3. SoundRead(Idle)
    BY NothingSeen, IdleShape
  <2> QED
    BY <1>0, <2>1, <2>2, <2>3, QuietShape
<1>4. ASSUME NEW w \in Worker, NEW r, GoesOn(w, r), SoundRead(r) PROVE ShapeInv'
  BY <1>0, <1>4, QuietShape DEF GoesOn
<1>5. ASSUME NEW w \in Worker, LookForTable(w) PROVE ShapeInv'
  <2>1. PICK t \in Tier : \E r :
          /\ GoesOn(w, r)
          /\ r.seen \in {req[w].seen,
                         [req[w].seen EXCEPT ![t] = Shown(tables[t].exists, NoModel)]}
          /\ r.read \in {req[w].read, req[w].read \cup {t}}
    BY <1>0, <1>5, Looking
  <2>2. PICK r :
          /\ GoesOn(w, r)
          /\ r.seen \in {req[w].seen,
                         [req[w].seen EXCEPT ![t] = Shown(tables[t].exists, NoModel)]}
          /\ r.read \in {req[w].read, req[w].read \cup {t}}
    BY <2>1
  <2>3. SoundRead(req[w]) /\ SoundColumns(NoModel)
    BY NothingSeen DEF ShapeInv
  <2>4. SoundRead(r)
    BY <2>2, <2>3, MoreSeen
  <2> QED
    BY <1>4, <2>2, <2>4
<1>6. ASSUME NEW w \in Worker, ReflectColumns(w) PROVE ShapeInv'
  <2>1. PICK t \in Typed : \E r :
          /\ GoesOn(w, r)
          /\ r.seen = [req[w].seen EXCEPT ![t] = Shown(TRUE, tables[t].columns)]
          /\ r.read = req[w].read \cup {t}
    BY <1>0, <1>6, Reflecting
  <2>2. PICK r :
          /\ GoesOn(w, r)
          /\ r.seen = [req[w].seen EXCEPT ![t] = Shown(TRUE, tables[t].columns)]
          /\ r.read = req[w].read \cup {t}
    BY <2>1
  <2>3. SoundRead(req[w]) /\ SoundColumns(tables[t].columns) /\ t \in Tier
    BY DEF ShapeInv, SoundTable, Typed
  <2>4. SoundRead(r)
    BY <2>2, <2>3, MoreSeen
  <2> QED
    BY <1>4, <2>2, <2>4
<1>7. ASSUME NEW w \in Worker, PlanPublish(w) \/ ApplyPublish(w), ~Fail(w) PROVE ShapeInv'
  <2>1. PICK pc : /\ req' = [req EXCEPT ![w] = [@ EXCEPT !.pc = pc]]
                  /\ UNCHANGED <<entity, versions, audit, born>>
    BY <1>7 DEF PlanPublish, ApplyPublish
  <2>2. PICK r : GoesOn(w, r) /\ r.pc = pc /\ r.seen = req[w].seen /\ r.read = req[w].read
    BY <1>0, <2>1, Moving
  <2>3. SoundRead(r)
    BY <2>2 DEF ShapeInv, SoundRead
  <2> QED
    BY <1>4, <2>2, <2>3
<1>8. ASSUME NEW w \in Worker, DropTable(w) PROVE ShapeInv'
  <2>1. PICK t \in Tier : \E r :
           /\ GoesOn(w, r)
           /\ r.seen \in {req[w].seen,
                          [req[w].seen EXCEPT ![t] = Shown(tables[t].exists, NoModel)]}
           /\ r.read \in {req[w].read, req[w].read \cup {t}}
    BY <1>0, <1>8, Dropping
  <2>2. PICK r :
          /\ GoesOn(w, r)
          /\ r.seen \in {req[w].seen,
                         [req[w].seen EXCEPT ![t] = Shown(tables[t].exists, NoModel)]}
          /\ r.read \in {req[w].read, req[w].read \cup {t}}
    BY <2>1
  <2>3. SoundRead(req[w]) /\ SoundColumns(NoModel)
    BY NothingSeen DEF ShapeInv
  <2>4. SoundRead(r)
    BY <2>2, <2>3, MoreSeen
  <2> QED
    BY <1>4, <2>2, <2>4
<1> QED
  BY <1>1, <1>2, <1>3, <1>5, <1>6, <1>7, <1>8 DEF Next, Crash, DropDeadlock

(* There is no table, no event and nothing seen at first.                   *)
LEMMA ShapeInit == Init => ShapeInv
<1> SUFFICES ASSUME Init
             PROVE  ShapeInv
  OBVIOUS
<1>1. SoundRead(Idle)
  BY NothingSeen, IdleShape
<1> QED
  BY <1>1, InvInit, NothingSeen DEF Init, ShapeInv, NoTables

(* So tables and events keep their shape.                                   *)
LEMMA ShapeAlways == Spec => []ShapeInv
BY ShapeInit, ShapeStep, PTL DEF Spec

(* The columns of every tier have types of attributes, unique ones are      *)
(* columns of live, and a migration is planned from columns of tiers,       *)
(* whatever plans were stale when they were applied (ddl.py).               *)
THEOREM TypeCorrect == Spec => []TypeOK
<1>1. ASSUME ShapeInv PROVE TypeOK
  <2>1. Inv /\ versions \subseteq VersionRow
    BY <1>1 DEF ShapeInv, Inv, Numbered
  <2>2. \A t \in Tier :
          /\ tables[t].exists \in BOOLEAN
          /\ tables[t].unique \subseteq DOMAIN tables[t].columns
          /\ DOMAIN tables[t].columns \subseteq Col
          /\ \A c \in DOMAIN tables[t].columns : tables[t].columns[c] \in Column
    BY <1>1 DEF ShapeInv, SoundTable, SoundColumns
  <2>3. \A w \in Worker :
          /\ req[w].loaded \in EntityRow
          /\ req[w].payload \in Model
          /\ req[w].read \subseteq Tier
          /\ \A t \in Tier :
               /\ DOMAIN req[w].seen[t].columns \subseteq Col
               /\ \A c \in DOMAIN req[w].seen[t].columns : req[w].seen[t].columns[c] \in Column
    BY <1>1, <2>1 DEF ShapeInv, SoundRead, SoundColumns, Inv, Loaded
  <2> QED
    BY <1>1, <2>1, <2>2, <2>3 DEF TypeOK, ShapeInv, Inv
<1> QED
  BY <1>1, ShapeAlways, PTL

-----------------------------------------------------------------------------
\* A status that fits the version that is published; and a publication that a
\* request knows of has not been taken back without a new version.
Plausible(e) ==
  /\ e.published <= e.version
  /\ e.id # 0 /\ e.status # "published" => e.published < e.version

KnowsPublished(e) ==
  e.id # 0 /\ e.id = entity.id /\ e.version = entity.version /\ e.status = "published" =>
    entity.status = "published"

StatusInv ==
  /\ Inv
  /\ Plausible(entity)
  /\ \A w \in Worker : Plausible(req[w].loaded) /\ KnowsPublished(req[w].loaded)

\* What the end of a request makes of the entity: it is created, its definition
\* is changed, a publication is recorded, or it is deleted.
Created == entity'.id = born + 1 /\ entity'.status = "draft" /\ entity'.version = 1
           /\ entity'.published = 0

ChangedBy(w) ==
  LET old == req[w].loaded IN
  /\ req[w].pc \in {"update", "import"}
  /\ old.id # 0 /\ entity.id = old.id /\ old.version = entity.version
  /\ entity'.id = entity.id /\ entity'.version = entity.version + 1
  /\ entity'.published = entity.published /\ entity'.status = StatusAfterChange(old)

PublishedBy(w) ==
  LET old == req[w].loaded IN
  /\ req[w].pc = "record"
  /\ old.id # 0 /\ entity.id = old.id
  /\ entity'.id = entity.id /\ entity'.version = entity.version
  /\ entity'.status = IF old.status = "published" THEN entity.status ELSE "published"
  /\ entity'.published = IF old.published = old.version THEN entity.published ELSE old.version

(* The entity changes in these four ways only, when a request ends.         *)
LEMMA EntityStep ==
  ASSUME Inv, [Next]_vars, entity' # entity
  PROVE  \E w \in Worker : /\ req' = [req EXCEPT ![w] = Idle] /\ req[w].pc # "idle"
                           /\ Created \/ ChangedBy(w) \/ PublishedBy(w) \/ entity' = NoEntity
<1>1. PICK w \in Worker :
        SaveCreate(w) \/ SaveImport(w) \/ SaveUpdate(w) \/ RecordPublish(w) \/ Unlink(w)
  BY DEF vars, Next, BeginCreate, BeginImport, BeginUpdate, BeginPublish, BeginDelete, Begin,
         Fail, Crash, LookForTable, ReflectColumns, PlanPublish, ApplyPublish, DropTable,
         DropDeadlock
<1>2. ASSUME NEW a, Insert(w, a) PROVE Created /\ req' = [req EXCEPT ![w] = Idle]
  BY <1>2 DEF Insert, Fail, Created
<1>3. ASSUME NEW events, Revise(w, events), req[w].loaded.id # 0, req[w].pc \in {"update", "import"}
      PROVE  ChangedBy(w) /\ req' = [req EXCEPT ![w] = Idle]
  <2>1. /\ entity.id = req[w].loaded.id /\ ~VersionTaken(req[w].loaded)
        /\ entity'.id = req[w].loaded.id /\ entity'.version = req[w].loaded.version + 1
        /\ entity'.published = entity.published /\ entity'.status = StatusAfterChange(req[w].loaded)
        /\ req' = [req EXCEPT ![w] = Idle]
    BY <1>3 DEF Revise, Fail
  <2>2. req[w].loaded.version = entity.version
    BY <1>3, <2>1, OnlyTheLatest
  <2> QED
    BY <1>3, <2>1, <2>2 DEF ChangedBy
<1>4. CASE SaveUpdate(w)
  <2>1. req[w].loaded.id # 0 /\ req[w].pc = "update"
    BY <1>4 DEF SaveUpdate, Inv, Loaded
  <2> QED
    BY <1>3, <1>4, <2>1 DEF SaveUpdate
<1>5. CASE RecordPublish(w)
  <2>1. /\ req[w].pc = "record" /\ entity.id = req[w].loaded.id
        /\ entity' = [entity EXCEPT
             !.status = IF req[w].loaded.status = "published" THEN entity.status ELSE "published",
             !.published = IF req[w].loaded.published = req[w].loaded.version
                           THEN entity.published ELSE req[w].loaded.version]
        /\ req' = [req EXCEPT ![w] = Idle]
    BY <1>5 DEF RecordPublish, Fail
  <2>2. req[w].loaded.id # 0 /\ entity \in EntityRow
    BY <2>1 DEF Inv, Loaded
  <2>3. PublishedBy(w)
    BY <2>1, <2>2 DEF PublishedBy, EntityRow
  <2> QED
    BY <2>1, <2>3
<1>6. CASE Unlink(w)
  BY <1>6 DEF Unlink
<1>7. CASE SaveCreate(w) \/ SaveImport(w)
  BY <1>2, <1>3, <1>7 DEF SaveCreate, SaveImport
<1> QED
  BY <1>1, <1>4, <1>5, <1>6, <1>7

(* What a request has loaded is the entity as it was when it began.         *)
LEMMA LoadedStep ==
  ASSUME Inv, [Next]_vars, NEW v \in Worker
  PROVE  \/ req'[v].loaded \in {req[v].loaded, NoEntity}
         \/ req'[v].loaded = entity /\ entity' = entity
<1>1. CASE UNCHANGED vars
  BY <1>1 DEF vars
<1>2. ASSUME NEW w \in Worker, NEW r, req' = [req EXCEPT ![w] = r],
             \/ r.loaded \in {req[w].loaded, NoEntity}
             \/ r.loaded = entity /\ entity' = entity
      PROVE  \/ req'[v].loaded \in {req[v].loaded, NoEntity}
             \/ req'[v].loaded = entity /\ entity' = entity
  <2>1. req'[v] = IF v = w THEN r ELSE req[v]
    BY <1>2 DEF Inv
  <2> QED
    BY <1>2, <2>1
<1>3. ASSUME NEW w \in Worker,
             BeginCreate(w) \/ BeginImport(w) \/ BeginUpdate(w) \/ BeginPublish(w) \/ BeginDelete(w)
      PROVE  \/ req'[v].loaded \in {req[v].loaded, NoEntity}
             \/ req'[v].loaded = entity /\ entity' = entity
  <2>1. PICK r : /\ req' = [req EXCEPT ![w] = r] /\ r.loaded = entity
                 /\ UNCHANGED <<entity, versions, tables, audit, born>>
    BY <1>3, Beginning
  <2> QED
    BY <1>2, <2>1
<1>4. ASSUME NEW w \in Worker,
             SaveCreate(w) \/ SaveImport(w) \/ SaveUpdate(w) \/ Fail(w) \/ RecordPublish(w) \/ Unlink(w)
      PROVE  req'[v].loaded \in {req[v].loaded, NoEntity}
  <2>1. req' = [req EXCEPT ![w] = Idle]
    BY <1>4 DEF SaveCreate, SaveImport, SaveUpdate, Insert, Revise, Fail, RecordPublish, Unlink
  <2>2. req'[v] = IF v = w THEN Idle ELSE req[v]
    BY <2>1 DEF Inv
  <2> QED
    BY <2>2, IdleShape
<1>5. ASSUME NEW w \in Worker, NEW r, GoesOn(w, r)
      PROVE  req'[v].loaded \in {req[v].loaded, NoEntity}
  <2>1. req'[v] = IF v = w THEN r ELSE req[v]
    BY <1>5 DEF GoesOn, Inv
  <2> QED
    BY <1>5, <2>1 DEF GoesOn
<1>6. ASSUME NEW w \in Worker, LookForTable(w)
      PROVE  req'[v].loaded \in {req[v].loaded, NoEntity}
  <2>1. PICK r : GoesOn(w, r)
    BY <1>6, Looking
  <2> QED
    BY <1>5, <2>1
<1>7. ASSUME NEW w \in Worker, ReflectColumns(w)
      PROVE  req'[v].loaded \in {req[v].loaded, NoEntity}
  <2>1. PICK r : GoesOn(w, r)
    BY <1>7, Reflecting
  <2> QED
    BY <1>5, <2>1
<1>8. ASSUME NEW w \in Worker, DropTable(w)
      PROVE  req'[v].loaded \in {req[v].loaded, NoEntity}
  <2>1. PICK r : GoesOn(w, r)
    BY <1>8, Dropping
  <2> QED
    BY <1>5, <2>1
<1>9. ASSUME NEW w \in Worker, PlanPublish(w) \/ ApplyPublish(w), ~Fail(w)
      PROVE  req'[v].loaded \in {req[v].loaded, NoEntity}
  <2>1. PICK pc : /\ req' = [req EXCEPT ![w] = [@ EXCEPT !.pc = pc]]
                  /\ UNCHANGED <<entity, versions, audit, born>>
    BY <1>9 DEF PlanPublish, ApplyPublish
  <2>2. PICK r : GoesOn(w, r) /\ r.pc = pc /\ r.seen = req[w].seen /\ r.read = req[w].read
    BY <2>1, Moving
  <2> QED
    BY <1>5, <2>2
<1> QED
  BY <1>1, <1>3, <1>4, <1>6, <1>7, <1>8, <1>9 DEF Next, Crash, DropDeadlock

(* Statuses stay plausible, known publications stand.                       *)
LEMMA StatusStep == StatusInv /\ [Next]_vars => StatusInv'
<1> SUFFICES ASSUME StatusInv, [Next]_vars
             PROVE  StatusInv'
  OBVIOUS
<1>0. Inv /\ Inv' /\ entity \in EntityRow /\ entity' \in EntityRow /\ born \in Nat
  BY InvStep DEF StatusInv, Inv
<1>1. /\ entity.version \in Nat /\ entity.published \in Nat
      /\ entity'.version \in Nat /\ entity'.published \in Nat
      /\ \A v \in Worker :
           /\ req[v].loaded.version \in Nat /\ req[v].loaded.published \in Nat
           /\ req[v].loaded.id \in Nat /\ req[v].loaded.id <= born
           /\ req[v].loaded.id # 0 /\ req[v].loaded.id = entity.id =>
                req[v].loaded.version \in 1..entity.version
  BY <1>0 DEF Inv, Loaded, EntityRow
<1>2. Plausible(NoEntity)
  BY DEF Plausible, NoEntity
<1>3. /\ Plausible(entity')
      /\ \A v \in Worker :
           LET e == req[v].loaded IN
           e.id # 0 /\ e.id = entity'.id /\ e.version = entity'.version /\ e.status = "published"
             => entity'.status = "published"
  <2>1. CASE entity' = entity
    BY <2>1 DEF StatusInv, KnowsPublished, Plausible
  <2>2. CASE entity' # entity
    <3>1. PICK w \in Worker : Created \/ ChangedBy(w) \/ PublishedBy(w) \/ entity' = NoEntity
      BY <1>0, <2>2, EntityStep
    <3>2. CASE Created
      BY <1>0, <1>1, <3>2 DEF Created, Plausible
    <3>3. CASE ChangedBy(w)
      <4>1. entity'.published < entity'.version
        BY <1>1, <3>3 DEF ChangedBy, StatusInv, Plausible
      <4>2. \A v \in Worker : req[v].loaded.id # 0 /\ req[v].loaded.id = entity'.id =>
              req[v].loaded.version # entity'.version
        BY <1>1, <3>3 DEF ChangedBy
      <4> QED
        BY <1>1, <4>1, <4>2 DEF Plausible
    <3>4. CASE PublishedBy(w)
      <4>1. req[w].loaded.version \in 1..entity.version
        BY <1>1, <3>4 DEF PublishedBy
      <4>2. entity'.published <= entity'.version
        BY <1>1, <3>4, <4>1 DEF PublishedBy, StatusInv, Plausible
      <4>3. ASSUME entity'.status # "published" PROVE entity'.published < entity'.version
        <5>1. /\ req[w].loaded.status = "published" /\ entity.status # "published"
              /\ entity.published < entity.version
          BY <3>4, <4>3 DEF PublishedBy, StatusInv, Plausible
        <5>2. req[w].loaded.version # entity.version
          BY <3>4, <5>1 DEF PublishedBy, StatusInv, KnowsPublished
        <5> QED
          BY <1>1, <3>4, <4>1, <5>1, <5>2 DEF PublishedBy
      <4>4. entity.status = "published" => entity'.status = "published"
        BY <3>4 DEF PublishedBy
      <4>5. Plausible(entity')
        BY <4>2, <4>3 DEF Plausible
      <4> QED
        BY <3>4, <4>4, <4>5 DEF PublishedBy, StatusInv, KnowsPublished
    <3>5. CASE entity' = NoEntity
      BY <1>2, <3>5 DEF NoEntity
    <3> QED
      BY <3>1, <3>2, <3>3, <3>4, <3>5
  <2> QED
    BY <2>1, <2>2
<1>4. ASSUME NEW v \in Worker PROVE (Plausible(req[v].loaded) /\ KnowsPublished(req[v].loaded))'
  <2>1. CASE req'[v].loaded = req[v].loaded
    BY <1>3, <2>1 DEF StatusInv, Plausible, KnowsPublished
  <2>2. CASE req'[v].loaded = NoEntity
    BY <1>2, <2>2 DEF Plausible, KnowsPublished, NoEntity
  <2>3. CASE req'[v].loaded = entity /\ entity' = entity
    BY <2>3 DEF StatusInv, Plausible, KnowsPublished
  <2> QED
    BY <1>0, <2>1, <2>2, <2>3, LoadedStep
<1> QED
  BY <1>0, <1>3, <1>4 DEF StatusInv, Plausible

(* The status ceases to be honest in two ways only: a publication recorded  *)
(* at a version that is no longer the present one, and a change that does   *)
(* not know of the publication it overlaps (publish_entity, update_entity   *)
(* and apply_import, which write what they loaded).                         *)
THEOREM StatusLostOnlyThus == Spec => StatusLostOnlyByOverlap
<1> DEFINE Overlap(w) ==
      /\ req[w].pc # "idle" /\ req'[w].pc = "idle" /\ req[w].loaded.id = entity.id
      /\ \/ req[w].pc = "record" /\ req[w].loaded.version < entity.version
         \/ /\ req[w].pc \in {"update", "import"}
            /\ entity.status = "published" /\ req[w].loaded.status # "published"
<1>1. ASSUME StatusInv, [Next]_vars, StatusHonest, ~StatusHonest'
      PROVE  \E w \in Worker : Overlap(w)
  <2>0. Inv
    BY <1>1 DEF StatusInv
  <2>1. entity' # entity
    BY <1>1 DEF StatusHonest
  <2>2. PICK w \in Worker :
          /\ req' = [req EXCEPT ![w] = Idle] /\ req[w].pc # "idle"
          /\ Created \/ ChangedBy(w) \/ PublishedBy(w) \/ entity' = NoEntity
    BY <1>1, <2>0, <2>1, EntityStep
  <2>3. req'[w].pc = "idle"
    BY <2>0, <2>2, IdleShape DEF Inv
  <2>4. /\ entity.version \in Nat /\ entity.published \in Nat /\ req[w].loaded.version \in Nat
        /\ entity.status \in {"draft", "published", "modified"}
        /\ entity.id # 0 => entity.version >= 1
    BY <2>0 DEF Inv, Loaded, EntityRow
  <2>5. Plausible(req[w].loaded) /\ KnowsPublished(req[w].loaded) /\ Plausible(entity)
    BY <1>1 DEF StatusInv
  <2>6. entity'.id # 0
    BY <1>1 DEF StatusHonest
  <2>7. ~Created /\ entity' # NoEntity
    BY <1>1, <2>6 DEF Created, StatusHonest, NoEntity
  <2>8. CASE PublishedBy(w)
    <3>1. req[w].loaded.version \in 1..entity.version
      BY <2>0, <2>8 DEF PublishedBy, Inv, Loaded
    <3>2. ASSUME req[w].loaded.version = entity.version PROVE FALSE
      <4>1. req[w].loaded.status = "published" =>
              entity.status = "published" /\ entity.published = entity.version
        BY <1>1, <2>5, <2>8, <3>2 DEF PublishedBy, KnowsPublished, StatusHonest
      <4>2. req[w].loaded.status # "published" => req[w].loaded.published # req[w].loaded.version
        BY <2>4, <2>5, <2>8 DEF PublishedBy, Plausible
      <4>3. entity'.status = "published" /\ entity'.published = entity'.version
        BY <2>8, <3>2, <4>1, <4>2 DEF PublishedBy
      <4>4. entity'.version \in Nat
        BY <2>4, <2>8 DEF PublishedBy
      <4> QED
        BY <1>1, <4>3, <4>4 DEF StatusHonest
    <3> QED
      BY <2>2, <2>3, <2>4, <2>8, <3>1, <3>2 DEF PublishedBy
  <2>9. CASE ChangedBy(w)
    <3>1. /\ entity.id # 0
          /\ entity.status = "published" <=> entity.published = entity.version
          /\ entity.status = "modified" <=> entity.published \in 1..(entity.version - 1)
      BY <1>1, <2>9 DEF ChangedBy, StatusHonest
    <3>2. /\ entity'.version = entity.version + 1 /\ entity'.published = entity.published
          /\ entity'.status = IF req[w].loaded.status = "published" THEN "modified"
                                                                   ELSE entity.status
      BY <2>9 DEF ChangedBy, StatusAfterChange
    <3>3. ASSUME req[w].loaded.status = "published" \/ entity.status # "published" PROVE FALSE
      <4>1. req[w].loaded.status = "published" => entity.status = "published"
        BY <2>5, <2>9 DEF ChangedBy, KnowsPublished
      <4>2. entity'.published # entity'.version /\ entity'.status # "published"
        BY <2>4, <2>5, <3>2, <3>3 DEF Plausible
      <4>3. entity'.status = "modified" <=> entity'.published \in 1..(entity'.version - 1)
        <5>1. CASE req[w].loaded.status = "published"
          BY <2>4, <3>1, <3>2, <4>1, <5>1
        <5>2. CASE req[w].loaded.status # "published"
          BY <2>4, <2>5, <3>1, <3>2, <3>3, <5>2 DEF Plausible
        <5> QED
          BY <5>1, <5>2
      <4> QED
        BY <1>1, <4>2, <4>3 DEF StatusHonest
    <3> QED
      BY <2>2, <2>3, <2>9, <3>3 DEF ChangedBy
  <2> QED
    BY <2>2, <2>7, <2>8, <2>9
<1>2. StatusInv /\ [Next]_vars => [StatusHonest /\ ~StatusHonest' => \E w \in Worker : Overlap(w)]_vars
  BY <1>1
<1>3. Init => StatusInv
  BY InvInit, IdleShape DEF Init, StatusInv, Plausible, KnowsPublished, NoEntity
<1> QED
  BY <1>2, <1>3, StatusStep, PTL DEF Spec, StatusLostOnlyByOverlap

-----------------------------------------------------------------------------
\* A table has exactly the columns and types of a definition.
Deploys(x, model) ==
  /\ x.exists
  /\ DOMAIN x.columns = DOMAIN model
  /\ \A c \in DOMAIN model : x.columns[c].type = PgType(model[c].type)

(* A table that is created has what its definition says.                    *)
LEMMA CreatedDeploys ==
  ASSUME NEW plan, NEW t \in Typed, t \in plan.create, ~tables[t].exists
  PROVE  Deploys(Executed(plan, tables, t), plan.model)
<1>1. t # "landing"
  BY DEF Typed
<1>2. /\ Executed(plan, tables, t).exists
      /\ Executed(plan, tables, t).columns = Columns(t, plan.model)
  BY DEF Executed
<1>3. Columns(t, plan.model) =
        [c \in DOMAIN plan.model |->
           [type |-> PgType(plan.model[c].type), required |-> t = "live" /\ plan.model[c].required]]
  BY <1>1 DEF Columns
<1> QED
  BY <1>2, <1>3 DEF Deploys

(* A migration without anything destructive to do leaves out no change: a   *)
(* column not listed has the type it should have, as RoundTrip tells.       *)
LEMMA MigratedDeploys ==
  ASSUME NEW seen, NEW model \in Model, NEW t \in Typed, SoundTable(tables[t]),
         tables[t].exists, seen[t].exists, seen[t].columns = tables[t].columns,
         AlterPlan(model, seen).destructive = {}
  PROVE  Deploys(Executed(AlterPlan(model, seen), tables, t), model)
<1> DEFINE plan == AlterPlan(model, seen)
           now  == tables[t]
           new  == Executed(plan, tables, t)
           safe(s) == {c \in Changed(s, model, seen) :
                         Safe(seen[s].columns[c].type, model[c].type)}
<1>1. /\ plan.create = {s \in Tier : ~seen[s].exists}
      /\ plan.destructive =
           UNION {{<<s, c>> : c \in (Changed(s, model, seen) \ safe(s))
                                      \cup Removed(s, model, seen)} : s \in Tier}
      /\ \A s \in Tier :
           /\ plan.add[s] = [c \in Missing(s, model, seen) |-> AddedColumn(s, model[c])]
           /\ plan.alter[s] = [c \in safe(s) |-> PgType(model[c].type)]
  BY DEF AlterPlan
<1>2. t \in Tier /\ t \notin plan.create
  BY <1>1 DEF Typed
<1>3. /\ new.exists
      /\ new.columns =
           [c \in DOMAIN plan.add[t] \cup DOMAIN now.columns |->
             IF c \in DOMAIN plan.add[t] THEN plan.add[t][c]
             ELSE IF c \in DOMAIN plan.alter[t]
             THEN [now.columns[c] EXCEPT !.type = plan.alter[t][c]]
             ELSE now.columns[c]]
  BY <1>2 DEF Executed
<1>4. Changed(t, model, seen) \ safe(t) = {} /\ Removed(t, model, seen) = {}
  <2> DEFINE left(s) == (Changed(s, model, seen) \ safe(s)) \cup Removed(s, model, seen)
  <2>1. UNION {{<<s, c>> : c \in left(s)} : s \in Tier} = {}
    BY <1>1
  <2> HIDE DEF left
  <2>2. \A c \in left(t) : <<t, c>> \in UNION {{<<s, d>> : d \in left(s)} : s \in Tier}
    BY <1>2
  <2>3. left(t) = {}
    BY <2>1, <2>2
  <2> QED
    BY <2>3 DEF left
<1>5. Missing(t, model, seen) = DOMAIN model \ DOMAIN now.columns
  BY DEF Missing
<1>6. DOMAIN now.columns \subseteq DOMAIN model
  BY <1>4 DEF Removed
<1>7. /\ plan.add[t] = [c \in Missing(t, model, seen) |-> AddedColumn(t, model[c])]
      /\ plan.alter[t] = [c \in safe(t) |-> PgType(model[c].type)]
  BY <1>1, <1>2
<1>8. SoundTable(now)
  OBVIOUS
<1>9. safe(t) = {c \in DOMAIN now.columns : Retyped(now.columns[c].type, model[c].type)}
  BY <1>4, <1>6 DEF Changed
<1> HIDE DEF plan, now, new, safe
<1>10. DOMAIN new.columns = DOMAIN model
  BY <1>3, <1>5, <1>6, <1>7
<1>11. ASSUME NEW c \in DOMAIN model
       PROVE  new.columns[c].type = PgType(model[c].type)
  <2>1. CASE c \notin DOMAIN now.columns
    <3>1. new.columns[c] = AddedColumn(t, model[c])
      BY <1>3, <1>5, <1>7, <2>1
    <3> QED
      BY <3>1 DEF AddedColumn
  <2>2. CASE c \in DOMAIN now.columns /\ Retyped(now.columns[c].type, model[c].type)
    <3>1. c \in safe(t) /\ c \notin DOMAIN plan.add[t]
      BY <1>5, <1>7, <1>9, <2>2
    <3>2. plan.alter[t][c] = PgType(model[c].type) /\ c \in DOMAIN plan.alter[t]
      BY <1>7, <3>1
    <3>3. new.columns[c] = [now.columns[c] EXCEPT !.type = plan.alter[t][c]]
      BY <1>3, <2>2, <3>1, <3>2
    <3>4. now.columns[c] \in Column
      BY <1>8, <2>2 DEF SoundTable, SoundColumns
    <3> QED
      BY <3>2, <3>3, <3>4 DEF Column
  <2>3. CASE c \in DOMAIN now.columns /\ ~Retyped(now.columns[c].type, model[c].type)
    <3>1. c \notin safe(t) /\ c \notin DOMAIN plan.add[t]
      BY <1>5, <1>7, <1>9, <2>3
    <3>2. new.columns[c] = now.columns[c]
      BY <1>3, <1>7, <2>3, <3>1
    <3>3. PICK l \in LogicalType : now.columns[c].type = PgType(l)
      BY <1>8, <2>3 DEF SoundTable, SoundColumns, Rendering
    <3>4. PgType(model[c].type) = RenderPg(Catalog(PgType(l)))
      BY <2>3, <3>3 DEF Retyped
    <3> QED
      BY <3>2, <3>3, <3>4, RoundTrip
  <2> QED
    BY <2>1, <2>2, <2>3
<1>12. Deploys(new, model)
  BY <1>3, <1>10, <1>11 DEF Deploys
<1> QED
  BY <1>12 DEF new, plan

(* A publication that gets on with recording has just executed its plan.    *)
LEMMA ApplyStep ==
  ASSUME Inv, [Next]_vars, NEW w \in Worker, req[w].pc = "apply", req'[w].pc = "record"
  PROVE  tables' = [t \in Tier |-> Executed(PlanOf(req[w]), tables, t)]
<1>1. PICK v \in Worker :
        \/ BeginCreate(v) \/ BeginImport(v) \/ BeginUpdate(v) \/ BeginPublish(v) \/ BeginDelete(v)
        \/ SaveCreate(v) \/ SaveImport(v) \/ SaveUpdate(v)
        \/ LookForTable(v) \/ ReflectColumns(v)
        \/ PlanPublish(v) \/ ApplyPublish(v) \/ RecordPublish(v)
        \/ DropTable(v) \/ DropDeadlock(v) \/ Unlink(v) \/ Crash(v)
  BY DEF Next, vars
<1>2. \E r : req' = [req EXCEPT ![v] = r]
  BY <1>1 DEF BeginCreate, BeginImport, BeginUpdate, BeginPublish, BeginDelete, Begin,
              SaveCreate, SaveImport, SaveUpdate, Insert, Revise, LookForTable, ReflectColumns,
              PlanPublish, ApplyPublish, RecordPublish, DropTable, DropDeadlock, Unlink, Crash,
              Fail
<1>3. v = w
  BY <1>2 DEF Inv
<1>4. ~Fail(w)
  BY IdleShape DEF Fail, Inv
<1>5. ApplyPublish(w)
  BY <1>1, <1>3, <1>4
     DEF BeginCreate, BeginImport, BeginUpdate, BeginPublish, BeginDelete, Begin, SaveCreate,
         SaveImport, SaveUpdate, LookForTable, ReflectColumns, PlanPublish, RecordPublish,
         DropTable, DropDeadlock, Unlink, Crash
<1> QED
  BY <1>4, <1>5 DEF ApplyPublish

\* What a request read of the tables, or took for granted, still holds.
StillSo(r) ==
  \A t \in Tier :
    IF Deployed(r.loaded)
    THEN tables[t].exists = r.seen[t].exists /\ tables[t].columns = r.seen[t].columns
    ELSE ~tables[t].exists

(* So the DDL of a plan, on tables that are still what it was made of.      *)
LEMMA ApplyDeploys ==
  ASSUME ShapeInv, NEW w \in Worker, PlanOf(req[w]).destructive = {}, StillSo(req[w]),
         NEW t \in Typed
  PROVE  Deploys(Executed(PlanOf(req[w]), tables, t), req[w].loaded.model)
<1> DEFINE old  == req[w].loaded
           seen == req[w].seen
<1>1. old.model \in Model /\ t \in Tier /\ SoundTable(tables[t])
  BY DEF ShapeInv, Inv, Loaded, EntityRow, Typed
<1>2. /\ Deployed(old) => PlanOf(req[w]) = AlterPlan(old.model, seen)
      /\ ~Deployed(old) => PlanOf(req[w]) = CreatePlan(old.model)
  BY DEF PlanOf
<1>3. /\ Deployed(old) => /\ tables[t].exists = seen[t].exists
                          /\ tables[t].columns = seen[t].columns
      /\ ~Deployed(old) => ~tables[t].exists
  BY <1>1 DEF StillSo
<1> HIDE DEF old, seen
<1>4. CASE Deployed(old)
  <2>1. CASE tables[t].exists
    BY <1>1, <1>2, <1>3, <1>4, <2>1, MigratedDeploys DEF old
  <2>2. CASE ~tables[t].exists
    <3>1. /\ t \in AlterPlan(old.model, seen).create
          /\ AlterPlan(old.model, seen).model = old.model
      BY <1>1, <1>3, <1>4, <2>2 DEF AlterPlan
    <3> QED
      BY <1>2, <1>4, <2>2, <3>1, CreatedDeploys DEF old
  <2> QED
    BY <2>1, <2>2
<1>5. CASE ~Deployed(old)
  <2>1. t \in CreatePlan(old.model).create /\ CreatePlan(old.model).model = old.model
    BY <1>1 DEF CreatePlan, NoPlan
  <2> QED
    BY <1>2, <1>3, <1>5, <2>1, CreatedDeploys DEF old
<1> QED
  BY <1>4, <1>5

(* A publication with nothing destructive to do leaves tables with exactly  *)
(* the columns and types of its definition (ddl.py, build_alter_plan):      *)
(* nothing is left to migrate, whatever the definitions are, whatever came  *)
(* before, and whatever overlaps, if the tables it finds when it executes   *)
(* its plan are those it read.                                              *)
THEOREM AlwaysDeploysModel == Spec => PublishDeploysModel
<1>1. ASSUME ShapeInv, [Next]_vars, NEW w \in Worker,
             req[w].pc = "apply", req'[w].pc = "record", PlanOf(req[w]).destructive = {},
             StillSo(req[w]), NEW t \in Typed
      PROVE  /\ tables'[t].exists
             /\ TypesOf(tables'[t]) = [c \in DOMAIN req[w].loaded.model |->
                                         PgType(req[w].loaded.model[c].type)]
  <2>1. tables' = [s \in Tier |-> Executed(PlanOf(req[w]), tables, s)] /\ t \in Tier
    BY <1>1, ApplyStep DEF ShapeInv, Typed
  <2>2. Deploys(tables'[t], req[w].loaded.model)
    BY <1>1, <2>1, ApplyDeploys
  <2> QED
    BY <2>2 DEF Deploys, TypesOf
<1>2. ShapeInv /\ [Next]_vars =>
        [\A w \in Worker :
           LET r == req[w] IN
           /\ r.pc = "apply" /\ req'[w].pc = "record"
           /\ PlanOf(r).destructive = {}
           /\ StillSo(r)
           => \A t \in Typed :
                /\ tables'[t].exists
                /\ TypesOf(tables'[t]) = [c \in DOMAIN r.loaded.model |->
                                           PgType(r.loaded.model[c].type)]]_vars
  BY <1>1
<1>3. []ShapeInv /\ [][Next]_vars => PublishDeploysModel
  BY <1>2, PTL DEF PublishDeploysModel, StillSo
<1> QED
  BY <1>3, ShapeAlways, PTL DEF Spec
=============================================================================
