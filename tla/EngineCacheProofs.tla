-------------------------- MODULE EngineCacheProofs --------------------------
(***************************************************************************)
(* What becomes of the database, of the cache and of the graphs, for any   *)
(* number of extracts and of crashes.                                      *)
(*                                                                         *)
(* The three properties speak of a planner in service; each needs to know  *)
(* what a refresh has made at every stage on the way there.  ModelsDone    *)
(* follows the models that have been gone through, UpdateMade the tables   *)
(* and files of an update that logged no error.  With one fault at most,   *)
(* Coherent is what any refresh may find and leave on disk; the fault is   *)
(* paid for by FaultFree, which only holds until then: a refresh that is   *)
(* cut short had both graphs in the cache, or none and no rows.  The one   *)
(* moment at which it has neither is within rm cache/*; from a fault there *)
(* on the graphs may differ, for as long as the removal is torn.           *)
(***************************************************************************)
EXTENDS EngineCache, TLAPS

IsGraph(x) == x \in Graphs

\* An update empties the database before it goes through the models.
Placed ==
  /\ stage = "off" => deleted = 0
  /\ stage \in {"off"} \cup Resetting => turn = First
  /\ stage \in Resetting => \A i \in 1 .. deleted : \A k \in Deleted[i] : db[k] = <<>>
  /\ stage = "rm" => deleted = Len(Deleted)

\* The models gone through have the graph that is in their file.
ModelsDone ==
  ~ spoiled =>
    /\ stage \in Step /\ turn = Second => cache[First] = memory[First]
    /\ stage = "serving" => \A m \in Model : cache[m] = memory[m]

\* The graph about to be saved is the one just built.
BuiltGraph == stage \in {"truncate", "save"} => memory[turn] = Graph(db)

\* The tables filled before each step of a model, with the batch just read.
Filled(step) ==
  IF step \in {"open", "read", "nodes"} THEN {}
  ELSE IF step = "ways" THEN Committed.nodes
  ELSE IF step = "relations" THEN Committed.nodes \cup Committed.ways
  ELSE Table

Imported(tables, v) == [k \in Table |-> IF k \in tables THEN <<v>> ELSE <<>>]

\* What the model of the moment has in the cache.
Underway(step) == IF step = "save" THEN Partial ELSE Absent

\* An update that logs no error, its removal done, fills empty tables with one
\* version of the extract, and builds both graphs of it.
UpdateFirst ==
  update /\ ~ spoiled /\ ~ torn /\ stage \in Step /\ turn = First =>
    /\ db = Imported(Filled(stage), batch)
    /\ stage \notin {"open", "read"} => batch # 0
    /\ cache[First] = Underway(stage) /\ cache[Second] = Absent

UpdateSecond ==
  update /\ ~ spoiled /\ ~ torn /\ stage \in Step /\ turn = Second =>
    /\ stage \in {"open", "build", "truncate", "save"}
    /\ db = Whole(batch) /\ batch # 0
    /\ memory[First] = Graph(Whole(batch))
    /\ cache[Second] = Underway(stage)

UpdateDone ==
  update /\ ~ spoiled /\ ~ torn /\ stage = "serving" =>
    \A m \in Model : memory[m] = Graph(Whole(batch))

UpdateMade == UpdateFirst /\ UpdateSecond /\ UpdateDone

\* No table is made of two batches, and the graphs in the cache are equal.
Agreed ==
  /\ \A k \in Table : Len(db[k]) <= 1
  /\ ~ torn =>
       \A m, n \in Model : IsGraph(cache[m]) /\ IsGraph(cache[n]) => cache[m] = cache[n]

\* A model without a file would be built of the rows the others are made of.
Rebuildable ==
  stage \notin Resetting /\ (\E m \in Model : cache[m] = Absent) =>
    /\ ~ torn =>
         \A n \in Model : IsGraph(cache[n]) => db["node"] # <<>> /\ cache[n] = Graph(db)
    /\ db["node"] = <<>> => db = EmptyDB

\* Rows are only added to empty tables,
Importing ==
  stage \in {"read", "nodes", "ways", "relations"} =>
    /\ ~ torn => \A n \in Model : ~ IsGraph(cache[n])
    /\ cache[turn] = Absent
    /\ db = Imported(Filled(stage), batch)
    /\ stage # "read" => batch # 0

\* and a graph is built of the rows the other one is made of.
Building ==
  stage \in {"build", "truncate", "save"} =>
    /\ db["node"] # <<>>
    /\ cache[turn] = Underway(stage)
    /\ ~ torn => \A n \in Model : IsGraph(cache[n]) => cache[n] = Graph(db)

Coherent == Agreed /\ Rebuildable /\ Importing /\ Building

\* Before the first fault the cache has both graphs or none, and without them
\* there are no rows, but for a moment in the removal.
FaultFree ==
  /\ torn => stage = "rm"
  /\ \/ stage \in {"off", "serving", "reset"}
     \/ stage = "rm" /\ ~ torn
     \/ stage = "open" /\ turn = First
     =>
       \/ \A m \in Model : IsGraph(cache[m])
       \/ db = EmptyDB /\ \A m \in Model : cache[m] = Absent
  /\ stage \in Step \ {"open"} /\ turn = First => cache[Second] = Absent
  /\ stage \in Step /\ turn = Second => IsGraph(cache[First])
  /\ stage = "open" => cache[turn] # Partial
  /\ stage # "looping"

\* Until an irregular extract is met, none is in the tables.
RowsRegular ==
  ~ unusable =>
    /\ batch \notin Irregular
    /\ \A k \in Table : \A i \in DOMAIN db[k] : db[k][i] \notin Irregular

IInv ==
  /\ TypeOK
  /\ Placed
  /\ ModelsDone
  /\ BuiltGraph
  /\ UpdateMade
  /\ RowsRegular
  /\ faults <= 1 /\ ~ unusable => Coherent
  /\ faults = 0 /\ ~ unusable => FaultFree

-----------------------------------------------------------------------------

\* A graph is what it was built of, and is told apart from what may be in its
\* place.
LEMMA Kinds ==
  /\ \A d \in Content : Graph(d) \in Graphs
  /\ \A d, e : Graph(d) = Graph(e) <=> d = e
  /\ Absent # Partial /\ Absent \notin Graphs /\ Partial \notin Graphs
  /\ NullPtr \notin Graphs /\ Damaged \notin Graphs
  /\ NullPtr \notin {Absent, Partial} /\ Damaged \notin {Absent, Partial}
<1>1. \A d, e : Graph(d).of = d
  BY DEF Graph
<1>2. QED
  BY <1>1 DEF Graph, Graphs, Absent, Partial, NullPtr, Damaged

\* There are two models.
LEMMA Models == First # Second /\ Model = {First, Second}
BY DEF First, Second, Model

\* What a database can hold.
LEMMA Contents ==
  /\ EmptyDB \in Content
  /\ \A v \in Version : Whole(v) \in Content
  /\ \A T : \A d \in Content : [k \in Table |-> IF k \in T THEN <<>> ELSE d[k]] \in Content
  /\ \A T : \A d \in Content, v \in Version :
       [k \in Table |-> IF k \in T THEN Append(d[k], v) ELSE d[k]] \in Content
BY DEF EmptyDB, Whole, Content

\* A transaction of commit keeps the tables tables,
LEMMA InsertTyped ==
  ASSUME NEW part, Insert(part), db \in Content, batch \in 0 .. MaxVersion,
         VersionAssumption
  PROVE  db' \in Content
<1>1. CASE batch = 0
  <2>1. db' = [k \in Table |-> db[k]]
    BY <1>1 DEF Insert
  <2>2. QED
    BY <2>1 DEF Content
<1>2. CASE batch # 0
  <2>1. batch \in Version /\ \A k \in Table : db[k] \in Seq(Version)
    BY <1>2 DEF Version, Content
  <2>2. \A k \in Table : Append(db[k], batch) \in Seq(Version)
    BY <2>1
  <2>3. QED
    BY <2>1, <2>2 DEF Insert, Content
<1>3. QED
  BY <1>1, <1>2

\* and fills them with the batch it has read.
LEMMA InsertRegular ==
  ASSUME NEW part, Insert(part), db \in Content, batch \in 0 .. MaxVersion,
         RowsRegular, UNCHANGED <<batch, unusable>>
  PROVE  RowsRegular'
<1> SUFFICES ASSUME ~ unusable, NEW k \in Table, NEW i \in DOMAIN db'[k]
             PROVE  db'[k][i] \notin Irregular
  BY DEF RowsRegular
<1>1. db[k] \in Seq(Version) /\ \A j \in DOMAIN db[k] : db[k][j] \notin Irregular
  BY DEF Content, RowsRegular
<1>2. CASE db'[k] = db[k]
  BY <1>1, <1>2
<1>3. CASE db'[k] = Append(db[k], batch) /\ batch \in Version
  <2>1. i \in 1 .. Len(db[k]) + 1
    BY <1>1, <1>3
  <2>2. CASE i \in 1 .. Len(db[k])
    BY <1>1, <1>3, <2>2
  <2>3. CASE i = Len(db[k]) + 1
    BY <1>1, <1>3, <2>3 DEF RowsRegular
  <2>4. QED
    BY <1>1, <2>1, <2>2, <2>3
<1>4. QED
  BY <1>2, <1>3 DEF Insert, Version

\* The six DELETEs empty every table.
LEMMA Tables ==
  /\ Len(Deleted) = 6
  /\ \A k \in Table : \E i \in 1 .. 6 : k \in Deleted[i]
  /\ "node" \in Table
<1>1. Len(Deleted) = 6
  BY DEF Deleted
<1>2. ASSUME NEW k \in Table PROVE \E i \in 1 .. 6 : k \in Deleted[i]
  <2>1. k \in Deleted[1] \/ k \in Deleted[2] \/ k \in Deleted[3] \/ k \in Deleted[4]
        \/ k \in Deleted[5] \/ k \in Deleted[6]
    BY DEF Table, Deleted
  <2>2. QED
    BY <2>1
<1>3. QED
  BY <1>1, <1>2 DEF Table

\* An import begins with the empty database and ends with a whole one.
LEMMA Imports ==
  ASSUME NEW v
  PROVE  /\ Imported({}, v) = EmptyDB
         /\ Imported(Table, v) = Whole(v)
BY DEF Imported, EmptyDB, Whole

\* A transaction fills tables that were empty.
LEMMA InsertImported ==
  ASSUME NEW part, NEW T, Insert(part), batch # 0, db = Imported(T, batch),
         T \cap Committed[part] = {}
  PROVE  db' = Imported(T \cup Committed[part], batch)
<1>1. ASSUME NEW k \in Table, k \in T
      PROVE  db[k] = <<batch>> /\ k \notin Committed[part]
  BY <1>1 DEF Imported
<1>2. ASSUME NEW k \in Table, k \notin T
      PROVE  db[k] = <<>> /\ Append(db[k], batch) = <<batch>>
  BY <1>2 DEF Imported
<1>3. QED
  BY <1>1, <1>2 DEF Insert, Imported

\* The steps of an import fill disjoint parts.
LEMMA FilledParts ==
  /\ Filled("nodes") = {} /\ Filled("ways") = Committed["nodes"]
  /\ Filled("relations") = Committed["nodes"] \cup Committed["ways"]
  /\ Filled("build") = Committed["nodes"] \cup Committed["ways"] \cup Committed["relations"]
  /\ Filled("nodes") \cap Committed["nodes"] = {}
  /\ Filled("ways") \cap Committed["ways"] = {}
  /\ Filled("relations") \cap Committed["relations"] = {}
BY DEF Filled, Committed, Table

\* What a transaction leaves in the tables.
LEMMA CommitMade ==
  ASSUME NEW part, NEW next, CommitPart(part, next), batch # 0,
         <<part, next>> \in {<<"nodes", "ways">>, <<"ways", "relations">>,
                            <<"relations", "build">>},
         db = Imported(Filled(part), batch)
  PROVE  db' = Imported(Filled(next), batch)
<1>1. Filled(part) \cap Committed[part] = {} /\ Filled(next) = Filled(part) \cup Committed[part]
  BY FilledParts
<1>2. Insert(part)
  BY DEF CommitPart
<1>3. QED
  BY <1>1, <1>2, InsertImported


\* The invariant holds when the machine has never run a planner.
LEMMA InitInv == Init => IInv
<1> SUFFICES ASSUME Init PROVE IInv
  OBVIOUS
<1>1. DiskType
  BY VersionAssumption, Contents DEF Init, DiskType
<1>2. ProcessType
  BY VersionAssumption, Models DEF Init, ProcessType
<1>3. PlaceType
  BY Tables DEF Init, PlaceType
<1>4. FlagType
  BY Zenon DEF Init, FlagType
<1>5. Placed /\ ModelsDone /\ BuiltGraph /\ UpdateMade
  BY DEF Init, Placed, ModelsDone, BuiltGraph, UpdateMade, UpdateFirst, UpdateSecond,
    UpdateDone, Step, Resetting
<1>6. Coherent
  BY Kinds DEF Init, Coherent, Agreed, Rebuildable, Importing, Building, IsGraph, EmptyDB
<1>7. FaultFree
  BY DEF Init, FaultFree, Step
<1>8. RowsRegular
  BY VersionAssumption DEF Init, RowsRegular, EmptyDB
<1>9. QED
  BY <1>1, <1>2, <1>3, <1>4, <1>5, <1>6, <1>7, <1>8 DEF IInv, TypeOK

\* Every step preserves it.
LEMMA StepInv == ASSUME IInv, [Next]_vars PROVE IInv'
<1> USE DEF IInv, TypeOK, disk, place, flags, GoTo, Proceed, Exit, Fault, BadExtract, Resetting,
            Step
<1>0. stage = "rm" => db = EmptyDB
  BY Tables DEF Placed, DiskType, Content, EmptyDB
<1>r. faults <= 1 /\ ~ unusable => Readable
  BY DEF Coherent, Agreed, RowsRegular, Readable
<1>1. ASSUME Publish PROVE IInv'
  <2>1. DiskType'
    BY <1>1, VersionAssumption, Kinds, Models, Contents
    DEF Publish, DiskType, ProcessType, Version
  <2>2. ProcessType'
    BY <1>1, VersionAssumption, Kinds, Models, Contents DEF Publish, DiskType, ProcessType
  <2>3. PlaceType'
    BY <1>1, Tables DEF Publish, PlaceType
  <2>4. FlagType'
    BY <1>1, Zenon DEF Publish, FlagType
  <2>5. Placed'
    BY <1>1, Models, Tables DEF Publish, Placed, PlaceType, DiskType, Content
  <2>6. ModelsDone'
    BY <1>1, Models DEF Publish, ModelsDone, DiskType, ProcessType, PlaceType, Placed
  <2>7. BuiltGraph'
    BY <1>1, Models DEF Publish, BuiltGraph, DiskType, ProcessType, PlaceType, Placed
  <2>8. UpdateMade'
    BY <1>1, Kinds, Models, Imports
    DEF Publish, UpdateMade, UpdateFirst, UpdateSecond, UpdateDone, Underway,
      BuiltGraph, DiskType, ProcessType, PlaceType, Placed, Filled
  <2>9. ASSUME faults' <= 1, ~ unusable' PROVE Coherent'
    BY <1>1, <2>9, Kinds, Models, Imports
    DEF Publish, Coherent, FaultFree, Agreed, Rebuildable, Importing, Building,
      IsGraph, BuiltGraph, DiskType, ProcessType, PlaceType, Placed, Filled, Underway
  <2>10. ASSUME faults' = 0, ~ unusable' PROVE FaultFree'
    BY <1>1, <2>10, Kinds, Models
    DEF Publish, FaultFree, Coherent, IsGraph, BuiltGraph, DiskType, ProcessType,
      PlaceType, Placed
  <2>11. RowsRegular'
    BY <1>1, VersionAssumption DEF Publish, RowsRegular, DiskType, ProcessType, Content
  <2>12. QED
    BY <2>1, <2>2, <2>3, <2>4, <2>5, <2>6, <2>7, <2>8, <2>9, <2>10, <2>11
<1>2. ASSUME NEW u \in BOOLEAN, Boot(u) PROVE IInv'
  <2>1. DiskType'
    BY <1>2, VersionAssumption, Kinds, Models, Contents
    DEF Boot, DiskType, ProcessType, Version
  <2>2. ProcessType'
    BY <1>2, VersionAssumption, Kinds, Models, Contents DEF Boot, DiskType, ProcessType
  <2>3. PlaceType'
    BY <1>2, Tables DEF Boot, PlaceType, Placed
  <2>4. FlagType'
    BY <1>2, Zenon DEF Boot, FlagType
  <2>5. Placed'
    BY <1>2, Models, Tables DEF Boot, Placed, PlaceType, DiskType, Content
  <2>6. ModelsDone'
    BY <1>2, Models DEF Boot, ModelsDone, DiskType, ProcessType, PlaceType, Placed
  <2>7. BuiltGraph'
    BY <1>2, Models DEF Boot, BuiltGraph, DiskType, ProcessType, PlaceType, Placed
  <2>8. UpdateMade'
    BY <1>2, Kinds, Models, Imports
    DEF Boot, UpdateMade, UpdateFirst, UpdateSecond, UpdateDone, Underway, BuiltGraph,
      DiskType, ProcessType, PlaceType, Placed, Filled
  <2>9. ASSUME faults' <= 1, ~ unusable' PROVE Coherent'
    BY <1>2, <2>9, Kinds, Models, Imports
    DEF Boot, Coherent, FaultFree, Agreed, Rebuildable, Importing, Building, IsGraph,
      BuiltGraph, DiskType, ProcessType, PlaceType, Placed, Filled, Underway
  <2>10. ASSUME faults' = 0, ~ unusable' PROVE FaultFree'
    BY <1>2, <2>10, Kinds, Models
    DEF Boot, FaultFree, Coherent, IsGraph, BuiltGraph, DiskType, ProcessType,
      PlaceType, Placed
  <2>11. RowsRegular'
    BY <1>2, VersionAssumption DEF Boot, RowsRegular, DiskType, ProcessType, Content
  <2>12. QED
    BY <2>1, <2>2, <2>3, <2>4, <2>5, <2>6, <2>7, <2>8, <2>9, <2>10, <2>11
<1>3. ASSUME DeleteRows PROVE IInv'
  <2>1. DiskType'
    <3>1. db' \in Content
      BY <1>3, Contents DEF DeleteRows, DiskType
    <3>2. QED
      BY <1>3, <3>1 DEF DeleteRows, DiskType
  <2>2. ProcessType'
    BY <1>3, VersionAssumption, Kinds, Models, Contents
    DEF DeleteRows, DiskType, ProcessType
  <2>3. PlaceType'
    BY <1>3, Tables DEF DeleteRows, PlaceType
  <2>4. FlagType'
    BY <1>3, Zenon DEF DeleteRows, FlagType
  <2>5. Placed'
    <3>1. deleted' = deleted + 1 /\ deleted \in 0 .. 5 /\ stage' \in Resetting /\ turn' = First
      BY <1>3, Tables DEF DeleteRows, Placed, PlaceType
    <3>2. ASSUME NEW i \in 1 .. deleted', NEW k \in Deleted[i] PROVE db'[k] = <<>>
      <4>1. k \in Table
        BY <3>1, <3>2, Tables DEF Deleted, Table
      <4>2. CASE i = deleted + 1
        BY <1>3, <4>1, <4>2 DEF DeleteRows
      <4>3. CASE i \in 1 .. deleted
        BY <1>3, <4>1, <4>3 DEF DeleteRows, Placed
      <4>4. QED
        BY <3>1, <4>2, <4>3
    <3>3. QED
      BY <1>3, <3>1, <3>2, Tables DEF DeleteRows, Placed
  <2>6. ModelsDone'
    BY <1>3, Models DEF DeleteRows, ModelsDone, DiskType, ProcessType, PlaceType, Placed
  <2>7. BuiltGraph'
    BY <1>3, Models DEF DeleteRows, BuiltGraph, DiskType, ProcessType, PlaceType, Placed
  <2>8. UpdateMade'
    BY <1>3, Kinds, Models, Imports
    DEF DeleteRows, UpdateMade, UpdateFirst, UpdateSecond, UpdateDone, Underway,
      BuiltGraph, DiskType, ProcessType, PlaceType, Placed, Filled
  <2>9. ASSUME faults' <= 1, ~ unusable' PROVE Coherent'
    BY <1>3, <2>9, Kinds, Models, Imports
    DEF DeleteRows, Coherent, FaultFree, Agreed, Rebuildable, Importing, Building,
      IsGraph, BuiltGraph, DiskType, ProcessType, PlaceType, Placed, Filled, Underway
  <2>10. ASSUME faults' = 0, ~ unusable' PROVE FaultFree'
    <3>1. db = EmptyDB => db' = EmptyDB
      BY <1>3 DEF DeleteRows, EmptyDB
    <3>2. QED
      BY <1>3, <2>10, <3>1, Kinds, Models
      DEF DeleteRows, FaultFree, Coherent, IsGraph, BuiltGraph, DiskType,
        ProcessType, PlaceType, Placed
  <2>11. RowsRegular'
    BY <1>3, VersionAssumption DEF DeleteRows, RowsRegular, DiskType, ProcessType, Content
  <2>12. QED
    BY <2>1, <2>2, <2>3, <2>4, <2>5, <2>6, <2>7, <2>8, <2>9, <2>10, <2>11
<1>4. ASSUME NEW m \in Model, Unlink(m) PROVE IInv'
  <2>1. DiskType'
    BY <1>4, VersionAssumption, Kinds, Models, Contents
    DEF Unlink, DiskType, ProcessType, Version
  <2>2. ProcessType'
    BY <1>4, VersionAssumption, Kinds, Models, Contents
    DEF Unlink, DiskType, ProcessType
  <2>3. PlaceType'
    BY <1>4, Tables DEF Unlink, PlaceType
  <2>4. FlagType'
    BY <1>4, Zenon DEF Unlink, FlagType
  <2>5. Placed'
    BY <1>4, Models, Tables DEF Unlink, Placed, PlaceType, DiskType, Content
  <2>6. ModelsDone'
    BY <1>4, Models DEF Unlink, ModelsDone, DiskType, ProcessType, PlaceType, Placed
  <2>7. BuiltGraph'
    BY <1>4, Models DEF Unlink, BuiltGraph, DiskType, ProcessType, PlaceType, Placed
  <2>8. UpdateMade'
    BY <1>0, <1>4, Kinds, Models, Imports
    DEF Unlink, UpdateMade, UpdateFirst, UpdateSecond, UpdateDone, Underway,
      BuiltGraph, DiskType, ProcessType, PlaceType, Placed, Filled
  <2>9. ASSUME faults' <= 1, ~ unusable' PROVE Coherent'
    BY <1>0, <1>4, <2>9, Kinds, Models, Imports
    DEF Unlink, Coherent, FaultFree, Agreed, Rebuildable, Importing, Building,
      IsGraph, BuiltGraph, DiskType, ProcessType, PlaceType, Placed, Filled, Underway
  <2>10. ASSUME faults' = 0, ~ unusable' PROVE FaultFree'
    BY <1>0, <1>4, <2>10, Kinds, Models
    DEF Unlink, FaultFree, Coherent, IsGraph, BuiltGraph, DiskType, ProcessType,
      PlaceType, Placed
  <2>11. RowsRegular'
    BY <1>4, VersionAssumption DEF Unlink, RowsRegular, DiskType, ProcessType, Content
  <2>12. QED
    BY <2>1, <2>2, <2>3, <2>4, <2>5, <2>6, <2>7, <2>8, <2>9, <2>10, <2>11
<1>5. ASSUME Removed PROVE IInv'
  <2>1. DiskType'
    BY <1>5, VersionAssumption, Kinds, Models, Contents
    DEF Removed, DiskType, ProcessType, Version
  <2>2. ProcessType'
    BY <1>5, VersionAssumption, Kinds, Models, Contents
    DEF Removed, DiskType, ProcessType
  <2>3. PlaceType'
    BY <1>5, Tables DEF Removed, PlaceType
  <2>4. FlagType'
    BY <1>5, Zenon DEF Removed, FlagType
  <2>5. Placed'
    BY <1>5, Models, Tables DEF Removed, Placed, PlaceType, DiskType, Content
  <2>6. ModelsDone'
    BY <1>5, Models DEF Removed, ModelsDone, DiskType, ProcessType, PlaceType, Placed
  <2>7. BuiltGraph'
    BY <1>5, Models DEF Removed, BuiltGraph, DiskType, ProcessType, PlaceType, Placed
  <2>8. UpdateMade'
    BY <1>0, <1>5, Kinds, Models, Imports
    DEF Removed, UpdateMade, UpdateFirst, UpdateSecond, UpdateDone, Underway,
      BuiltGraph, DiskType, ProcessType, PlaceType, Placed, Filled
  <2>9. ASSUME faults' <= 1, ~ unusable' PROVE Coherent'
    BY <1>0, <1>5, <2>9, Kinds, Models, Imports
    DEF Removed, Coherent, FaultFree, Agreed, Rebuildable, Importing, Building,
      IsGraph, BuiltGraph, DiskType, ProcessType, PlaceType, Placed, Filled, Underway
  <2>10. ASSUME faults' = 0, ~ unusable' PROVE FaultFree'
    BY <1>0, <1>5, <2>10, Kinds, Models
    DEF Removed, FaultFree, Coherent, IsGraph, BuiltGraph, DiskType, ProcessType,
      PlaceType, Placed
  <2>11. RowsRegular'
    BY <1>5, VersionAssumption DEF Removed, RowsRegular, DiskType, ProcessType, Content
  <2>12. QED
    BY <2>1, <2>2, <2>3, <2>4, <2>5, <2>6, <2>7, <2>8, <2>9, <2>10, <2>11
<1>6. ASSUME RemoveFails PROVE IInv'
  <2>1. DiskType'
    BY <1>6, VersionAssumption, Kinds, Models, Contents
    DEF RemoveFails, DiskType, ProcessType, Version
  <2>2. ProcessType'
    BY <1>6, VersionAssumption, Kinds, Models, Contents
    DEF RemoveFails, DiskType, ProcessType
  <2>3. PlaceType'
    BY <1>6, Tables DEF RemoveFails, PlaceType
  <2>4. FlagType'
    BY <1>6, Zenon DEF RemoveFails, FlagType
  <2>5. Placed'
    BY <1>6, Models, Tables DEF RemoveFails, Placed, PlaceType, DiskType, Content
  <2>6. ModelsDone'
    BY <1>6, Models DEF RemoveFails, ModelsDone, DiskType, ProcessType, PlaceType, Placed
  <2>7. BuiltGraph'
    BY <1>6, Models DEF RemoveFails, BuiltGraph, DiskType, ProcessType, PlaceType, Placed
  <2>8. UpdateMade'
    BY <1>0, <1>6, Kinds, Models, Imports
    DEF RemoveFails, UpdateMade, UpdateFirst, UpdateSecond, UpdateDone, Underway,
      BuiltGraph, DiskType, ProcessType, PlaceType, Placed, Filled
  <2>9. ASSUME faults' <= 1, ~ unusable' PROVE Coherent'
    BY <1>0, <1>6, <2>9, Kinds, Models, Imports
    DEF RemoveFails, Coherent, FaultFree, Agreed, Rebuildable, Importing, Building,
      IsGraph, BuiltGraph, DiskType, ProcessType, PlaceType, Placed, Filled, Underway
  <2>10. ASSUME faults' = 0, ~ unusable' PROVE FaultFree'
    BY <1>0, <1>6, <2>10, Kinds, Models
    DEF RemoveFails, FaultFree, Coherent, IsGraph, BuiltGraph, DiskType, ProcessType,
      PlaceType, Placed
  <2>11. RowsRegular'
    BY <1>6, VersionAssumption DEF RemoveFails, RowsRegular, DiskType, ProcessType, Content
  <2>12. QED
    BY <2>1, <2>2, <2>3, <2>4, <2>5, <2>6, <2>7, <2>8, <2>9, <2>10, <2>11
<1>7. ASSUME Load PROVE IInv'
  <2>1. DiskType'
    BY <1>7, VersionAssumption, Kinds, Models, Contents
    DEF Load, DiskType, ProcessType, Version
  <2>2. ProcessType'
    BY <1>7, VersionAssumption, Kinds, Models, Contents DEF Load, DiskType, ProcessType
  <2>3. PlaceType'
    BY <1>7, Tables DEF Load, PlaceType
  <2>4. FlagType'
    BY <1>7, Zenon DEF Load, FlagType
  <2>5. Placed'
    BY <1>7, Models, Tables DEF Load, Placed, PlaceType, DiskType, Content
  <2>6. ModelsDone'
    BY <1>7, Models DEF Load, ModelsDone, DiskType, ProcessType, PlaceType, Placed
  <2>7. BuiltGraph'
    BY <1>7, Models DEF Load, BuiltGraph, DiskType, ProcessType, PlaceType, Placed
  <2>8. UpdateMade'
    BY <1>7, Kinds, Models, Imports
    DEF Load, UpdateMade, UpdateFirst, UpdateSecond, UpdateDone, Underway, BuiltGraph,
      DiskType, ProcessType, PlaceType, Placed, Filled
  <2>9. ASSUME faults' <= 1, ~ unusable' PROVE Coherent'
    BY <1>7, <2>9, Kinds, Models, Imports
    DEF Load, Coherent, FaultFree, Agreed, Rebuildable, Importing, Building, IsGraph,
      BuiltGraph, DiskType, ProcessType, PlaceType, Placed, Filled, Underway
  <2>10. ASSUME faults' = 0, ~ unusable' PROVE FaultFree'
    BY <1>7, <2>10, Kinds, Models
    DEF Load, FaultFree, Coherent, IsGraph, BuiltGraph, DiskType, ProcessType,
      PlaceType, Placed
  <2>11. RowsRegular'
    BY <1>7, VersionAssumption DEF Load, RowsRegular, DiskType, ProcessType, Content
  <2>12. QED
    BY <2>1, <2>2, <2>3, <2>4, <2>5, <2>6, <2>7, <2>8, <2>9, <2>10, <2>11
<1>8. ASSUME OpenDatabase PROVE IInv'
  <2>1. DiskType'
    BY <1>8, VersionAssumption, Kinds, Models, Contents
    DEF OpenDatabase, DiskType, ProcessType, Version
  <2>2. ProcessType'
    BY <1>8, VersionAssumption, Kinds, Models, Contents
    DEF OpenDatabase, DiskType, ProcessType
  <2>3. PlaceType'
    BY <1>8, Tables DEF OpenDatabase, PlaceType
  <2>4. FlagType'
    BY <1>8, Zenon DEF OpenDatabase, FlagType
  <2>5. Placed'
    BY <1>8, Models, Tables DEF OpenDatabase, Placed, PlaceType, DiskType, Content
  <2>6. ModelsDone'
    BY <1>8, Models DEF OpenDatabase, ModelsDone, DiskType, ProcessType, PlaceType, Placed
  <2>7. BuiltGraph'
    BY <1>8, Models DEF OpenDatabase, BuiltGraph, DiskType, ProcessType, PlaceType, Placed
  <2>8. UpdateMade'
    <3>1. turn' = turn /\ turn \in Model /\ db' = db /\ batch' = batch /\ cache' = cache
          /\ update' = update /\ spoiled' = spoiled /\ torn' = torn
      BY <1>8 DEF OpenDatabase, ProcessType
    <3>2. UpdateFirst'
      <4>1. update /\ ~ spoiled /\ ~ torn /\ turn = First =>
              /\ db = Imported({}, batch) /\ cache[First] = Absent /\ cache[Second] = Absent
        BY <1>8 DEF OpenDatabase, UpdateMade, UpdateFirst, Filled, Underway
      <4>2. Imported({}, batch)["node"] = <<>>
        BY Tables DEF Imported
      <4>3. update /\ ~ spoiled /\ ~ torn /\ turn = First => stage' = "read"
        BY <1>8, <4>1, <4>2 DEF OpenDatabase
      <4>4. QED
        BY <3>1, <4>1, <4>3 DEF UpdateFirst, Filled, Underway
    <3>3. UpdateSecond'
      <4>1. Whole(batch)["node"] # <<>>
        BY Tables DEF Whole
      <4>2. QED
        BY <1>8, <3>1, <4>1, Models
        DEF OpenDatabase, UpdateMade, UpdateSecond, Underway, ProcessType
    <3>4. UpdateDone'
      BY <1>8 DEF OpenDatabase, UpdateDone
    <3>5. QED
      BY <3>2, <3>3, <3>4 DEF UpdateMade
  <2>9. ASSUME faults' <= 1, ~ unusable' PROVE Coherent'
    BY <1>8, <2>9, Kinds, Models, Imports
    DEF OpenDatabase, Coherent, FaultFree, Agreed, Rebuildable, Importing, Building,
      IsGraph, BuiltGraph, DiskType, ProcessType, PlaceType, Placed, Filled, Underway
  <2>10. ASSUME faults' = 0, ~ unusable' PROVE FaultFree'
    BY <1>8, <2>10, Kinds, Models
    DEF OpenDatabase, FaultFree, Coherent, IsGraph, BuiltGraph, DiskType, ProcessType,
      PlaceType, Placed
  <2>11. RowsRegular'
    BY <1>8, VersionAssumption DEF OpenDatabase, RowsRegular, DiskType, ProcessType, Content
  <2>12. QED
    BY <2>1, <2>2, <2>3, <2>4, <2>5, <2>6, <2>7, <2>8, <2>9, <2>10, <2>11
<1>9. ASSUME ReadExtract PROVE IInv'
  <2>1. DiskType'
    BY <1>9, VersionAssumption, Kinds, Models, Contents
    DEF ReadExtract, DiskType, ProcessType, Version
  <2>2. ProcessType'
    BY <1>9, VersionAssumption, Kinds, Models, Contents
    DEF ReadExtract, DiskType, ProcessType
  <2>3. PlaceType'
    BY <1>9, Tables DEF ReadExtract, PlaceType
  <2>4. FlagType'
    BY <1>9, Zenon DEF ReadExtract, FlagType
  <2>5. Placed'
    BY <1>9, Models, Tables DEF ReadExtract, Placed, PlaceType, DiskType, Content
  <2>6. ModelsDone'
    BY <1>9, Models DEF ReadExtract, ModelsDone, DiskType, ProcessType, PlaceType, Placed
  <2>7. BuiltGraph'
    BY <1>9, Models DEF ReadExtract, BuiltGraph, DiskType, ProcessType, PlaceType, Placed
  <2>8. UpdateMade'
    BY <1>9, Kinds, Models, Imports
    DEF ReadExtract, UpdateMade, UpdateFirst, UpdateSecond, UpdateDone, Underway,
      BuiltGraph, DiskType, ProcessType, PlaceType, Placed, Filled
  <2>9. ASSUME faults' <= 1, ~ unusable' PROVE Coherent'
    BY <1>9, <2>9, Kinds, Models, Imports
    DEF ReadExtract, Coherent, FaultFree, Agreed, Rebuildable, Importing, Building,
      IsGraph, BuiltGraph, DiskType, ProcessType, PlaceType, Placed, Filled, Underway
  <2>10. ASSUME faults' = 0, ~ unusable' PROVE FaultFree'
    BY <1>9, <2>10, Kinds, Models
    DEF ReadExtract, FaultFree, Coherent, IsGraph, BuiltGraph, DiskType, ProcessType,
      PlaceType, Placed
  <2>11. RowsRegular'
    BY <1>9, VersionAssumption DEF ReadExtract, RowsRegular, DiskType, ProcessType, Content
  <2>12. QED
    BY <2>1, <2>2, <2>3, <2>4, <2>5, <2>6, <2>7, <2>8, <2>9, <2>10, <2>11
<1>10. ASSUME CommitPart("nodes", "ways") PROVE IInv'
  <2>1. DiskType'
    BY <1>10, VersionAssumption, InsertTyped DEF CommitPart, DiskType, ProcessType
  <2>2. ProcessType'
    BY <1>10, VersionAssumption, Kinds, Models, Contents
    DEF CommitPart, Insert, Committed, DiskType, ProcessType
  <2>3. PlaceType'
    BY <1>10, Tables DEF CommitPart, Insert, Committed, PlaceType
  <2>4. FlagType'
    BY <1>10, Zenon DEF CommitPart, Insert, Committed, FlagType
  <2>5. Placed'
    BY <1>10, Models, Tables
    DEF CommitPart, Insert, Committed, Placed, PlaceType, DiskType, Content
  <2>6. ModelsDone'
    BY <1>10, Models
    DEF CommitPart, Insert, Committed, ModelsDone, DiskType, ProcessType, PlaceType,
      Placed
  <2>7. BuiltGraph'
    BY <1>10, Models
    DEF CommitPart, Insert, Committed, BuiltGraph, DiskType, ProcessType, PlaceType,
      Placed
  <2>8. UpdateMade'
    BY <1>10, Kinds, Models, Imports, CommitMade
    DEF CommitPart, UpdateMade, UpdateFirst, UpdateSecond, UpdateDone, Underway,
      BuiltGraph, DiskType, ProcessType, PlaceType, Placed, Filled
  <2>9. ASSUME faults' <= 1, ~ unusable' PROVE Coherent'
    <3>1. batch # 0 /\ db = Imported(Filled(stage), batch) /\ Coherent
      BY <1>10, <2>9 DEF CommitPart, Coherent, Importing
    <3>2. db' = Imported(Filled(stage'), batch)
      BY <1>10, <3>1, CommitMade DEF CommitPart
    <3>3. cache' = cache /\ turn' = turn /\ batch' = batch /\ torn' = torn /\ turn \in Model
      BY <1>10 DEF CommitPart, ProcessType
    <3>4. cache[turn] = Absent /\ (~ torn => \A n \in Model : ~ IsGraph(cache[n]))
      BY <1>10, <3>1 DEF CommitPart, Coherent, Importing
    <3>5. \A k \in Table : Len(db'[k]) <= 1
      BY <3>2 DEF Imported
    <3>6. db'["node"] # <<>>
      BY <1>10, <3>2, Tables DEF CommitPart, Imported, Filled, Committed
    <3>7. QED
      BY <1>10, <3>1, <3>2, <3>3, <3>4, <3>5, <3>6
      DEF CommitPart, Coherent, Agreed, Rebuildable, Importing, Building, Underway
  <2>10. ASSUME faults' = 0, ~ unusable' PROVE FaultFree'
    BY <1>10, <2>10, Kinds, Models
    DEF CommitPart, Insert, Committed, FaultFree, Coherent, IsGraph, BuiltGraph,
      DiskType, ProcessType, PlaceType, Placed
  <2>11. RowsRegular'
    BY <1>10, InsertRegular DEF CommitPart, DiskType, ProcessType
  <2>12. QED
    BY <2>1, <2>2, <2>3, <2>4, <2>5, <2>6, <2>7, <2>8, <2>9, <2>10, <2>11
<1>11. ASSUME CommitPart("ways", "relations") PROVE IInv'
  <2>1. DiskType'
    BY <1>11, VersionAssumption, InsertTyped DEF CommitPart, DiskType, ProcessType
  <2>2. ProcessType'
    BY <1>11, VersionAssumption, Kinds, Models, Contents
    DEF CommitPart, Insert, Committed, DiskType, ProcessType
  <2>3. PlaceType'
    BY <1>11, Tables DEF CommitPart, Insert, Committed, PlaceType
  <2>4. FlagType'
    BY <1>11, Zenon DEF CommitPart, Insert, Committed, FlagType
  <2>5. Placed'
    BY <1>11, Models, Tables
    DEF CommitPart, Insert, Committed, Placed, PlaceType, DiskType, Content
  <2>6. ModelsDone'
    BY <1>11, Models
    DEF CommitPart, Insert, Committed, ModelsDone, DiskType, ProcessType, PlaceType,
      Placed
  <2>7. BuiltGraph'
    BY <1>11, Models
    DEF CommitPart, Insert, Committed, BuiltGraph, DiskType, ProcessType, PlaceType,
      Placed
  <2>8. UpdateMade'
    BY <1>11, Kinds, Models, Imports, CommitMade
    DEF CommitPart, UpdateMade, UpdateFirst, UpdateSecond, UpdateDone, Underway,
      BuiltGraph, DiskType, ProcessType, PlaceType, Placed, Filled
  <2>9. ASSUME faults' <= 1, ~ unusable' PROVE Coherent'
    <3>1. batch # 0 /\ db = Imported(Filled(stage), batch) /\ Coherent
      BY <1>11, <2>9 DEF CommitPart, Coherent, Importing
    <3>2. db' = Imported(Filled(stage'), batch)
      BY <1>11, <3>1, CommitMade DEF CommitPart
    <3>3. cache' = cache /\ turn' = turn /\ batch' = batch /\ torn' = torn /\ turn \in Model
      BY <1>11 DEF CommitPart, ProcessType
    <3>4. cache[turn] = Absent /\ (~ torn => \A n \in Model : ~ IsGraph(cache[n]))
      BY <1>11, <3>1 DEF CommitPart, Coherent, Importing
    <3>5. \A k \in Table : Len(db'[k]) <= 1
      BY <3>2 DEF Imported
    <3>6. db'["node"] # <<>>
      BY <1>11, <3>2, Tables DEF CommitPart, Imported, Filled, Committed
    <3>7. QED
      BY <1>11, <3>1, <3>2, <3>3, <3>4, <3>5, <3>6
      DEF CommitPart, Coherent, Agreed, Rebuildable, Importing, Building, Underway
  <2>10. ASSUME faults' = 0, ~ unusable' PROVE FaultFree'
    BY <1>11, <2>10, Kinds, Models
    DEF CommitPart, Insert, Committed, FaultFree, Coherent, IsGraph, BuiltGraph,
      DiskType, ProcessType, PlaceType, Placed
  <2>11. RowsRegular'
    BY <1>11, InsertRegular DEF CommitPart, DiskType, ProcessType
  <2>12. QED
    BY <2>1, <2>2, <2>3, <2>4, <2>5, <2>6, <2>7, <2>8, <2>9, <2>10, <2>11
<1>12. ASSUME CommitPart("relations", "build") PROVE IInv'
  <2>1. DiskType'
    BY <1>12, VersionAssumption, InsertTyped DEF CommitPart, DiskType, ProcessType
  <2>2. ProcessType'
    BY <1>12, VersionAssumption, Kinds, Models, Contents
    DEF CommitPart, Insert, Committed, DiskType, ProcessType
  <2>3. PlaceType'
    BY <1>12, Tables DEF CommitPart, Insert, Committed, PlaceType
  <2>4. FlagType'
    BY <1>12, Zenon DEF CommitPart, Insert, Committed, FlagType
  <2>5. Placed'
    BY <1>12, Models, Tables
    DEF CommitPart, Insert, Committed, Placed, PlaceType, DiskType, Content
  <2>6. ModelsDone'
    BY <1>12, Models
    DEF CommitPart, Insert, Committed, ModelsDone, DiskType, ProcessType, PlaceType,
      Placed
  <2>7. BuiltGraph'
    BY <1>12, Models
    DEF CommitPart, Insert, Committed, BuiltGraph, DiskType, ProcessType, PlaceType,
      Placed
  <2>8. UpdateMade'
    BY <1>12, Kinds, Models, Imports, CommitMade
    DEF CommitPart, UpdateMade, UpdateFirst, UpdateSecond, UpdateDone, Underway,
      BuiltGraph, DiskType, ProcessType, PlaceType, Placed, Filled
  <2>9. ASSUME faults' <= 1, ~ unusable' PROVE Coherent'
    <3>1. batch # 0 /\ db = Imported(Filled(stage), batch) /\ Coherent
      BY <1>12, <2>9 DEF CommitPart, Coherent, Importing
    <3>2. db' = Imported(Filled(stage'), batch)
      BY <1>12, <3>1, CommitMade DEF CommitPart
    <3>3. cache' = cache /\ turn' = turn /\ batch' = batch /\ torn' = torn /\ turn \in Model
      BY <1>12 DEF CommitPart, ProcessType
    <3>4. cache[turn] = Absent /\ (~ torn => \A n \in Model : ~ IsGraph(cache[n]))
      BY <1>12, <3>1 DEF CommitPart, Coherent, Importing
    <3>5. \A k \in Table : Len(db'[k]) <= 1
      BY <3>2 DEF Imported
    <3>6. db'["node"] # <<>>
      BY <1>12, <3>2, Tables DEF CommitPart, Imported, Filled, Committed
    <3>7. QED
      BY <1>12, <3>1, <3>2, <3>3, <3>4, <3>5, <3>6
      DEF CommitPart, Coherent, Agreed, Rebuildable, Importing, Building, Underway
  <2>10. ASSUME faults' = 0, ~ unusable' PROVE FaultFree'
    BY <1>12, <2>10, Kinds, Models
    DEF CommitPart, Insert, Committed, FaultFree, Coherent, IsGraph, BuiltGraph,
      DiskType, ProcessType, PlaceType, Placed
  <2>11. RowsRegular'
    BY <1>12, InsertRegular DEF CommitPart, DiskType, ProcessType
  <2>12. QED
    BY <2>1, <2>2, <2>3, <2>4, <2>5, <2>6, <2>7, <2>8, <2>9, <2>10, <2>11
<1>13. ASSUME RollbackNodes PROVE IInv'
  <2>1. DiskType'
    BY <1>13, VersionAssumption, Kinds, Models, Contents
    DEF RollbackNodes, DiskType, ProcessType, Version
  <2>2. ProcessType'
    BY <1>13, VersionAssumption, Kinds, Models, Contents
    DEF RollbackNodes, DiskType, ProcessType
  <2>3. PlaceType'
    BY <1>13, Tables DEF RollbackNodes, PlaceType
  <2>4. FlagType'
    BY <1>13, Zenon DEF RollbackNodes, FlagType
  <2>5. Placed'
    BY <1>13, Models, Tables DEF RollbackNodes, Placed, PlaceType, DiskType, Content
  <2>6. ModelsDone'
    BY <1>13, Models DEF RollbackNodes, ModelsDone, DiskType, ProcessType, PlaceType, Placed
  <2>7. BuiltGraph'
    BY <1>13, Models DEF RollbackNodes, BuiltGraph, DiskType, ProcessType, PlaceType, Placed
  <2>8. UpdateMade'
    BY <1>13, Kinds, Models, Imports
    DEF RollbackNodes, UpdateMade, UpdateFirst, UpdateSecond, UpdateDone, Underway,
      BuiltGraph, DiskType, ProcessType, PlaceType, Placed, Filled
  <2>9. ASSUME faults' <= 1, ~ unusable' PROVE Coherent'
    BY <1>13, <2>9, Kinds, Models, Imports
    DEF RollbackNodes, Coherent, FaultFree, Agreed, Rebuildable, Importing, Building,
      IsGraph, BuiltGraph, DiskType, ProcessType, PlaceType, Placed, Filled, Underway
  <2>10. ASSUME faults' = 0, ~ unusable' PROVE FaultFree'
    BY <1>13, <2>10, Kinds, Models
    DEF RollbackNodes, FaultFree, Coherent, IsGraph, BuiltGraph, DiskType,
      ProcessType, PlaceType, Placed
  <2>11. RowsRegular'
    BY <1>13, VersionAssumption DEF RollbackNodes, RowsRegular, DiskType, ProcessType, Content
  <2>12. QED
    BY <2>1, <2>2, <2>3, <2>4, <2>5, <2>6, <2>7, <2>8, <2>9, <2>10, <2>11
<1>14. ASSUME BuildGraph PROVE IInv'
  <2>1. DiskType'
    BY <1>14, VersionAssumption, Kinds, Models, Contents
    DEF BuildGraph, DiskType, ProcessType, Version
  <2>2. ProcessType'
    BY <1>14, VersionAssumption, Kinds, Models, Contents
    DEF BuildGraph, DiskType, ProcessType
  <2>3. PlaceType'
    BY <1>14, Tables DEF BuildGraph, PlaceType
  <2>4. FlagType'
    BY <1>14, Zenon DEF BuildGraph, FlagType
  <2>5. Placed'
    BY <1>14, Models, Tables DEF BuildGraph, Placed, PlaceType, DiskType, Content
  <2>6. ModelsDone'
    BY <1>14, Models DEF BuildGraph, ModelsDone, DiskType, ProcessType, PlaceType, Placed
  <2>7. BuiltGraph'
    BY <1>14, Models DEF BuildGraph, BuiltGraph, DiskType, ProcessType, PlaceType, Placed
  <2>8. UpdateMade'
    BY <1>14, Kinds, Models, Imports
    DEF BuildGraph, UpdateMade, UpdateFirst, UpdateSecond, UpdateDone, Underway,
      BuiltGraph, DiskType, ProcessType, PlaceType, Placed, Filled
  <2>9. ASSUME faults' <= 1, ~ unusable' PROVE Coherent'
    BY <1>14, <2>9, Kinds, Models, Imports
    DEF BuildGraph, Coherent, FaultFree, Agreed, Rebuildable, Importing, Building,
      IsGraph, BuiltGraph, DiskType, ProcessType, PlaceType, Placed, Filled, Underway
  <2>10. ASSUME faults' = 0, ~ unusable' PROVE FaultFree'
    BY <1>14, <2>10, Kinds, Models
    DEF BuildGraph, FaultFree, Coherent, IsGraph, BuiltGraph, DiskType, ProcessType,
      PlaceType, Placed
  <2>11. RowsRegular'
    BY <1>14, VersionAssumption DEF BuildGraph, RowsRegular, DiskType, ProcessType, Content
  <2>12. QED
    BY <2>1, <2>2, <2>3, <2>4, <2>5, <2>6, <2>7, <2>8, <2>9, <2>10, <2>11
<1>15. ASSUME RetrieveThrows PROVE IInv'
  <2>1. DiskType'
    BY <1>15, VersionAssumption, Kinds, Models, Contents
    DEF RetrieveThrows, DiskType, ProcessType, Version
  <2>2. ProcessType'
    BY <1>15, VersionAssumption, Kinds, Models, Contents
    DEF RetrieveThrows, DiskType, ProcessType
  <2>3. PlaceType'
    BY <1>15, Tables DEF RetrieveThrows, PlaceType
  <2>4. FlagType'
    BY <1>15, Zenon DEF RetrieveThrows, FlagType
  <2>5. Placed'
    BY <1>15, Models, Tables DEF RetrieveThrows, Placed, PlaceType, DiskType, Content
  <2>6. ModelsDone'
    BY <1>15, Models DEF RetrieveThrows, ModelsDone, DiskType, ProcessType, PlaceType, Placed
  <2>7. BuiltGraph'
    BY <1>15, Models DEF RetrieveThrows, BuiltGraph, DiskType, ProcessType, PlaceType, Placed
  <2>8. UpdateMade'
    BY <1>r, <1>15, Kinds, Models, Imports
    DEF RetrieveThrows, UpdateMade, UpdateFirst, UpdateSecond, UpdateDone, Underway,
      BuiltGraph, DiskType, ProcessType, PlaceType, Placed, Filled
  <2>9. ASSUME faults' <= 1, ~ unusable' PROVE Coherent'
    BY <1>r, <1>15, <2>9, Kinds, Models, Imports
    DEF RetrieveThrows, Coherent, FaultFree, Agreed, Rebuildable, Importing, Building,
      IsGraph, BuiltGraph, DiskType, ProcessType, PlaceType, Placed, Filled, Underway
  <2>10. ASSUME faults' = 0, ~ unusable' PROVE FaultFree'
    BY <1>r, <1>15, <2>10, Kinds, Models
    DEF RetrieveThrows, FaultFree, Coherent, IsGraph, BuiltGraph, DiskType, ProcessType,
      PlaceType, Placed
  <2>11. RowsRegular'
    BY <1>15, VersionAssumption DEF RetrieveThrows, RowsRegular, DiskType, ProcessType, Content
  <2>12. QED
    BY <2>1, <2>2, <2>3, <2>4, <2>5, <2>6, <2>7, <2>8, <2>9, <2>10, <2>11
<1>16. ASSUME RetrieveLoops PROVE IInv'
  <2>1. DiskType'
    BY <1>16, VersionAssumption, Kinds, Models, Contents
    DEF RetrieveLoops, DiskType, ProcessType, Version
  <2>2. ProcessType'
    BY <1>16, VersionAssumption, Kinds, Models, Contents
    DEF RetrieveLoops, DiskType, ProcessType
  <2>3. PlaceType'
    BY <1>16, Tables DEF RetrieveLoops, PlaceType
  <2>4. FlagType'
    BY <1>16, Zenon DEF RetrieveLoops, FlagType
  <2>5. Placed'
    BY <1>16, Models, Tables DEF RetrieveLoops, Placed, PlaceType, DiskType, Content
  <2>6. ModelsDone'
    BY <1>16, Models DEF RetrieveLoops, ModelsDone, DiskType, ProcessType, PlaceType, Placed
  <2>7. BuiltGraph'
    BY <1>16, Models DEF RetrieveLoops, BuiltGraph, DiskType, ProcessType, PlaceType, Placed
  <2>8. UpdateMade'
    BY <1>r, <1>16, Kinds, Models, Imports
    DEF RetrieveLoops, UpdateMade, UpdateFirst, UpdateSecond, UpdateDone, Underway,
      BuiltGraph, DiskType, ProcessType, PlaceType, Placed, Filled
  <2>9. ASSUME faults' <= 1, ~ unusable' PROVE Coherent'
    BY <1>r, <1>16, <2>9, Kinds, Models, Imports
    DEF RetrieveLoops, Coherent, FaultFree, Agreed, Rebuildable, Importing, Building,
      IsGraph, BuiltGraph, DiskType, ProcessType, PlaceType, Placed, Filled, Underway
  <2>10. ASSUME faults' = 0, ~ unusable' PROVE FaultFree'
    BY <1>r, <1>16, <2>10, Kinds, Models
    DEF RetrieveLoops, FaultFree, Coherent, IsGraph, BuiltGraph, DiskType, ProcessType,
      PlaceType, Placed
  <2>11. RowsRegular'
    BY <1>16, VersionAssumption DEF RetrieveLoops, RowsRegular, DiskType, ProcessType, Content
  <2>12. QED
    BY <2>1, <2>2, <2>3, <2>4, <2>5, <2>6, <2>7, <2>8, <2>9, <2>10, <2>11
<1>17. ASSUME Truncate PROVE IInv'
  <2>1. DiskType'
    BY <1>17, VersionAssumption, Kinds, Models, Contents
    DEF Truncate, DiskType, ProcessType, Version
  <2>2. ProcessType'
    BY <1>17, VersionAssumption, Kinds, Models, Contents DEF Truncate, DiskType, ProcessType
  <2>3. PlaceType'
    BY <1>17, Tables DEF Truncate, PlaceType
  <2>4. FlagType'
    BY <1>17, Zenon DEF Truncate, FlagType
  <2>5. Placed'
    BY <1>17, Models, Tables DEF Truncate, Placed, PlaceType, DiskType, Content
  <2>6. ModelsDone'
    BY <1>17, Models DEF Truncate, ModelsDone, DiskType, ProcessType, PlaceType, Placed
  <2>7. BuiltGraph'
    BY <1>17, Models DEF Truncate, BuiltGraph, DiskType, ProcessType, PlaceType, Placed
  <2>8. UpdateMade'
    BY <1>17, Kinds, Models, Imports
    DEF Truncate, UpdateMade, UpdateFirst, UpdateSecond, UpdateDone, Underway,
      BuiltGraph, DiskType, ProcessType, PlaceType, Placed, Filled
  <2>9. ASSUME faults' <= 1, ~ unusable' PROVE Coherent'
    BY <1>17, <2>9, Kinds, Models, Imports
    DEF Truncate, Coherent, FaultFree, Agreed, Rebuildable, Importing, Building,
      IsGraph, BuiltGraph, DiskType, ProcessType, PlaceType, Placed, Filled, Underway
  <2>10. ASSUME faults' = 0, ~ unusable' PROVE FaultFree'
    BY <1>17, <2>10, Kinds, Models
    DEF Truncate, FaultFree, Coherent, IsGraph, BuiltGraph, DiskType, ProcessType,
      PlaceType, Placed
  <2>11. RowsRegular'
    BY <1>17, VersionAssumption DEF Truncate, RowsRegular, DiskType, ProcessType, Content
  <2>12. QED
    BY <2>1, <2>2, <2>3, <2>4, <2>5, <2>6, <2>7, <2>8, <2>9, <2>10, <2>11
<1>18. ASSUME Save PROVE IInv'
  <2>1. DiskType'
    BY <1>18, Kinds DEF Save, BuiltGraph, DiskType
  <2>2. ProcessType'
    BY <1>18, VersionAssumption, Kinds, Models, Contents DEF Save, DiskType, ProcessType
  <2>3. PlaceType'
    BY <1>18, Tables DEF Save, PlaceType
  <2>4. FlagType'
    BY <1>18, Zenon DEF Save, FlagType
  <2>5. Placed'
    BY <1>18, Models, Tables DEF Save, Placed, PlaceType, DiskType, Content
  <2>6. ModelsDone'
    BY <1>18, Models DEF Save, ModelsDone, DiskType, ProcessType, PlaceType, Placed
  <2>7. BuiltGraph'
    BY <1>18, Models DEF Save, BuiltGraph, DiskType, ProcessType, PlaceType, Placed
  <2>8. UpdateMade'
    BY <1>18, Kinds, Models, Imports
    DEF Save, UpdateMade, UpdateFirst, UpdateSecond, UpdateDone, Underway, BuiltGraph,
      DiskType, ProcessType, PlaceType, Placed, Filled
  <2>9. ASSUME faults' <= 1, ~ unusable' PROVE Coherent'
    BY <1>18, <2>9, Kinds, Models, Imports
    DEF Save, Coherent, FaultFree, Agreed, Rebuildable, Importing, Building, IsGraph,
      BuiltGraph, DiskType, ProcessType, PlaceType, Placed, Filled, Underway
  <2>10. ASSUME faults' = 0, ~ unusable' PROVE FaultFree'
    BY <1>18, <2>10, Kinds, Models
    DEF Save, FaultFree, Coherent, IsGraph, BuiltGraph, DiskType, ProcessType,
      PlaceType, Placed
  <2>11. RowsRegular'
    BY <1>18, VersionAssumption DEF Save, RowsRegular, DiskType, ProcessType, Content
  <2>12. QED
    BY <2>1, <2>2, <2>3, <2>4, <2>5, <2>6, <2>7, <2>8, <2>9, <2>10, <2>11
<1>19. ASSUME CannotReset PROVE IInv'
  <2>1. DiskType'
    BY <1>19, VersionAssumption, Kinds, Models, Contents
    DEF CannotReset, DiskType, ProcessType, Version
  <2>2. ProcessType'
    BY <1>19, VersionAssumption, Kinds, Models, Contents
    DEF CannotReset, DiskType, ProcessType
  <2>3. PlaceType'
    BY <1>19, Tables DEF CannotReset, PlaceType
  <2>4. FlagType'
    BY <1>19, Zenon DEF CannotReset, FlagType
  <2>5. Placed'
    BY <1>19, Models, Tables DEF CannotReset, Placed, PlaceType, DiskType, Content
  <2>6. ModelsDone'
    BY <1>19, Models DEF CannotReset, ModelsDone, DiskType, ProcessType, PlaceType, Placed
  <2>7. BuiltGraph'
    BY <1>19, Models DEF CannotReset, BuiltGraph, DiskType, ProcessType, PlaceType, Placed
  <2>8. UpdateMade'
    BY <1>19, Kinds, Models, Imports
    DEF CannotReset, UpdateMade, UpdateFirst, UpdateSecond, UpdateDone, Underway,
      BuiltGraph, DiskType, ProcessType, PlaceType, Placed, Filled
  <2>9. ASSUME faults' <= 1, ~ unusable' PROVE Coherent'
    BY <1>19, <2>9, Kinds, Models, Imports
    DEF CannotReset, Coherent, FaultFree, Agreed, Rebuildable, Importing, Building,
      IsGraph, BuiltGraph, DiskType, ProcessType, PlaceType, Placed, Filled, Underway
  <2>10. ASSUME faults' = 0, ~ unusable' PROVE FaultFree'
    BY <1>19, <2>10, Kinds, Models
    DEF CannotReset, FaultFree, Coherent, IsGraph, BuiltGraph, DiskType, ProcessType,
      PlaceType, Placed
  <2>11. RowsRegular'
    BY <1>19, VersionAssumption DEF CannotReset, RowsRegular, DiskType, ProcessType, Content
  <2>12. QED
    BY <2>1, <2>2, <2>3, <2>4, <2>5, <2>6, <2>7, <2>8, <2>9, <2>10, <2>11
<1>20. ASSUME CannotOpen PROVE IInv'
  <2>1. DiskType'
    BY <1>20, VersionAssumption, Kinds, Models, Contents
    DEF CannotOpen, DiskType, ProcessType, Version
  <2>2. ProcessType'
    BY <1>20, VersionAssumption, Kinds, Models, Contents
    DEF CannotOpen, DiskType, ProcessType
  <2>3. PlaceType'
    BY <1>20, Tables DEF CannotOpen, PlaceType
  <2>4. FlagType'
    BY <1>20, Zenon DEF CannotOpen, FlagType
  <2>5. Placed'
    BY <1>20, Models, Tables DEF CannotOpen, Placed, PlaceType, DiskType, Content
  <2>6. ModelsDone'
    BY <1>20, Models DEF CannotOpen, ModelsDone, DiskType, ProcessType, PlaceType, Placed
  <2>7. BuiltGraph'
    BY <1>20, Models DEF CannotOpen, BuiltGraph, DiskType, ProcessType, PlaceType, Placed
  <2>8. UpdateMade'
    BY <1>20, Kinds, Models, Imports
    DEF CannotOpen, UpdateMade, UpdateFirst, UpdateSecond, UpdateDone, Underway,
      BuiltGraph, DiskType, ProcessType, PlaceType, Placed, Filled
  <2>9. ASSUME faults' <= 1, ~ unusable' PROVE Coherent'
    BY <1>20, <2>9, Kinds, Models, Imports
    DEF CannotOpen, Coherent, FaultFree, Agreed, Rebuildable, Importing, Building,
      IsGraph, BuiltGraph, DiskType, ProcessType, PlaceType, Placed, Filled, Underway
  <2>10. ASSUME faults' = 0, ~ unusable' PROVE FaultFree'
    BY <1>20, <2>10, Kinds, Models
    DEF CannotOpen, FaultFree, Coherent, IsGraph, BuiltGraph, DiskType, ProcessType,
      PlaceType, Placed
  <2>11. RowsRegular'
    BY <1>20, VersionAssumption DEF CannotOpen, RowsRegular, DiskType, ProcessType, Content
  <2>12. QED
    BY <2>1, <2>2, <2>3, <2>4, <2>5, <2>6, <2>7, <2>8, <2>9, <2>10, <2>11
<1>21. ASSUME Stop PROVE IInv'
  <2>1. DiskType'
    BY <1>21, VersionAssumption, Kinds, Models, Contents
    DEF Stop, DiskType, ProcessType, Version
  <2>2. ProcessType'
    BY <1>21, VersionAssumption, Kinds, Models, Contents DEF Stop, DiskType, ProcessType
  <2>3. PlaceType'
    BY <1>21, Tables DEF Stop, PlaceType
  <2>4. FlagType'
    BY <1>21, Zenon DEF Stop, FlagType
  <2>5. Placed'
    BY <1>21, Models, Tables DEF Stop, Placed, PlaceType, DiskType, Content
  <2>6. ModelsDone'
    BY <1>21, Models DEF Stop, ModelsDone, DiskType, ProcessType, PlaceType, Placed
  <2>7. BuiltGraph'
    BY <1>21, Models DEF Stop, BuiltGraph, DiskType, ProcessType, PlaceType, Placed
  <2>8. UpdateMade'
    BY <1>21, Kinds, Models, Imports
    DEF Stop, UpdateMade, UpdateFirst, UpdateSecond, UpdateDone, Underway, BuiltGraph,
      DiskType, ProcessType, PlaceType, Placed, Filled
  <2>9. ASSUME faults' <= 1, ~ unusable' PROVE Coherent'
    BY <1>21, <2>9, Kinds, Models, Imports
    DEF Stop, Coherent, FaultFree, Agreed, Rebuildable, Importing, Building, IsGraph,
      BuiltGraph, DiskType, ProcessType, PlaceType, Placed, Filled, Underway
  <2>10. ASSUME faults' = 0, ~ unusable' PROVE FaultFree'
    BY <1>21, <2>10, Kinds, Models
    DEF Stop, FaultFree, Coherent, IsGraph, BuiltGraph, DiskType, ProcessType,
      PlaceType, Placed
  <2>11. RowsRegular'
    BY <1>21, VersionAssumption DEF Stop, RowsRegular, DiskType, ProcessType, Content
  <2>12. QED
    BY <2>1, <2>2, <2>3, <2>4, <2>5, <2>6, <2>7, <2>8, <2>9, <2>10, <2>11
<1>22. ASSUME Crash PROVE IInv'
  <2>1. DiskType'
    BY <1>22, VersionAssumption, Kinds, Models, Contents
    DEF Crash, DiskType, ProcessType, Version
  <2>2. ProcessType'
    BY <1>22, VersionAssumption, Kinds, Models, Contents DEF Crash, DiskType, ProcessType
  <2>3. PlaceType'
    BY <1>22, Tables DEF Crash, PlaceType
  <2>4. FlagType'
    BY <1>22, Zenon DEF Crash, FlagType
  <2>5. Placed'
    BY <1>22, Models, Tables DEF Crash, Placed, PlaceType, DiskType, Content
  <2>6. ModelsDone'
    BY <1>22, Models DEF Crash, ModelsDone, DiskType, ProcessType, PlaceType, Placed
  <2>7. BuiltGraph'
    BY <1>22, Models DEF Crash, BuiltGraph, DiskType, ProcessType, PlaceType, Placed
  <2>8. UpdateMade'
    BY <1>22, Kinds, Models, Imports
    DEF Crash, UpdateMade, UpdateFirst, UpdateSecond, UpdateDone, Underway,
      BuiltGraph, DiskType, ProcessType, PlaceType, Placed, Filled
  <2>9. ASSUME faults' <= 1, ~ unusable' PROVE Coherent'
    <3>1. faults = 0 /\ ~ unusable
      BY <1>22, <2>9 DEF Crash, ProcessType
    <3>2. Coherent /\ FaultFree
      BY <3>1
    <3>3. Agreed'
      BY <1>22, <3>2 DEF Crash, Coherent, Agreed
    <3>4. Importing' /\ Building'
      BY <1>22 DEF Crash, Importing, Building
    <3>5. ASSUME cache[First] = Absent \/ cache[Second] = Absent, db["node"] = <<>>
          PROVE  db = EmptyDB
      <4>1. CASE stage \in Resetting
        BY <1>0, <3>2, <3>5, <4>1, Kinds, Models DEF FaultFree, IsGraph
      <4>2. CASE stage \notin Resetting
        BY <3>2, <3>5, <4>2, Models DEF Coherent, Rebuildable
      <4>3. QED
        BY <4>1, <4>2
    <3>6. ASSUME cache[First] = Absent \/ cache[Second] = Absent, ~ torn,
                 NEW n \in Model, IsGraph(cache[n])
          PROVE  db["node"] # <<>> /\ cache[n] = Graph(db)
      <4>1. CASE stage \in Resetting
        BY <3>2, <3>6, <4>1, Kinds, Models DEF FaultFree, IsGraph
      <4>2. CASE stage \notin Resetting
        BY <3>2, <3>6, <4>2, Models DEF Coherent, Rebuildable
      <4>3. QED
        BY <4>1, <4>2
    <3>7. Rebuildable'
      BY <1>22, <3>5, <3>6, Models DEF Crash, Rebuildable, IsGraph
    <3>8. QED
      BY <3>3, <3>4, <3>7 DEF Coherent
  <2>10. ASSUME faults' = 0, ~ unusable' PROVE FaultFree'
    BY <1>22, <2>10, Kinds, Models
    DEF Crash, FaultFree, Coherent, IsGraph, BuiltGraph, DiskType, ProcessType,
      PlaceType, Placed
  <2>11. RowsRegular'
    BY <1>22, VersionAssumption DEF Crash, RowsRegular, DiskType, ProcessType, Content
  <2>12. QED
    BY <2>1, <2>2, <2>3, <2>4, <2>5, <2>6, <2>7, <2>8, <2>9, <2>10, <2>11
<1>23. CASE UNCHANGED vars
  BY <1>23
  DEF vars, DiskType, ProcessType, PlaceType, FlagType, Placed, ModelsDone, BuiltGraph,
    UpdateMade, UpdateFirst, UpdateSecond, UpdateDone, Coherent, Agreed, Rebuildable,
    Importing, Building, FaultFree, RowsRegular
<1>24. QED
  BY <1>1, <1>2, <1>3, <1>4, <1>5, <1>6, <1>7, <1>8, <1>9, <1>10,
     <1>11, <1>12, <1>13, <1>14, <1>15, <1>16, <1>17, <1>18, <1>19, <1>20,
     <1>21, <1>22, <1>23
  DEF Next, Refresh, Commit

\* The invariant holds in every state of every behaviour.
LEMMA Invariant == Spec => []IInv
<1>1. Init => IInv
  BY InitInv
<1>2. IInv /\ [Next]_vars => IInv'
  BY StepInv
<1>3. QED
  BY <1>1, <1>2, PTL DEF Spec

-----------------------------------------------------------------------------

\* Every variable holds a value of its kind, for every number of extracts: no
\* graph is read out of half a file, and no table holds rows of no extract.
THEOREM TypeCorrect == Spec => []TypeOK
<1>1. IInv => TypeOK
  BY DEF IInv
<1>2. QED
  BY <1>1, Invariant, PTL

\* What a planner serves without having logged an error is what the next boot
\* will load, after any number of crashes in refresh.
THEOREM ServedIsCached == Spec => []CacheMatchesMemory
<1>1. IInv => CacheMatchesMemory
  BY DEF IInv, ModelsDone, CacheMatchesMemory
<1>2. QED
  BY <1>1, Invariant, PTL

\* refresh(true), run to its end without an error and with its rm done, leaves
\* both models, in memory and on disk, made of one version of the extract,
\* whatever it found.
THEOREM UpdateIsRepair == Spec => []UpdateRepairs
<1>1. IInv => UpdateRepairs
  BY DEF IInv, ModelsDone, UpdateMade, UpdateDone, UpdateRepairs
<1>2. QED
  BY <1>1, Invariant, PTL

\* One crash, or one failure of a step, cannot make the two models disagree
\* unless it falls within rm cache/*, nor double the rows of a table wherever it
\* falls, as long as the extracts are usable; and the next removal that ends makes
\* good for the one that did not.
THEOREM OneFaultHarmless == Spec => []OneFaultConsistent
<1>1. ASSUME IInv, faults <= 1, ~ unusable PROVE \A k \in Table : Len(db[k]) <= 1
  BY <1>1 DEF IInv, Coherent, Agreed
<1>2. ASSUME IInv, faults <= 1, ~ unusable, stage = "serving", ~ spoiled, ~ torn,
             NEW m \in Model, NEW n \in Model
      PROVE  memory[m] = memory[n]
  <2>1. cache[m] = memory[m] /\ cache[n] = memory[n]
    BY <1>2 DEF IInv, ModelsDone
  <2>2. IsGraph(cache[m]) /\ IsGraph(cache[n])
    BY <2>1, Kinds, <1>2 DEF IInv, TypeOK, DiskType, ProcessType, IsGraph
  <2>3. QED
    BY <1>2, <2>1, <2>2 DEF IInv, Coherent, Agreed
<1>3. IInv => OneFaultConsistent
  BY <1>1, <1>2 DEF OneFaultConsistent
<1>4. QED
  BY <1>3, Invariant, PTL

=============================================================================
