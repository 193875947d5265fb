----------------------------- MODULE EngineCache -----------------------------
(***************************************************************************)
(* Where the road graphs come from: the OSM extract (a .pbf file), the     *)
(* SQLite database it is imported into, the serialized graphs in cache/,   *)
(* and the two graphs in the memory of the planner.                        *)
(*                                                                         *)
(* A planner is built by the server (RoutePlanner.new false) or by         *)
(* update_OSMdb.rb (RoutePlanner.new true), one process at a time here.    *)
(* Its engine refreshes the graphs; an update first empties the database   *)
(* and the cache.  The process can die between any two writes, a removal   *)
(* can fail, and an operator can replace the extract at any time.          *)
(*                                                                         *)
(* The rows of a table are abstracted to the batches they came in: the     *)
(* versions of the extract whose elements were inserted, in order.  A      *)
(* batch on top of another leaves rows that do not belong together: the    *)
(* primary keys of the first are kept, its references and tags doubled,    *)
(* and the queries, which count rows, do not get through them for sure.    *)
(***************************************************************************)
EXTENDS Naturals, Sequences

CONSTANTS
  MaxVersion,    \* bound: extracts published
  Unparsable,    \* versions with an elevation std::stod throws on
  Irregular,     \* versions with a way without nodes, or a role From
  MaxFaults      \* bound: crashes, and failures of rm or to open the database

ASSUME VersionAssumption ==
  /\ MaxVersion \in Nat /\ MaxFaults \in Nat
  /\ Unparsable \subseteq 1 .. MaxVersion /\ Irregular \subseteq 1 .. MaxVersion

VARIABLES
  extract,       \* version of the extract on disk, 0 when there is none
  db,            \* db[k]: the batches in table k
  cache,         \* cache[m]: the serialized graph of model m, or what is there
  memory,        \* memory[m]: the graph of the engine_cache_t
  stage,         \* where refresh stands
  turn,          \* the model it is at
  deleted,       \* how many of its DELETEs are done
  update,        \* its argument, updateDB
  batch,         \* the version read by the reader of this refresh, 0 if none
  faults,        \* faults so far
  spoiled,       \* auxiliary: this refresh has logged an error
  unusable,      \* auxiliary: some refresh has met an unusable extract
  torn           \* auxiliary: the last removal of cached graphs left some

disk  == <<extract, db, cache>>
place == <<stage, turn, deleted>>
flags == <<spoiled, unusable, torn>>
vars  == <<disk, memory, place, update, batch, faults, flags>>

Version == 1 .. MaxVersion

First  == "road_compact_representation_model"
Second == "pedestrian_simplified_model"
Model  == {First, Second}

\* The tables; tag holds the tags of nodes, of ways and of relations.
Table == {"node", "node_tag", "way", "node_in_way", "way_tag",
          "relation", "member_in_relation", "relation_tag"}

EmptyDB  == [k \in Table |-> <<>>]
Whole(v) == [k \in Table |-> <<v>>]

\* A graph is what it was built of.  A graph just constructed is like one
\* built of an empty database.
Graph(d) == [kind |-> "graph", of |-> d]
NullPtr  == [kind |-> "null"]
Damaged  == [kind |-> "damaged"]
Absent   == [kind |-> "absent"]
Partial  == [kind |-> "partial"]

\* The stages of refresh: those of an update first, then the steps that are
\* gone through for each model.
Resetting == {"reset", "rm"}
Step == {"open", "read", "nodes", "ways", "relations", "build", "truncate", "save"}

\* Mutant: reset forgets the table of tags.
DeletedButTags == << {"node"}, {"way"}, {"relation"}, {"node_in_way"},
                     {"member_in_relation"}, {} >>

Deleted == << {"node"}, {"way"}, {"relation"}, {"node_in_way"},
              {"member_in_relation"}, {"node_tag", "way_tag", "relation_tag"} >>

Committed == [nodes     |-> {"node", "node_tag"},
              ways      |-> {"way", "node_in_way", "way_tag"},
              relations |-> {"relation", "member_in_relation", "relation_tag"}]

-----------------------------------------------------------------------------

Init ==
  /\ extract \in 0 .. MaxVersion
  /\ db = EmptyDB
  /\ cache  = [m \in Model |-> Absent]
  /\ memory = [m \in Model |-> NullPtr]
  /\ stage = "off" /\ turn = First /\ deleted = 0
  /\ update = FALSE
  /\ batch = 0
  /\ faults = 0
  /\ spoiled = FALSE
  /\ unusable = FALSE
  /\ torn = FALSE

\* Outside: a new extract is copied over the old one.
Publish ==
  /\ extract < MaxVersion
  /\ extract' = extract + 1
  /\ UNCHANGED <<db, cache, memory, place, update, batch, faults, flags>>

\* A process starts and builds its planner.
Boot(u) ==
  /\ stage = "off"
  /\ stage' = IF u THEN "reset" ELSE "open"
  /\ update' = u
  /\ spoiled' = FALSE
  /\ UNCHANGED <<disk, memory, turn, deleted, batch, faults, unusable, torn>>

Fault == faults < MaxFaults /\ faults' = faults + 1

\* Mutant: the guard that is commented out; a database without nodes counts as
\* empty, whatever an interrupted reset has left in the other tables.
ResetUnlessEmpty ==
  /\ stage = "reset"
  /\ IF deleted = 0 /\ db["node"] = <<>>
       THEN stage' = "rm" /\ UNCHANGED <<db, deleted>>
       ELSE /\ db' = [k \in Table |-> IF k \in Deleted[deleted + 1] THEN <<>> ELSE db[k]]
            /\ deleted' = deleted + 1
            /\ stage' = IF deleted' = Len(Deleted) THEN "rm" ELSE "reset"
  /\ UNCHANGED <<extract, cache, memory, turn, update, batch, faults, flags>>

\* The next of the six DELETEs of reset, a transaction of its own.
DeleteRows ==
  /\ stage = "reset"
  /\ db' = [k \in Table |-> IF k \in Deleted[deleted + 1] THEN <<>> ELSE db[k]]
  /\ deleted' = deleted + 1
  /\ stage' = IF deleted' = Len(Deleted) THEN "rm" ELSE "reset"
  /\ UNCHANGED <<extract, cache, memory, turn, update, batch, faults, flags>>

\* Mutant: the command leaves every file where it is.
UnlinkNothing(m) ==
  /\ stage = "rm"
  /\ cache[m] # Absent
  /\ stage' = "open"
  /\ UNCHANGED <<disk, memory, turn, deleted, update, batch, faults, flags>>

\* exec rm cache/* takes one file after the other,
Unlink(m) ==
  /\ stage = "rm"
  /\ cache[m] # Absent
  /\ cache' = [cache EXCEPT ![m] = Absent]
  /\ torn' = (\E n \in Model : cache'[n] # Absent)
  /\ UNCHANGED <<extract, db, memory, place, update, batch, faults, spoiled, unusable>>

\* and refresh goes on when it has taken all,
Removed ==
  /\ stage = "rm"
  /\ \A m \in Model : cache[m] = Absent
  /\ stage' = "open"
  /\ torn' = FALSE
  /\ UNCHANGED <<disk, memory, turn, deleted, update, batch, faults, spoiled, unusable>>

\* or when it has not: nobody looks at what std::system returns.
RemoveFails ==
  /\ stage = "rm"
  /\ \E m \in Model : cache[m] # Absent
  /\ Fault
  /\ stage' = "open"
  /\ torn' = TRUE
  /\ UNCHANGED <<disk, memory, turn, deleted, update, batch, spoiled, unusable>>

\* After a model comes the other one; an exception does not change that.
Proceed ==
  /\ stage' = IF turn = First THEN "open" ELSE "serving"
  /\ turn' = Second
  /\ UNCHANGED deleted

\* The refresh goes on with the model it is at.
GoTo(step) == stage' = step /\ UNCHANGED <<turn, deleted>>

\* Mutant: a file cut short is taken for a graph.
LoadUnchecked ==
  /\ stage = "open"
  /\ cache[turn] # Absent
  /\ memory' = [memory EXCEPT ![turn] = cache[turn]]
  /\ Proceed
  /\ UNCHANGED <<disk, update, batch, faults, flags>>

\* A new graph in the place of the old one, and a serialized one to load.  A
\* file cut short raises an archive_exception with the graph half read.
Load ==
  /\ stage = "open"
  /\ cache[turn] # Absent
  /\ memory' = [memory EXCEPT ![turn] = IF cache[turn] = Partial THEN Damaged ELSE cache[turn]]
  /\ spoiled' = (spoiled \/ cache[turn] = Partial)
  /\ Proceed
  /\ UNCHANGED <<disk, update, batch, faults, unusable, torn>>

\* A new graph, nothing to load: construct_model opens the database and asks
\* whether table node is empty.
OpenDatabase ==
  /\ stage = "open"
  /\ cache[turn] = Absent
  /\ memory' = [memory EXCEPT ![turn] = Graph(EmptyDB)]
  /\ GoTo(IF db["node"] = <<>> THEN "read" ELSE "build")
  /\ UNCHANGED <<disk, update, batch, faults, flags>>

\* A missing or unusable extract, which the refresh logs.
BadExtract == spoiled' = TRUE /\ unusable' = TRUE /\ UNCHANGED torn

\* The whole extract goes to the element caches of the database helper.  The
\* reader logs a file it cannot open, and delivers no element; of an irregular
\* extract it says nothing.
ReadExtract ==
  /\ stage = "read"
  /\ batch' = extract
  /\ spoiled' = (spoiled \/ extract = 0)
  /\ unusable' = (unusable \/ extract = 0 \/ extract \in Irregular)
  /\ UNCHANGED torn
  /\ GoTo("nodes")
  /\ UNCHANGED <<disk, memory, update, faults>>

\* The three transactions of commit.
Insert(part) ==
  db' = [k \in Table |->
          IF k \in Committed[part] /\ batch # 0 THEN Append(db[k], batch) ELSE db[k]]

CommitPart(part, next) ==
  /\ stage = part
  /\ ~ (part = "nodes" /\ batch \in Unparsable)
  /\ Insert(part)
  /\ GoTo(next)
  /\ UNCHANGED <<extract, cache, memory, update, batch, faults, flags>>

\* std::stod throws on the ele tag of a node: rollback, no model.
RollbackNodes ==
  /\ stage = "nodes"
  /\ batch \in Unparsable
  /\ BadExtract
  /\ Proceed
  /\ UNCHANGED <<disk, memory, update, batch, faults>>

\* Mutant: the graph is not serialized.
BuildUnsaved ==
  /\ stage = "build"
  /\ memory' = [memory EXCEPT ![turn] = Graph(db)]
  /\ Proceed
  /\ UNCHANGED <<disk, update, batch, faults, flags>>

\* The rows of every element are as many as the columns of counts say, and of
\* the roles the loops of retrieve look for.
Readable ==
  \A k \in Table : Len(db[k]) <= 1 /\ \A i \in DOMAIN db[k] : db[k][i] \notin Irregular

\* build_graph: the graph is made of what the database holds.
BuildGraph ==
  /\ stage = "build"
  /\ memory' = [memory EXCEPT ![turn] = Graph(db)]
  /\ GoTo("truncate")
  /\ UNCHANGED <<disk, update, batch, faults, flags>>

\* The rows are counted wrongly: a text is read where there is none, and what has
\* been built so far stays in memory,
RetrieveThrows ==
  /\ stage = "build" /\ ~ Readable
  /\ memory' = [memory EXCEPT ![turn] = Damaged]
  /\ spoiled' = TRUE
  /\ Proceed
  /\ UNCHANGED <<disk, update, batch, faults, unusable, torn>>

\* or a loop of retrieve stays at the same row, or runs on past the last one.
RetrieveLoops ==
  /\ stage = "build" /\ ~ Readable
  /\ GoTo("looping")
  /\ UNCHANGED <<disk, memory, update, batch, faults, flags>>

\* save_road_network: opening the stream truncates the file, closing it makes
\* the graph whole.
Truncate ==
  /\ stage = "truncate"
  /\ cache' = [cache EXCEPT ![turn] = Partial]
  /\ GoTo("save")
  /\ UNCHANGED <<extract, db, memory, update, batch, faults, flags>>

Save ==
  /\ stage = "save"
  /\ cache' = [cache EXCEPT ![turn] = memory[turn]]
  /\ Proceed
  /\ UNCHANGED <<extract, db, memory, update, batch, faults, flags>>

\* The database cannot be opened.  An update gives up, its graphs null;
\* otherwise the model of the moment is left empty.
CannotReset ==
  /\ stage = "reset" /\ deleted = 0
  /\ Fault
  /\ spoiled' = TRUE
  /\ GoTo("serving")
  /\ UNCHANGED <<disk, memory, update, batch, unusable, torn>>

CannotOpen ==
  /\ stage = "open" /\ cache[turn] = Absent
  /\ Fault
  /\ spoiled' = TRUE
  /\ memory' = [memory EXCEPT ![turn] = Graph(EmptyDB)]
  /\ Proceed
  /\ UNCHANGED <<disk, update, batch, unusable, torn>>

\* The process is gone, and what it held.
Exit ==
  /\ stage' = "off" /\ turn' = First /\ deleted' = 0
  /\ memory' = [m \in Model |-> NullPtr]
  /\ batch' = 0

\* The planner is done with: update_OSMdb.rb ends, the server is stopped, or
\* somebody kills a process that gets nowhere.
Stop ==
  /\ stage \in {"serving", "looping"}
  /\ Exit
  /\ UNCHANGED <<disk, update, faults, flags>>

\* The process dies in the middle of refresh: the disk stays as it is.
Crash ==
  /\ stage \notin {"off", "serving"}
  /\ Fault
  /\ Exit
  /\ UNCHANGED <<disk, update, flags>>

Commit ==
  \/ CommitPart("nodes", "ways")
  \/ CommitPart("ways", "relations")
  \/ CommitPart("relations", "build")

Refresh ==
  \/ DeleteRows \/ (\E m \in Model : Unlink(m)) \/ Removed
  \/ Load \/ OpenDatabase \/ ReadExtract \/ Commit \/ RollbackNodes
  \/ BuildGraph \/ RetrieveThrows \/ RetrieveLoops \/ Truncate \/ Save

Next ==
  \/ Publish \/ (\E u \in BOOLEAN : Boot(u)) \/ Refresh
  \/ RemoveFails \/ CannotReset \/ CannotOpen \/ Stop \/ Crash

\* refresh is a straight run on the thread that builds the planner.
Spec == Init /\ [][Next]_vars /\ WF_vars(Refresh)

-----------------------------------------------------------------------------

Content == [Table -> Seq(Version)]

Graphs  == [kind : {"graph"}, of : Content]

DiskType ==
  /\ extract \in 0 .. MaxVersion
  /\ db \in Content
  /\ cache \in [Model -> {Absent, Partial} \cup Graphs]

ProcessType ==
  /\ memory \in [Model -> {NullPtr, Damaged} \cup Graphs]
  /\ batch \in 0 .. MaxVersion
  /\ faults \in 0 .. MaxFaults
  /\ turn \in Model

PlaceType ==
  /\ stage \in {"off", "serving", "looping"} \cup Resetting \cup Step
  /\ deleted \in 0 .. Len(Deleted)
  /\ stage = "reset" => deleted < Len(Deleted)

FlagType ==
  update \in BOOLEAN /\ spoiled \in BOOLEAN /\ unusable \in BOOLEAN /\ torn \in BOOLEAN

\* Every variable holds a value of its kind.
TypeOK == DiskType /\ ProcessType /\ PlaceType /\ FlagType

\* An update that runs to its end, the removal of the cached graphs included,
\* repairs whatever crashes before it have left in the database and in the
\* cache: both models, in memory and on disk, are made of one version of the
\* extract and of nothing else.
UpdateRepairs ==
  stage = "serving" /\ update /\ ~ spoiled /\ ~ torn =>
    \A m \in Model : memory[m] = Graph(Whole(batch)) /\ cache[m] = memory[m]

\* There is one place where a single fault makes the models disagree, and that is
\* between the unlinks of rm cache/*.  As long as no import meets a missing or an
\* unusable extract, after one fault anywhere else, or after one there and a
\* removal that did end, a planner that logged no error has both models of the
\* same content; and no table is made of two batches.
OneFaultConsistent ==
  faults <= 1 /\ ~ unusable =>
    /\ \A k \in Table : Len(db[k]) <= 1
    /\ stage = "serving" /\ ~ spoiled /\ ~ torn => \A m, n \in Model : memory[m] = memory[n]

\* What a planner serves without having logged an error is what the next one will
\* load: no boot leaves a file behind that it would not answer from.
CacheMatchesMemory ==
  stage = "serving" /\ ~ spoiled => \A m \in Model : cache[m] = memory[m]

\* Building a planner ends, with its graphs or without.  The loops of retrieve
\* can only keep an update from its end when the extract it has read is
\* irregular, whatever crashes have left in the tables before; and a boot without
\* update, when the tables hold such rows or those of two imports.
RefreshEnds ==
  stage # "off" ~>
    \/ stage \in {"off", "serving"}
    \/ batch \in Irregular
    \/ ~ update /\ ~ Readable

\* "if cache contains serialized files than retrieve models": a planner in
\* service whose cache holds a file for a model has got a model from it.
CachedModelRetrieved ==
  stage = "serving" => \A m \in Model :
    cache[m] # Absent /\ memory[m] # NullPtr => memory[m] # Damaged

=============================================================================
