# A verification project for the Sii-Mobility route planner

These modules model the route planning service of `A05-Alg-OttimDelivering`: a
Rails API in front of a C++ planner (`app/lib/extensions/splib/src`, called
*splib* below) that builds road graphs from an OpenStreetMap extract and
answers requests for routes. The rest of the repository holds no program.

Paths below are relative to `src/A05-Alg-OttimDelivering/app/`, and those that
start with `splib/` to
`src/A05-Alg-OttimDelivering/app/lib/extensions/splib/src/`.

## Inventory

| Part | State it keeps | Operations | Talks to |
| --- | --- | --- | --- |
| API controller (`controllers/api_controller.rb`, `lib/json_validator.rb`) | one `Mutex` per process; a controller object per request | validate, resolve the two points, call the planner, render | the OSM API (`find_nid`), the planner |
| Planner (`splib/route_planner_extC.*`) | its engine; one planner per server, in a global | choose model and strategy from the search type, convert routes | engine |
| Engine and its cache (`splib/engine.*`, `splib/cache.*`) | a singleton with the car graph and the foot graph; the files in `cache/` | refresh on construction, update; run a search | database, graphs |
| OSM database (`splib/data_extraction/sqlite/sqlite_database_helper.cc`) | six tables on disk, three element caches in memory | create, reset, `empty`, commit, retrieve | SQLite |
| PBF reader (`splib/pbf/osmPBF_reader.h`, `splib/data_extraction/osm/parserPBF.cc`) | a file position and two buffers | read blobs, call back with elements | protobuf, database |
| Graph and its builders (`splib/graph/generic_edge_weighted_graph.h`, `graph_builder.h`, `graph_model/*`) | vertices, arcs, `_vtxmap`, `_edgmap`, turn tables | add nodes and sections, add turn costs, `route_optimize` | database, solvers |
| Car search (`compact_graph_dijkstra_algorithm.cc`, `arc_based_single_source_single_target_solver.h`) | labels and predecessors of arcs, a heap | search, read the route back | turn tables, weight functor |
| Foot search, searches to several targets (`dijkstra_algorithm.cc`, `multi_target_...`, `pruning_based_...`) | labels of vertices | search | boost |
| Bicriterion search (`bicriterion_epsMOA_star_algorithm.cc`) | a set of labels per vertex, a list of open vertices | merge, prune, reconstruct | weight functor |
| Weight functors (`splib/graph/graph_weight_function*`) | none | cost of an arc under a strategy | searches |
| Public transport (`RAPTOR_algorithm.cc`, `raptor_timetable*`, `bitset.cc`, `cache.cc`) | a timetable, its file in `cache/`; labels per round and stop | parse, save or load; rounds, transfers, journeys | road graphs |

Requests run on the threads of the web server; the mutex of the controller
serialises everything from the resolution of the points to the answer of the
planner. All requests share the planner, the singleton and its two graphs. A
graph is not read-only: looking a target up in `_vtxmap` inserts it. The
database and the cache directory are shared with `update_OSMdb.rb`, a process
of its own.

What is hard about it: requests that interleave at the planner; a remote call
that fails while the mutex is held; a shared map that queries change; three
stores (database, cached files, memory) that are filled in steps, of which a
crash can leave any prefix; and searches whose correctness rests on an order in
which labels settle. The list `hazards` of `PROJECT.json` gives every place we
found, at its line, with the properties that cover it or why none does.

What makes each part correct:

* controller: requests answer as if served one after the other; each is
  answered; a point that is not on the graph is refused; what is rendered is a
  response as the validators publish it;
* planner: for every search type there is a builder and a solver that takes the
  call; the times of an answer follow one another;
* engine cache: both graphs are of one extract, an update repairs whatever was
  there before, what is cached is what is served;
* car search: settled labels are final, the route returned is legal and
  shortest, and every query ends;
* import: the rows that come back from the tables are the elements of the
  extract, none shifted, lost or doubled;
* graph builder: arcs join the nodes the extract says, one-way streets one way;
  turn tables forbid what the restrictions forbid;
* foot search: the visitor stops when labels are final; a quiet route is not a
  detour at any price;
* bicriterion search: the answer is a set of routes none of which dominates
  another and which covers all others up to epsilon; reconstruction ends;
* public transport: what the search reads through the offsets is the document,
  in whichever run it was parsed; no earlier arrival with as many trips, the
  journey read back is one that can be travelled.

## Modules

| Module | Models |
| --- | --- |
| `CompactDijkstra` | the car search: `arc_based_search`, `compact_relax`, the stopping criterion and `get_result`, from the constructor of the solver to its answer |
| `MCCompactDijkstra` | a small town for it |
| `CompactDijkstraProofs` | the answers are legal and cheapest, for all graphs |
| `JsonSchema` | the validators of the API: which JSON values are a request, which a response |
| `RoutePlanner` | what the planner makes of a request: model and strategy, builder and solver, and the routes laid out for the client |
| `RouteApi` | the vocabulary of requests, points, ids and replies |
| `RouteRequests` | what the API promises: a request is answered in one step |
| `RouteService` | what the server does: threads, mutex, look-ups, the shared vertex map; it implements `RouteRequests` |
| `MCRouteService` | two clients, four ids, two graphs of two vertices |
| `RouteServiceProofs` | the server implements the promise, for all clients, ids and outcomes; how routes are laid out in time |
| `EngineCache` | extract, database, cached files and graphs in memory through boots, updates, crashes |
| `EngineCacheProofs` | what updates, crashes and faults leave behind, for all extracts |
| `OsmFeatures` | what the tags of a way say: who may use it, in which direction |
| `PbfFile` | an extract as a file of blobs, and how the reader decodes it |
| `OsmDatabase` | the six tables, the inserts of the import, and the three queries that group rows into elements by counting |
| `GraphBuild` | `build_graph` of the four graph models: nodes, sections, turn tables |
| `RoadNetwork` | `construct_model` and `retrieve`: from the file through the tables to the rows `GraphBuild` adds |
| `RoadNetworkProofs` | arcs and turn tables, for all databases; what is retrieved and the graph built of it, for all extracts |
| `MCRoadNetwork` | extracts of a crossroads, regular ones and not |
| `WeightFunctions` | the weight functors: what an arc costs, by strategy |
| `VertexDijkstra` | the foot search to one or several targets: the visitor that stops it, and the routes read back |
| `FootSearch` | a foot search with its strategy and the lengths of its answer |
| `FootSearchProofs` | routes are shortest, for all graphs and lists of targets, and the quietest one is a bounded detour |
| `MCFootSearch` | a small net of footways along and round a primary road |
| `BicycleSearch` | the bicriterion search: bags of labels, their merging, the reading back, the choice among routes, the output file |
| `BicycleSearchProofs` | merging is exact, labels are real, the target is covered, answers are spread, for all towns |
| `MCBicycleSearch` | towns of five junctions, a few metres to a few kilometres wide |
| `TransitData` | the vocabulary of timetables, the order in which keys sort, and what a document says |
| `Timetable` | a timetable document made into the arrays of `timetable_Rt` |
| `Raptor` | the public transport search over such a timetable, from the initialisation to the journeys |
| `TransitNetwork` | a timetable parsed and saved or loaded, runs stopped and started again, and the search over it |
| `TransitNetworkProofs` | every journey can be travelled, for all timetables and queries; times are exact and journeys the best, where trips do not overtake; timetables give back their documents, for all documents |
| `MCTransitNetwork` | a town with three lines, and documents of two lines |
| `NaturalLemmas` | induction up to a number, for sets, and the unfolding of recursive functions |

`MC` modules extend what they instantiate, and `...Proofs` modules what they
prove about. `RouteApi` extends `JsonSchema` and
`RoutePlanner`; `RouteRequests` and `RouteService` extend `RouteApi`, and
`RouteService` instantiates `RouteRequests`. `GraphBuild` extends
`OsmFeatures`, `OsmDatabase` extends `PbfFile`, and `RoadNetwork` composes
`GraphBuild` with `OsmDatabase`. `FootSearch` composes `VertexDijkstra` with
`WeightFunctions`, which `MCCompactDijkstra` extends, too. `TransitNetwork`
extends `Raptor` and `Timetable`.

### CompactDijkstra

One behaviour is one query. The arc indexed by `edge_index` is an element of
`Arc`; `dist`, `pred` and `color` are the three maps of the search, with the
largest double written `Infinity` (`closed_plus` absorbs it, as boost's does).
`Start` is the initialisation and the queuing of the arcs out of the source;
`PopArc` is one turn of the `while` loop with all its relaxations, which no one
can observe half-done since a solver belongs to one thread; `PopTarget` is the
turn that ends in `target_found`. The steps of `get_result` are `NoPath`,
`PickLastArc` (the scan of the arcs into the target) and `TraceBack` (one step
of the walk back).

Relaxation of several arcs at once is sound because arcs out of one vertex are
distinct and no arc's label is read by the relaxation of another one: only the
popped arc's label is, and it is black. (An arc from a vertex to itself is both
popped and relaxed; its turn onto itself is a U-turn and costs `Infinity`, so it
never improves.) The heap is a set of which any least element may be the top.

A turn table entry is `Infinity` for a U-turn and for a restricted manoeuvre,
otherwise 0: `create_turn_table` and `add_turn_costs` write nothing else. Turn
tables and weights are chosen in `Init`: a query runs on any built graph.
`MCCompactDijkstra` takes its weights from the functor for the fastest way.
Weights are naturals where the code has doubles: the order and the sums are
what matters, rounding is not modelled.

### RouteService and RouteRequests

A request is a JSON document that `JsonSchema` lets pass or not: a value is a
record with one field named for its type. A point is given with an id, or
without one, in which case the OSM API resolves it to any of a set of
ids, or fails. `find_nid` also fails when the box around the point holds no
node of a highway. The stages of a thread are the statements between which
another thread can run. `Criterion` and `Solve` are two steps although one C++
call makes both: that is what the mutex is for, and dropping the mutex (a
mutant) makes the difference visible. The result of a search is abstracted to
`Outcome`: whether and which routes are found between two vertices is a
property of the graph, checked by `CompactDijkstra` and `VertexDijkstra`,
except that a trip from a vertex to itself may or may not find one. `Outcome`
gives the arcs of a route; `RoutePlanner` makes of them what the client gets,
as `to_rice` does, with whole seconds per arc and a clock that wraps at
midnight.

A request carries a `start_datetime`; the validator lets it be absent, and nil
then raises a `TypeError` where the planner takes a string. `search_route_type`
is a set of the words the planner looks for in it.

The abstract module says what clients may rely on: an answer comes in one step,
computed from the graph and from the set `alias` of unknown ids remembered as
vertex 0. That the memory of earlier targets is part of the promise is the
point of the finding below: the service has state that no client knows of. The
refinement maps `alias` to the ids of `_vtxmap` that the graph was not built
with, minus those inserted by a request whose search has not run (`fresh`).

### EngineCache

A table is the sequence of batches inserted in it, a batch the version of the
extract it came from. That is enough to tell a database that is empty, whole,
cut short, or made of two extracts. A graph is what it was built of. `Boot`
starts a process, with or without update; then `refresh` runs as the code
orders it: six `DELETE`s (`deleted` counts them), `rm cache/*`, and for each
model (`turn`) a new graph, loaded or built and saved, `stage` being the step it
has come to; an exception ends a model, not the refresh. The extract can be
replaced at any moment, and versions in `Unparsable` make `std::stod` throw in
the import of nodes.

`rm` takes one file after the other, in any order (`Unlink`), and refresh goes
on when it has taken all (`Removed`) or when it has given up (`RemoveFails`:
nobody looks at what `std::system` returns). `torn` remembers that the last
removal begun has not taken all, because of that or of a crash in between.
Faults are crashes, a removal that fails, and failures to open the database. A
crash takes `rm` with it; one that survives the planner ends as `Unlink` would.

Building a graph need not end. `retrieve` groups rows by columns of counts
(module `OsmDatabase` has its loops); where these do not say how many rows there
are, or a role is spelt `From`, it reads a text that is not there and throws
(`RetrieveThrows`), or stays at a row or past the last one for ever
(`RetrieveLoops`, stage `looping`, which only a crash or somebody who kills the
process ends). Rows are so (`Readable` is false) when they come from an extract
in `Irregular`, or from two imports one upon the other. Even then the rows met
may do no harm, so `BuildGraph` has no such guard.

One process at a time: a server that boots while `update_OSMdb.rb` runs is not
modelled, and no property covers that hazard: SQLite's locks, whose busy
returns the code ignores, would have to be modelled from outside the sources.

### GraphBuild and OsmFeatures

A behaviour is one call of `build_graph`. The database is given as the rows
that `retrieve` returns: nodes, ways with their references and tags, turn
restrictions. `AddNode` and `AddSection` are the two virtual functions of the
builders, `CreateTurnTable` and `AddTurnCost` one turn of the two loops of
`add_turn_costs`, which only the compact representation calls. Vertices are
numbered from 0 as boost does it, since vertex 0 matters: `Reference` is the
`operator[]` that inserts an unknown id with that number. `AddArc` is
`add_edge` into an adjacency list that keeps arcs in a set, and what follows
when it inserted. The order in which `std::sort` puts edge descriptors is that
of the addresses of their properties, which depends on the allocator; the model
takes rising and falling addresses.

A tag in `OsmFeatures` stands for all tags that the lists of `features_map`
treat alike: `"oneway=yes"` for every key of `onewayK` with a value of
`FonewayV`, and so on. Tags that sit in two lists (a track is for walkers and
for cyclists) are in two sets.

### PbfFile, OsmDatabase and RoadNetwork

`FileOf` writes an extract the way a PBF file holds it: ids, positions and
references as differences, tags of dense nodes in one array. The reader undoes
it blob by blob (`ParseBlob`), and `OsmDatabase` inserts the cached elements
into the tables (`InsertNodes`, `InsertWays`, `InsertRelations`, the three
transactions). A table is a set or sequence of rows with the columns that the
queries use. Each of the three queries joins tables into rows (`NodeRows`,
`WayRows`, `RestrictionRows`), and an iterator `qit` walks them: how many rows
belong to an element is counted from columns stored with it. `FetchNode`,
`FetchWay`, `OpenRestriction` and `ReadSide` are one turn of these loops. Rows
that SQL leaves in no order come in both of two orders. `HandOver` gives the
result to `GraphBuild`, whose steps follow; so the graph is checked against
rows that the import really produced.

`NetworkRecovered` compares what is retrieved with what the extract says, under
the premise `Regular`. Each part of the premise is something the code takes for
granted, and `MCRoadNetwork` has an extract without it (`Irregular`), which
fails the comparison when the part is left out:

* a block of dense nodes has no offset (it is added with every difference, so it
  accumulates);
* the data of a blob is zlib data (of a raw blob the message around the data is
  unpacked, in which no element is found: the network is empty);
* a road has references (for one without, the loop skips a row that is not
  there: tags and references of later ways slip by one, `std::stod` throws, or
  the iterator runs past the end and the query is run again, without end;
  `MaxRead` bounds that);
* a relation has at most one restriction tag and one via (two tags double its
  rows and so the restriction);
* roles are in lower case (the view finds members whose role is `LIKE` from or
  to, the loop compares with `==` and looks at a role `From` for ever).

### WeightFunctions, VertexDijkstra and FootSearch

The functors multiply or divide doubles; the model has integers in units of
which every coefficient and every speed gives a whole number. Lengths carry the
centimetre that the builders add to each arc. The highway value of a way is the
first of three keys in the order of `std::map`, so `area:highway` goes before
`highway`. The functor of the bicycle has no caller: the planner looks for its
strategy in an optimization that it has compared with `bike_optimization` to
the letter.

Boost's search is external: `PopVertex` examines a nearest vertex and relaxes
its arcs, with any choice among equals. The visitor is the project's own. It
keeps the targets it waits for, crosses off one entry per vertex examined, and
ends the search by an exception. A single target is the list of one, for which
the two visitors and the two `get_result` do the same. `ReadTarget`,
`TraceBack` and `PushRoute` are the walk back; `NoPath` is the exception that
loses the routes to all targets. `FootSearch` chooses network and strategy,
makes the weights with the functor, and returns lengths as
`get_optimized_routes` does.

### BicycleSearch

A label is a pair of a length and the part of it that is not safe; the bag of a
vertex is kept in the order of lengths. `Select` takes the open vertex with the
least first label, `Extend` merges its bag into that of one neighbour, with the
pruning by the ellipse and by the target's bag; `Merge` is
`epsilon_approximation_merge`, in its one pass along the two bags, with epsilon
in whole metres as `int` weights truncate it. `StepBack` is one turn of the
backward reconstruction, `PushPath` its end; `Choose` is
`euclidean_distance_choice`, `DumpGeojson` the file written by the command
line.

### Timetable and Raptor

`Timetable` reads the document stop by stop as `json_director` does, into the
three maps of the builder, and `Build` is `rtimetable`, one pass that lays out
six arrays connected by offsets. A loop over a map is one over its keys in
order (`Sorted`: the i-th has i - 1 before it); a counter that has been advanced
for every element so far is the length of what has been flattened (`Offset`).
Its operators `ScannedStops`, `ScannedTrips` and `ScannedRoutes` read the arrays
with the loops of the search; `Faithful` compares what they find with the
document.

`Raptor` takes from that the stops of each route and its trips in layout order.
One action is one turn of the inner loop of `raptor_round`, at one stop of one
route: `Board` and `MissTrips` are its `continue`, `Alight` and `RideOn` the
rest of the body. `EndRound` is the end of a round with
`look_at_foot_paths`; `rtimetable` makes no transfers, so that loop only clears.
`PickTarget`, `FollowLeg` and `FinishPath` read one journey per number of rides
back from the labels.

`sources` and `targets` are the near stops that `stopidx_map` knows; the others
are skipped. Only the vectors as given are tested for being empty, so an empty
one here can mean an exception (`NothingNear`) or a search without any stop at
that end (`Initialize`). Without a source nothing is queued and the answer is
empty. Without a target the first arrival is compared with the largest of no
best times, which is read through a null pointer (`NoTargetKnown`: `crashed`).

`TransitNetwork` joins the two. `ParseTimetable` and `SaveTimetable` are the
branch of `retrieve_public_transport` without a serialized file, `LoadTimetable`
and `LoadRefused` the other one. `Restart` stops the process before a query,
perhaps in the middle of saving, which leaves a file that cannot be read, and
starts it again. The search then runs over the constants of `Raptor`, which are
what the document searched says (`NetworkAssumption`, lines and stops numbered
from 0 in the order of their ids); `SearchReadsTimetable` says that the offsets
of the timetable lead to them, and to them only.

The branch of `engine.cc` that calls this search is commented out (lines
114-195). The solver itself is complete and compiled, which is why it is
modelled and why its near stops are inputs.

## Runs

| Run | Checks | Bounds, and why they suffice |
| --- | --- | --- |
| `compact_search` | `TypeOK`, `SettledOrder`, `PredecessorTree`, `NoShortcut`, `AnswerLegal`, `AnswerShortest`, `QueryAnswered` | 5 junctions, 8 arcs with a two-way street, one-way streets, a cycle and a junction that cannot be entered; every pair of end points, 32 choices of fast and slow roads, 3 sets of turn restrictions: ties, improvements of queued arcs, arcs behind forbidden turns, a target reached by an arc that is not the best, and no route at all occur |
| `compact_shortest` | `ComputesShortestPath` (violated) | the same |
| `service` | `TypeOK`, `SolverFound`, `TripTimed`, `ResponsePublished`, `RefinesAtomic`, `RequestAnswered` | 2 clients, each free to send any request over and over: by car, on foot and by bike; two known and two unknown ids, points that are looked up, no time given, documents that do not validate; routes of one and of two arcs and none, a trip that passes midnight |
| `service_invalid_points` | `InvalidPointsRefused` (violated) | the same |
| `cache` | `TypeOK`, `UpdateRepairs`, `OneFaultConsistent`, `CacheMatchesMemory`, `RefreshEnds` | 4 versions (so that database, cache and extract can each be of another one, with usable ones before and after the others), the second unparsable and the third irregular, 2 faults, any number of boots and updates |
| `cache_damaged` | `CachedModelRetrieved` (violated) | the same with one fault |
| `road_network` | `TypeOK`, `EdgesIndexed`, `StreetsJoined`, `TurnsForbidden`, `NetworkRecovered`, `NetworkBuilt` | a street and a crossing one of several courses (sharing a section in either direction, leaving the extract at either end, running past) with one of 12 sets of tags, and a building; nodes dense and plain, in two orders, with tags, elevations and neither, so that different nodes are vertex 0; `no` and `only` restrictions, sides of two ways, a via that is missing, two on one via; a multipolygon; 6 irregular extracts; an empty database and one imported before; 4 models |
| `bicycle` | `TypeOK`, `MergeExact`, `LabelsReal`, `TargetCovered`, `AnswerSpread`, `QueryAnswered` | 5 junctions with three ways between two of them; towns of a few metres (epsilon prunes nothing), some ten (it prunes), and over a kilometre (the two forms of the ellipse, with a vertex inside or outside); every choice of safe streets; 2 trips |
| `bicycle_read_back` | `RoutesReadBack` (violated) | the middle towns |
| `foot_search` | `TypeOK`, `RoutesShortest`, `DetourBounded`, `QueryAnswered` | 5 vertices with a cycle, a loop, a vertex without a way in; 24 networks of footways, steps and primary roads, ways of a centimetre, ties; both strategies; every source, every single target, 4 pairs, one of them a target twice and one that cannot be reached |
| `transit` | `TransitTypeOK`, `ArrivalsExact`, `JourneysTravellable`, `BestJourneys`, `LayoutFaithful`, `SearchReadsTimetable` | 5 stops, 3 lines (one passes a stop twice), up to 3 rides, 2 changes; none, one or two near stops known at either end: routes queued from several stops, changes without slack, pruning against two targets occur. Ids with gaps. Documents of 2 lines in either order, 4 ways each, one of them a loop and one without a stop, up to 3 rides in any order, with numbers of one and of two digits. Any number of restarts |
| `raptor_earliest_trip` | `EarliestTripCaught` (violated) | the same with rides numbered 0, 2, 10 |

What they show. Of the car search: no settled arc could be improved by another
one (`SettledOrder`, `NoShortcut`), and the route read back from arcs that may
still be queued is legal and, against an enumeration of all drives, is the
cheapest *beyond its first arc*, unless source and target are adjacent. Both
restrictions are real, see the findings. Of the server: every interleaving of
requests is equivalent to one that serves them one at a time, and a failing
look-up never keeps the mutex; every call finds a builder and a solver that
takes the points in the form it is given them; the times of an answer join,
midnight or not; and every body rendered is a response as the validators publish
it, but for one key (see the findings). Of the cache: an update that ends, with
its removal of the cached graphs done, makes both models anew of one extract
whatever state it started from. There is one place where one fault is enough for
a planner to serve graphs of different content without logging an error, and
that is within `rm cache/*`: one old graph is left, and after a new extract the
other one is built beside it. `OneFaultConsistent` says that there is no other
place (as long as the extracts are usable) and that a later removal that ends
makes good for it. It excludes behaviours in which an import met a missing or an
unusable extract, because there TLC finds disagreement: a graph built without an
extract is empty, is saved, and is loaded ever after, even next to a model of a
later extract. `RefreshEnds` says what alone can keep a planner from being
built: an irregular extract read by an update and, for a boot without update,
rows of such an extract or of two imports; an update gets a planner out of
whatever crashes have left in the tables.

Of the graph builder: an arc joins two nodes exactly if some street leads from
the one to the other; arcs are numbered densely although sections repeat; and
the entry of a turn table that the search reads is infinite exactly for U-turns
and restricted manoeuvres, whatever the allocator does. Two premises bound that.
`Within`: no reference leaves the extract (else vertex 0 takes its place, see
the findings). `Unambiguous`: no street runs past a way of a restriction between
two of its nodes, because the code looks for the *nodes* of the ways and would
take such a street for the way. Of the import: under `Regular`, what is
retrieved is what the extract says, whatever order the database returns nodes in
and whether it was filled by this model or an earlier one. Of the foot search:
where the visitor stops it, the labels on the way to the targets are final,
although the last target's arcs are not relaxed, and every route is shortest; a
query fails exactly if one of its targets is the source or cannot be reached;
and the quietest route is never longer than twice the shortest one, since the
coefficients are in [0.5, 1]. Of the bicycle search: bags never hold a label
that another one covers, one pass along two bags does what a comparison of all
pairs would, no label is invented by merging back and forth, each route through
the ellipse is covered up to epsilon per street, and the routes chosen include
the shortest and the safest and lie apart. Reading back ends where epsilon
prunes nothing, and need not elsewhere. Of the public transport search: after k
rounds the best times are exactly the earliest with k rides at every stop not
pruned, no label needed to read a journey back is missing, and the answer holds
a best journey for every number of rides, if trips are laid out in the order
they run and it knows a target at all. It may hold more: the journey of a round
is chosen among the targets that round improved, so that one with more rides can
be later at the destination than one with fewer. A timetable file cut short is
refused by every later run until someone removes it; it is never taken for a
smaller timetable.

Deadlock is not checked where a query or a construction comes to its end
(`CHECK_DEADLOCK FALSE` in the runs of the searches and of the import).

### Findings

* **The first arc is free** (`compact_shortest`). Arcs out of the source are
  queued at distance 0, so the weight of the first arc of a route never counts,
  and an arc without a predecessor is never the last one of an answer, so for
  adjacent junctions the answer is a detour or empty. The API says it "computes
  the shortest path between an origin and a destination".
* **Unknown targets are never refused** (`service_invalid_points`). The target
  is looked up with `operator[]` before the check that logs "no route found,
  invalid points": the look-up inserts it, as vertex 0, for good.
* **A file cut short is never repaired** (`cache_damaged`). A crash while a
  graph is saved leaves a file that every later boot finds, fails to read, and
  keeps; the graph served is the part of it that was read. Only an update
  removes the file.
* **Ride 10 before ride 2** (`raptor_earliest_trip`). Trips are laid out in the
  order of string keys, while the search takes the first that leaves late enough
  for the earliest. `transit` uses rides numbered 0, 1, 2, which sort right.
* **Reading back may never end** (`bicycle_read_back`). A label at the target
  outlives the label it was extended from, which a merge erased because another
  one dominates it while epsilon kept that one from replacing its extension. The
  walk back finds no neighbour with the label it looks for and has no exit.

Four more, seen while modelling and not given a run of their own. What is to
"clear old cached data" (`engine.h:99`) is a call of `rm` whose result nobody
looks at: where it fails (no permission, a blank in the path, which is not
quoted) the database is emptied all the same, the old graphs are loaded, and no
error is logged (`RemoveFails`, which is why `UpdateRepairs` and
`OneFaultConsistent` ask for a removal that is not `torn`). Streets out of the
box are joined to the first node: a section with a node that is not in the
database makes an arc to vertex 0 (`StreetsJoined` has the premise `Within`),
while the message next to it (`road_compact_representation_model.h:162`) takes
such sections for not inserted. The validator of responses knows no `desc`,
which `to_rice` gives every arc, so the response the controller renders would
not pass the validator of its own API (`ResponsePublished` leaves the key out).
The destructor of a PBF reader shuts the protobuf library down for the whole
process (`osmPBF_reader.h:88`), though a second model may be parsed after it.

## Fairness

`CompactDijkstra`, `VertexDijkstra`, `FootSearch`, `BicycleSearch`: weak
fairness of the next-state action; a search is a loop on one thread without
waiting. `RoadNetwork`: the same, importing and building are a straight run of
the thread that builds the planner. `RouteService`: weak fairness of each
thread's steps, strong fairness of `Lock`, because a Ruby `Mutex` queues its
waiters; `Submit` is not fair, clients need not ask. A look-up that never
returns is excluded: the HTTP library answers or raises. `EngineCache`: weak
fairness of `Refresh`, a straight run of one thread; crashes, boots and new
extracts are not fair, nor is the end of a refresh that loops. `TransitNetwork`
states no liveness: it may be restarted for ever.

## Proofs

Theorems hold for every value of the constants; what they assume of those are
the `ASSUME`s of the modules, which TLC evaluates on every run, and nothing
else; only `ExactArrivals` and `JourneysAreBest` add a premise (`TimesInOrder`,
below), and `BuilderIsFed` and `ExtractIsBuilt` one about the extract (`Fed`,
below).

| Component | Theorem | Property |
| --- | --- | --- |
| `CompactDijkstra` | `TypeCorrect`, `SettledInOrder`, `Predecessors`, `NothingShorter` | `TypeOK`, `SettledOrder`, `PredecessorTree`, `NoShortcut` |
| | `LegalAnswers`, `ShortestAnswers` | `AnswerLegal`, `AnswerShortest` |
| `RouteService` | `TypeCorrect`, `PlannerExclusive` | `TypeOK`, mutual exclusion |
| | `Refinement` | `RefinesAtomic` |
| | `SolverAlwaysFound`, `TripsTimed`, `ResponsesPublished` | `SolverFound`, `TripTimed`, `ResponsePublished` |
| `EngineCache` | `TypeCorrect`, `ServedIsCached` | `TypeOK`, `CacheMatchesMemory` |
| | `UpdateIsRepair`, `OneFaultHarmless` | `UpdateRepairs`, `OneFaultConsistent` |
| `GraphBuild` | `TypeCorrect`, `ArcsNumbered` | `TypeOK`, `EdgesIndexed` |
| | `ArcsAreStreets`, `TurnsAreForbidden` | `StreetsJoined`, `TurnsForbidden` |
| `RoadNetwork` | `NetworkIsRecovered` | `NetworkRecovered` |
| | `BuilderIsFed` | implements `GraphBuild` |
| | `ExtractIsBuilt` | `GraphOfExtract`: from the file to the graph |
| `VertexDijkstra` | `TypeCorrect`, `ShortestRoutes` | `TypeOK`, `RoutesShortest` |
| `FootSearch` | `FootRoutes`, `BoundedDetour` | `TypeOK`, `RoutesShortest`, `DetourBounded` |
| `BicycleSearch` | `TypeCorrect`, `MergesExact` | `TypeOK`, `MergeExact` |
| | `LabelsAreReal`, `TargetIsCovered` | `LabelsReal`, `TargetCovered` |
| | `AnswersAreSpread` | `AnswerSpread` |
| `TransitNetwork` | `SearchTypes`, `TravellableJourneys` | `TypeOK` of the search, `JourneysTravellable` |
| | `ExactArrivals`, `JourneysAreBest` | `ArrivalsExact`, `BestJourneys` |
| | `TimetableTypes`, `FaithfulLayout` | `TransitTypeOK`, `LayoutFaithful` |
| | `NetworkRead` | `SearchReadsTimetable` |

None of the properties is inductive alone. In each proof module `IInv` is what
is, with one lemma per action (or per group of actions that touch the same
parts); TLC checked each `IInv` on the run of its component, the further
`ExactInv` and `BestInv` of the public transport search on the same town with
fewer near stops, and `TimetableInv` on all its documents.

**Car search.** `SettledOrder` needs that the queue is the set of gray arcs and
that white arcs have no label; that a relaxation keeps it needs that a candidate
is never below the label it comes from (`CandidateBound`) and that the popped arc
does not relax itself (`NotSelfRelaxed`). `NoShortcut` needs `SettledOrder`, for
a black arc that the popped one could only improve if it were nearer.
`AnswerLegal` needs that arcs without a predecessor start at the source
(`Rooted`), that no settled arc enters the target (`TargetNotPassed`) and that
the part of the route already read back is a chain of predecessors (`PathChain`).
For `AnswerShortest` there is `JInv` on top: predecessors do not go round
(`Acyclic`), the first arc is free (`FirstFree`), when the search stops no
queued arc is nearer than the nearest into the target (`Settled`), and the walk
back starts at that one (`NearestLast`). Then, by induction over the length of a
drive, no drive of the reference costs less than the label of its last arc or
than an arc into the target (`DrivesBounded`); and the route is one of those
drives, since it repeats no arc (`RouteShort`, the pigeonhole principle) and its
labels are its costs (`RouteDriven`, `RouteCost`). `Arc` must be finite for
that, and is.

**Server.** The step of the promise is `Solve`. `Criterion` has written to the
shared vertex map before it, so the argument is that nobody can see the id
inserted: such an id is the target of a thread about to search (`FreshPending`),
that thread holds the mutex, and no other one does (`LockHeld`). The refinement
mapping hides ids that are `fresh`, so `Criterion` is a stutter, and `Solve`
makes both the insertion and the answer visible. `Refinement` covers the safety
part of `RouteRequests`, which states no fairness. `TripsTimed` and
`ResponsesPublished` rest on lemmas about the edges of a route: the clock of an
edge is the one of the edge before it, advanced (an induction over the edges),
and the bodies fit the validators field by field.

**Cache.** `ModelsDone` says of each model gone through that memory and file
agree; `UpdateMade` what an update without an error, and with its removal done,
has made at each stage, from
tables that are empty to tables of one batch. With one fault at most, `Coherent`
is what a refresh may find on disk (graphs that agree, rows from which the
missing one would be rebuilt the same), and `FaultFree` is what holds before the
fault and pays for it: the cache has both graphs, or none and no rows. Between
the unlinks that does not hold of the cached graphs, so it is said of states in
which the removal is not `torn`, and `Removed` brings it back: with no file left
there is nothing to disagree. What is said of the rows holds there, too. With
usable extracts the rows are regular (`RowsRegular`) and no table is doubled, so
that `retrieve` reads them (`Readable`) and the second model is not begun before
the first one has its graph.

**Graph builder.** `Mapped` ties vertices to the nodes added, with what
`operator[]` inserts as vertex 0; `AllDrawn` and `NothingElse` say that the
sections passed, and only they, have their arcs; `Waiting` and `Indices` that the
restrictions not yet taken are a suffix and that an arc has its place in the two
tables it is in; `TurnsMade` what a table says between restrictions. That
sections are the neighbours in the ways is `SectionsFound`, about the
flattening of a sequence of sequences.

**From an extract to the graph.** `NetworkRecovered` compares the end of a long
way with its beginning, so the invariant `RoadInv` follows it phase by phase,
for every extract of `ExtractAssumption` that is `Regular`. While blobs are read
(`Importing`) the cache, completed by the blobs to come, is the extract:
differences are undone by adding up, and the tags of the i-th dense node are
what is between two ends of tags in one array. The three inserts leave the
tables of the extract, whatever was in none of them (`Imported` for a database
found on disk). While a query is read (`ReadingNodes`, `ReadingWays`,
`ReadingRestrictions`) the elements found are those whose rows have been passed, and no row still to
come is of one of them (`Between`). That needs where rows lie: `Ordered` lists the
rows of a query once each, by their keys (`ClassesOrdered`), so the rows of an
element follow one another; and that the columns with the counts, which the
iterator skips by, say how many rows an element has. The
rows of a way are those of its tags, then those of its references in order; its
count of references must be positive, which is a part of `Regular`. A
restriction is read row by row, each row one member by its role, and the
restriction that is half read is told apart by its sides
(`BetweenRestrictions`, `WithinRestriction`).

What is retrieved is then a database the builder may be given, once there is a
junction in it (`Fed`: without one, the code has no vertex 0 to insert for
what is unknown). So a behaviour of the composition is one of the
builder (`BuilderIsFed`), in which the import stutters and `HandOver` is
`Retrieve`, and all that is proved of the builder holds in the composition.
`ExtractIsBuilt` puts the two together and says in terms of the extract what
neither half says: vertices are its junctions, each once; arcs are its roads, in
the directions the model may use; turns are forbidden as the extract has it.
Two conditions are within the statement, where the code fails without them: an
arc at vertex 0 may come from a reference to a node that the extract has not
(`Inside` excludes it), and what is said of turns has the premise of
`TurnsForbidden` (`Unambiguous`: no street runs past a way of a restriction).
TLC checked `RoadInv` and `Fed => GraphOfExtract` on the extracts of the run
`road_network` before they were proved.

**Foot search.** The visitor throws at the last target, before its arcs are
relaxed. So `NoShortcut` holds of settled vertices only, and what makes the
labels of targets final is `Waiting`: when the search stops no queued vertex is
nearer than a target. Walks are bounded by labels by induction (`WalksBounded`),
and the chain read back is a walk (`ChainWalked`) short enough for the reference
because no vertex is on it twice (`ChainShort`). For `DetourBounded`, the functor
gives each arc between 55 and 90 hundredths of its length (`Coefficient`); every
walk of the reference by one weight has a counterpart by another that is at most
a multiple (`Scaled`), and sums of arcs compare as arcs do (`SumsCompare`).

**Bicycle search.** The pass along two bags is a recursion over two positions.
`WalkUnfolds` shows that it defines a function, with the distance to the ends of
the bags as the rank; `WalkExact` goes by induction over that distance from the
ends to the beginnings, with one lemma per branch of the pass (equal labels, one
bag's label first, the other's). The scans for the next safer label skip only
labels that are covered, because a bag is a staircase: farther is safer.
`LabelsReal` is not inductive: a label may be erased while those derived from it
stay, and then a merge could come back to a vertex its route has passed. So
`Travelled` says that the route of each label has, at each of its vertices, some
label covering what the route had cost there; a merge that returned to such a
vertex would bring a label already covered, which the pass drops. For
`TargetCovered`, `Propagated` says of each label whose vertex is closed that it
is covered, once inflated, at the next vertex, unless the ellipse or the target
stopped it; then, by induction along a route, the target or the next vertex has
a label within the allowance of that many streets (`RouteCovered`). That rests
on `AllowanceSum`: whole metres truncated at every street, inflating first and
adding later never gives more than adding first. For `AnswerSpread`, `Retraced`
says that what is read back is a walk whose streets account for what the label
has lost, and that the rest of it is a label of the vertex come to: at the
source that is nothing. `ChosenApiece` goes along the labels to choose from, with
`FarAdds` to compare a label with all those chosen although the code compares it
with the one before; and labels differ, so each route written has a cost of its
own (`OneLineEach`).

**Public transport.** `TravellableJourneys` assumes nothing of the order of
trips or of the times along them. A label is written with a trip that is aboard,
boarded after an arrival of the round before (`OnBoard`), and the row of that
arrival is not written any more (`RowsAhead`, `WalksKnown`), so what a label
tells stays true (`RidesRecorded`). The exception is row 1, which round 0 reads
and round 1 writes: `WalksKnown` says that what initialization put there is gone
when round 0 ends. The walk back goes down the rows one by one and ends at a
source because it takes as many legs as there are rows (`WalkedBack`); the same
trip boarded at an earlier source is still a ride to the same stop
(`EarlierBoarding`).

`ExactArrivals` and `JourneysAreBest` have a premise: no trip goes back in time,
and none overtakes one that is laid out before it (`TimesInOrder`). The code
does not see to it. It boards the first trip laid out that leaves late enough
and stays aboard as long as no better arrival lets it board again, and the run
`raptor_earliest_trip` shows a timetable, numbered 0, 2, 10, whose layout breaks
the premise; `DaysAssumption` of `MCTransitNetwork` says that the timetable of
the run `transit` meets it and that one does not. The argument goes round by
round. `Reach(A, k)` is what k rides make of the arrivals A on foot, and
`ReachGrows` and `ReachedByRide` unfold it ride by ride. Best times are never
too early (`RowsArrive`, `MinimumArrives`). They are early enough because
`NoRideForgotten`: within a round, each ride that the arrivals of the rounds
before allow is covered by a best time, or too late for the targets, or its stop
is still to come, or the search is on a trip of that route which is as early.
When the round ends nothing is to come and nobody is on board, so every ride is
covered (`EarlierFound`). A queue entry starts at the first marked stop of its
route and a mark is a stop that the round before improved (`MarkedMinimum`);
what it did not improve was made use of then. `RoundTaken` is for the end of a
round in which no route was taken. All that is pruned is said of a search that
knows a target (`Begun`). For `JourneysAreBest`, `RowsFound` says that what a
round improves at a target stands in its row, `BestAnswered` that every row
reaching a target has given a journey, ending at the best target of the row; an
optimum that needs rides was first reached in some round (`BroughtBy`), and the
journey of that row is it.

**Timetable.** `TimetableTypes`, `FaithfulLayout` and `NetworkRead` hold for
every set of documents that `DocumentAssumption` admits: any number of lines,
rides and stops in any order, lines that stop nowhere included. `TimetableInv`
says that some number k of stop entries has been read, that the three maps are
those of the first k entries (`MapsRead`), and that whatever has been built or
saved is a timetable of the document; so a loaded one is, and a partial file is
never taken for one. `MapsRead` has to speak of a ride that is half read: the
times of the ride and the stops of the line are the first ones, as many as
entries of it lie before k (`Progress`), which rests on where the entries of a
ride lie in those of the document (`EntriesPlaced`). When nothing is left to
read the maps hold all the document says (`AllMapsRead`). The layout then needs
two facts about sequences. Keys in order are a list with every key once
(`SortedPlaces`), because different keys have different numbers of keys before
them and there are as many numbers as keys; so an index leads back to its key
(`IndexOfKey`). And the elements of sequences laid out one after the other are
found from the offset of their sequence on, up to the offset of the next one
(`FlattenedByOffsets`, `SectionOf`), by induction over the sequences. Three kinds
of offsets advance at different paces, the trips' by rides and the times' by the
stops of all rides: `TimesInPlace` says that they agree, since the times of the
rides and the rides have the same offsets (`SameOffsets`). `ReadBack` collects
what each loop of the search finds, and `ReadBackAddressed`, `ReadBackFaithful`
and `ReadBackNetwork` draw the three theorems from it. `NetworkRead` closes the
gap between the timetable and the search: the constants that the theorems of
the search are about are what it finds in the arrays.

`NaturalLemmas` has what all inductions use. The induction theorems of the
library take a predicate as a parameter, which the provers at hand cannot
instantiate; `InductionUpTo` takes a set instead, whose members are the numbers
a fact holds of, and `Iteration` gives the function that a recursion from 0 to n
defines, and `Recursion` the one of a recursion in several arguments that lowers
a rank. This is also why references are recursive functions and not `RECURSIVE`
operators. `Walks` and `GraphBuild` were put into the form that can be
reasoned about (walks as sets of pairs, a database as a member of a set of
records, keys sorted by their ranks instead of by `SortSeq`, which the provers
cannot expand), `EngineCache` into one step of one model at a time.

Only model-checked is all liveness (`QueryAnswered`, `RequestAnswered`,
`RefreshEnds`, `NetworkBuilt`): it needs `ENABLED` and fairness, which the
prover has not. Of extracts that are not regular nothing is proved; what each
part of the premise is for is in the section on `RoadNetwork`.

## Plan

The order is that of the request: the searches whose answers users see first,
then the service around them, then where graphs come from. All of these are
modelled, and of all searches, the service, the cache, the graph builder and
the timetable builder everything that is not liveness is proved, and so is the
way from an extract to the graph.

Left to model: `EngineCache` with an updater beside a booting server; the
choice of near stops (`search_near_stops`), whose only caller is commented out.

## Not modelled

Floating point rounding, Vincenty distances, XML/JSON/protobuf decoding, SQL
text, logging, rendering; the main program of the command line, which makes one
call with fixed arguments; code that is commented out or unreachable
(`bypassDB_parserPBF`, the pruning Dijkstra, the bicycle's weight functor,
`parserSAX2` for extracts the planner is never given); vendored libraries
(json_parser; sqlite3xx as far as its users do not depend on it). What
`json_director` trusts of a document (`DocumentAssumption`: directions name
lines, each line has a ride 0, its rides serve the same stops, have numbers of
up to three digits that name them, and no counter of the timetable wraps: 16
bits for the stops of a line, 32 for offsets) is assumed: what the operator's
export promises is not in the sources. `PROJECT.json` lists each part with its
reason.

## Running

    tlc -workers 2 -config MCCompactDijkstra.cfg MCCompactDijkstra
    tlc -workers 2 -config MCRouteService.cfg MCRouteService
    tlc -workers 2 -config EngineCache.cfg EngineCache
    tlc -workers 2 -config MCRoadNetwork.cfg MCRoadNetwork
    tlc -workers 2 -config MCBicycleSearch.cfg MCBicycleSearch
    tlc -workers 2 -config MCFootSearch.cfg MCFootSearch
    tlc -workers 2 -config MCTransitNetwork.cfg MCTransitNetwork
    for m in *Proofs.tla NaturalLemmas.tla; do tlapm $m; done

The other configurations end in the counterexamples described above:
`MCShortestPath.cfg` (module `MCCompactDijkstra`), `MCInvalidPoints.cfg`
(`MCRouteService`), `EngineCacheDamaged.cfg` (`EngineCache`), `MCReadBack.cfg`
(`MCBicycleSearch`), `MCEarliestTrip.cfg` (`MCTransitNetwork`).
