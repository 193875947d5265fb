-------------------------- MODULE MCCompactDijkstra --------------------------
(***************************************************************************)
(* A four-junction town: v1 and v2 joined both ways, two ways round from   *)
(* v2 to v4 (one direct, one through v3), and a one-way street from v4     *)
(* back to v1.  A fifth junction can be left and not be entered.  The      *)
(* search is for the fastest way, along primary and residential roads.     *)
(***************************************************************************)
EXTENDS CompactDijkstra, WeightFunctions

MCVertex == {"v1", "v2", "v3", "v4", "v5"}

MCArc == 0 .. 7

Street(a) ==
  CASE a = 0 -> <<"v1", "v2">>
    [] a = 1 -> <<"v2", "v1">>
    [] a = 2 -> <<"v2", "v3">>
    [] a = 3 -> <<"v3", "v4">>
    [] a = 4 -> <<"v2", "v4">>
    [] a = 5 -> <<"v4", "v1">>
    [] a = 6 -> <<"v1", "v3">>
    [] a = 7 -> <<"v5", "v1">>

SourceOf == [a \in MCArc |-> Street(a)[1]]
TargetOf == [a \in MCArc |-> Street(a)[2]]

\* Two kinds of roads for every arc that lies on one of two ways between the
\* same points, one twice as fast as the other, so that a detour can be quicker,
\* slower or as quick as a direct way; the three arcs to v1 have no rival.
Road(hval) == Edge([metres |-> 1, tags |-> [k \in {"highway"} |-> hval]])

MCWeightFn ==
  {get_functor_for("fastest_road_weight_function", [a \in MCArc |-> Road(h[a])]) :
     h \in {f \in [MCArc -> {"primary", "residential"}] : \A a \in {1, 5, 7} : f[a] = "primary"}}

\* No restriction; no right turn from v1 through v2 to v4; that and none from
\* v1 through v3.
MCTurnTables == {{}, {<<0, 4>>}, {<<0, 4>>, <<6, 3>>}}

=============================================================================
