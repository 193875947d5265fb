---------------------------- MODULE MCFootSearch ----------------------------
(***************************************************************************)
(* Four junctions of footways, one of them with a loop, and one that only  *)
(* leads in, so that it can be a source but not a target.  Two nodes may   *)
(* lie at the same place.  The way along a primary road is short, and      *)
(* quieter ways round it are up to three times as long.                    *)
(***************************************************************************)
EXTENDS FootSearch

MCVertex == 1 .. 5

Footways == {<<1, 2>>, <<2, 3>>, <<1, 3>>, <<3, 4>>}

MCArcs == Footways \cup {<<e[2], e[1]>> : e \in Footways} \cup {<<1, 1>>, <<5, 4>>}

Way(m, hval) == [metres |-> m, tags |-> [k \in {"highway"} |-> hval]]

Kinds(e) ==
  CASE e = <<1, 2>> -> {Way(0, "footway"), Way(2, "primary"), Way(3, "footway")}
    [] e = <<2, 3>> -> {Way(1, "primary"), Way(3, "footway")}
    [] e = <<1, 3>> -> {Way(2, "primary"), Way(3, "street")}
    [] e = <<3, 4>> -> {Way(0, "steps"), Way(3, "residential")}

\* Both directions of a footway are made of it.
WayOf(f, a) ==
  IF a \in Footways THEN f[a]
  ELSE IF <<a[2], a[1]>> \in Footways THEN f[<<a[2], a[1]>>] ELSE Way(1, "street")

MCNetworks ==
  {[a \in MCArcs |-> WayOf(f, a)] :
     f \in {g \in [Footways -> UNION {Kinds(e) : e \in Footways}] :
              \A e \in Footways : g[e] \in Kinds(e)}}

MCWeightFns ==
  {get_functor_for(strat, [a \in MCArcs |-> Edge(n[a])]) : strat \in Strategies, n \in MCNetworks}

\* One target, two, and the same one twice.
MCTargetLists == {<<t>> : t \in MCVertex} \cup {<<2, 4>>, <<4, 3>>, <<3, 3>>, <<1, 5>>}

=============================================================================
