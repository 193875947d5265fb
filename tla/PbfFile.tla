------------------------------ MODULE PbfFile ------------------------------
(***************************************************************************)
(* osm_reader: an extract in Protocolbuffer Binary Format, a sequence of   *)
(* blobs in which the ids of dense nodes, of the refs of a way and of the  *)
(* members of a relation are differences to the one before.                *)
(*                                                                         *)
(* A tag (key and value, both indices into a string table) is a string, a  *)
(* position is its longitude in units of the granularity.                  *)
(***************************************************************************)
EXTENDS Integers, Sequences, FiniteSets, SequencesExt

-----------------------------------------------------------------------------
(* What writes an extract,                                                 *)
(* e = [nodes, ways, relations, dense, offset, packed].                    *)

\* The 0 that ends the tags of a dense node.
Stop == ""

Delta(s) == [i \in DOMAIN s |-> s[i] - (IF i = 1 THEN 0 ELSE s[i - 1])]

NoDense == [id |-> <<>>, lon |-> <<>>, keys_vals |-> <<>>]

Dense(e) ==
  [id  |-> Delta([i \in DOMAIN e.nodes |-> e.nodes[i].id]),
   lon |-> Delta([i \in DOMAIN e.nodes |-> e.nodes[i].lon - e.offset]),
   keys_vals |-> IF \A i \in DOMAIN e.nodes : e.nodes[i].tags = {} THEN <<>>
                 ELSE FlattenSeq([i \in DOMAIN e.nodes |-> Append(SetToSeq(e.nodes[i].tags), Stop)])]

\* An element, its position, references or the ids of its members replaced.
Placed(n, lon) == [id |-> n.id, lon |-> lon, tags |-> n.tags]
Referring(w, refs) == [id |-> w.id, refs |-> refs, tags |-> w.tags]
Joining(r, ids) ==
  [id |-> r.id, tags |-> r.tags,
   members |-> [i \in DOMAIN r.members |->
                  [type |-> r.members[i].type, id |-> ids[i], role |-> r.members[i].role]]]

MemberIds(r) == [i \in DOMAIN r.members |-> r.members[i].id]

Group(nodes, dense, ways, relations) ==
  [nodes |-> nodes, dense |-> dense, ways |-> ways, relations |-> relations]

Groups(e) ==
  <<IF e.dense THEN Group(<<>>, Dense(e), <<>>, <<>>)
    ELSE Group([i \in DOMAIN e.nodes |-> Placed(e.nodes[i], e.nodes[i].lon - e.offset)], NoDense, <<>>, <<>>),
    Group(<<>>, NoDense, [w \in DOMAIN e.ways |-> Referring(e.ways[w], Delta(e.ways[w].refs))], <<>>),
    Group(<<>>, NoDense, <<>>,
          [r \in DOMAIN e.relations |-> Joining(e.relations[r], Delta(MemberIds(e.relations[r])))])>>

FileOf(e) ==
  <<[type |-> "OSMHeader"], [type |-> "OSMIndex"]>>
    \o [i \in DOMAIN Groups(e) |->
          [type |-> "OSMData", packed |-> e.packed, lon_offset |-> e.offset,
           groups |-> <<Groups(e)[i]>>]]

-----------------------------------------------------------------------------
(* parse_primitiveblock                                                    *)

\* ref += w.refs(j)
Accumulated(d) ==
  LET ref[i \in 0 .. Len(d)] == IF i = 0 THEN 0 ELSE ref[i - 1] + d[i]
  IN  [i \in DOMAIN d |-> ref[i]]

\* The tags of the i-th node: what is left in keys_vals up to the next 0, which
\* is passed also where there are no tags at all.
DenseTags(keys_vals, i) ==
  LET ended(j) == Cardinality({k \in 1 .. j - 1 : keys_vals[k] = Stop}) IN
  {keys_vals[j] : j \in {k \in DOMAIN keys_vals : keys_vals[k] # Stop /\ ended(k) = i - 1}}

\* The offset is added for every node, to what was accumulated with it.
DenseNodes(dn, lon_offset) ==
  LET ids == Accumulated(dn.id)
      lon == Accumulated([i \in DOMAIN dn.lon |-> lon_offset + dn.lon[i]])
  IN  [i \in DOMAIN dn.id |->
         [id |-> ids[i], lon |-> lon[i], tags |-> DenseTags(dn.keys_vals, i)]]

PlainNodes(nodes, lon_offset) ==
  [i \in DOMAIN nodes |-> Placed(nodes[i], lon_offset + nodes[i].lon)]

\* What a blob holds.  Where its data is raw it is the message around it that is
\* unpacked, in which no group is found, and nothing is where it is lzma_data.
read_blob(blob) == IF blob.packed = "zlib_data" THEN blob.groups ELSE <<>>

\* The elements of a primitive group, as the callbacks get them.
parse_primitivegroup(pg, lon_offset) ==
  [nodes |-> PlainNodes(pg.nodes, lon_offset) \o DenseNodes(pg.dense, lon_offset),
   ways  |-> [w \in DOMAIN pg.ways |-> Referring(pg.ways[w], Accumulated(pg.ways[w].refs))],
   relations |-> [r \in DOMAIN pg.relations |->
                    Joining(pg.relations[r], Accumulated(MemberIds(pg.relations[r])))]]

=============================================================================
