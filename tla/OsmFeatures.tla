---------------------------- MODULE OsmFeatures ----------------------------
(***************************************************************************)
(* features_map: what the tags of a way say about who may use it, and in   *)
(* which direction.  A tag stands for all tags its class treats alike.     *)
(***************************************************************************)

\* Tags by the lists of values they appear in.  A track is in two of them,
\* and to deny access is to deny it to motor vehicles, too.
motorwayV   == {"motorway", "motorway_link"}
trunkV      == {"trunk"}
pedestrianV == {"footway", "track"}
cyclewayV   == {"cycleway", "track"}
motorAccess    == {"motor_vehicle=yes"}
noMotorAccess  == {"motor_vehicle=no", "access=no"}
noFoot      == {"foot=no"}
noAccess    == {"access=no"}
noCycling   == {"bicycle=no"}
FonewayV    == {"oneway=yes"}
RonewayV    == {"oneway=-1"}

\* Tags in none of the lists: a highway like any other, one still to be built,
\* and what is no highway at all.
otherV == {"street", "construction", "building"}

Tag == otherV \cup motorwayV \cup trunkV \cup pedestrianV \cup cyclewayV
         \cup motorAccess \cup noMotorAccess \cup noFoot \cup noCycling
         \cup FonewayV \cup RonewayV

OneOf(tags, class) == tags \cap class # {}

is_pedestrian_highway(tags) ==
  ~ OneOf(tags, motorwayV \cup trunkV \cup noFoot \cup noAccess)

is_cyclable_highway(tags) ==
  ~ OneOf(tags, motorwayV \cup trunkV \cup noCycling)

\* A footway that grants motor vehicles access is a road, whatever else is said.
is_road_highway(tags) ==
  /\ tags # {}
  /\ \/ OneOf(tags, pedestrianV) /\ OneOf(tags, motorAccess)
     \/ ~ OneOf(tags, pedestrianV \cup cyclewayV \cup noMotorAccess)

is_forward_oneway_highway(tags) == "motorway" \in tags \/ OneOf(tags, FonewayV)
is_reverse_oneway_highway(tags) == OneOf(tags, RonewayV)

is_not_oneway_highway(tags) ==
  ~ is_forward_oneway_highway(tags) /\ ~ is_reverse_oneway_highway(tags)

=============================================================================
