----------------------------- MODULE JsonSchema -----------------------------
(***************************************************************************)
(* The validators of the route API: which JSON values are a request, and   *)
(* which the API documents as its answers.                                 *)
(*                                                                         *)
(* A JSON value is a record with one field, named for its type, so that    *)
(* values of two types are never equal: [string |-> s], [number |-> n],    *)
(* [null |-> TRUE], [hash |-> a record], [array |-> a sequence].           *)
(***************************************************************************)
EXTENDS Naturals, Sequences

IsString(obj) == "string" \in DOMAIN obj
IsFloat(obj)  == "number" \in DOMAIN obj
IsNull(obj)   == "null" \in DOMAIN obj

\* ValidateHash: no key beside the known ones, and every required one.
IsHash(obj, required, optional) ==
  /\ "hash" \in DOMAIN obj
  /\ required \subseteq DOMAIN obj.hash
  /\ DOMAIN obj.hash \subseteq required \cup optional

\* ValidateArray lets nil pass.
IsArray(obj) == IsNull(obj) \/ "array" \in DOMAIN obj

Elements(obj) == IF IsNull(obj) THEN {} ELSE {obj.array[i] : i \in DOMAIN obj.array}

IsNode(obj) ==
  /\ IsHash(obj, {"lat", "lon"}, {"node_id"})
  /\ \A key \in DOMAIN obj.hash :
       IF key = "node_id" THEN IsString(obj.hash[key]) ELSE IsFloat(obj.hash[key])

JourneyFits(key, v) ==
  CASE key \in {"source_node", "destination_node"} -> IsNode(v)
    [] key = "search_max_feet_km" -> IsFloat(v)
    [] OTHER -> IsString(v)

JourneyRequired == {"search_route_type", "source_node", "destination_node"}
JourneyOptional == {"search_max_feet_km", "start_datetime"}

IsJourney(obj) ==
  /\ IsHash(obj, JourneyRequired, JourneyOptional)
  /\ \A key \in DOMAIN obj.hash : JourneyFits(key, obj.hash[key])

IsRequest(obj) ==
  /\ IsHash(obj, {"journey"}, {"message_version"})
  /\ IsJourney(obj.hash.journey)
  /\ "message_version" \in DOMAIN obj.hash => IsString(obj.hash.message_version)

ArcFits(key, v) ==
  CASE key \in {"source_node", "destination_node"} -> IsNode(v)
    [] key = "distance" -> IsFloat(v)
    [] key \in {"transport_provider", "transport_service_type"} -> IsString(v) \/ IsNull(v)
    [] OTHER -> IsString(v)

IsArc(obj) ==
  /\ IsHash(obj, {"distance", "start_datetime", "end_datetime", "transport",
                  "transport_provider", "transport_service_type",
                  "source_node", "destination_node"}, {})
  /\ \A key \in DOMAIN obj.hash : ArcFits(key, obj.hash[key])

IsItinerary(obj) ==
  /\ IsHash(obj, {"eta", "distance", "arc"}, {})
  /\ IsString(obj.hash.eta)
  /\ IsFloat(obj.hash.distance)
  /\ IsArray(obj.hash.arc) /\ \A x \in Elements(obj.hash.arc) : IsArc(x)

IsErrorStatus(obj) ==
  /\ IsHash(obj, {"error_code", "error_message"},
            {"current_operation", "more_info", "project_name"})
  /\ \A key \in DOMAIN obj.hash : IsString(obj.hash[key])

\* The journey of a request with its routes.
IsAnsweredJourney(obj) ==
  /\ IsHash(obj, JourneyRequired \cup {"routes"}, JourneyOptional)
  /\ \A key \in DOMAIN obj.hash \ {"routes"} : JourneyFits(key, obj.hash[key])
  /\ IsArray(obj.hash.routes) /\ \A x \in Elements(obj.hash.routes) : IsItinerary(x)

\* The response of shortest_path: the request, the routes in its journey, and
\* how it went.
IsResponse(obj) ==
  /\ IsHash(obj, {"journey", "response"}, {"message_version"})
  /\ IsAnsweredJourney(obj.hash.journey)
  /\ IsErrorStatus(obj.hash.response)
  /\ "message_version" \in DOMAIN obj.hash => IsString(obj.hash.message_version)

=============================================================================
