SPECIFICATION TransitSpec
CONSTANTS
  Stop <- MCStop
  Route <- MCRoute
  RouteStops <- MCRouteStops
  Trips <- SundayTrips
  Origins <- MCNearOrigin
  Destinations <- MCNearDestination
  MaxTransfers <- MCMaxTransfers
  Documents <- SundayDocuments
  Searched <- SundayTown
INVARIANT EarliestTripCaught
CHECK_DEADLOCK FALSE
