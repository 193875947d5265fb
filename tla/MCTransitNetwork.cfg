SPECIFICATION TransitSpec
CONSTANTS
  Stop <- MCStop
  Route <- MCRoute
  RouteStops <- MCRouteStops
  Trips <- DailyTrips
  Origins <- MCNearOrigin
  Destinations <- MCNearDestination
  MaxTransfers <- MCMaxTransfers
  Documents <- DailyDocuments
  Searched <- DailyTown
INVARIANTS
  TransitTypeOK
  ArrivalsExact
  JourneysTravellable
  BestJourneys
  LayoutFaithful
  SearchReadsTimetable
CHECK_DEADLOCK FALSE
