SPECIFICATION Spec
CONSTANTS
  ZoneFiles <- MCZoneFiles
  Instants <- MCInstants
INVARIANTS
  UtcFollowsCalendar
  LocalTimeRoundTrip
