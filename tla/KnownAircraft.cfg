CONSTANTS
  Contacts = {2, a1, own}
  Real = {2}
  asset_name = own
  RecvThreads = {t1, t2}
  Free = free
  first_icao = 1
  last_icao = 2
  Interval = 2
  EvictionAge = 3
  MaxAllocated = 3
  MaxQueued = 1
SPECIFICATION FairSpec
INVARIANTS
  AddressesReusedLast
  ForwardsApart
PROPERTIES
  ReportingAircraftKept
  ReportersAreForwarded
