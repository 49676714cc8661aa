SPECIFICATION FairSpec
CONSTANTS
  Clients = {c1, c2}
  None = None
INVARIANTS
  JobsOutliveTheirUsers
  ClosesOnlyWhenQuiet
  HealthIsTrue
PROPERTIES
  ServesInOrder
  AcceptedJobReleased
  ShutdownCompletes
