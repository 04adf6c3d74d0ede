\* Every way to ask the v2 host for a stream, over a connection that breaks
\* twice; a stream, a poll or a webhook subscription of a v1 host while the run
\* is driven; two files, room for one, three writes of them, and a run; three
\* chains put into one workflow.
\* No deadlock check: a stream that ended owes no step.
SPECIFICATION FairSurfaces
CONSTANTS
  Requests <- AllRequests
  MaxEvents = 3
  MaxDrops = 2
  Hosts = {"postgres", "sqlite", "memory"}
  Cursors <- FirstIds
  HostEvents = 3
  Paths = {"index", "notes"}
  IndexPath = "index"
  MaxFiles = 1
  MaxVersions = 2
  Workflows <- Flows
  Runs = {"r1"}
  Keys = {"k"}
  MaxWrites = 3
  Registry <- Packs
  Asks <- AllAsks
  TypeIds = {"t"}
  ParentNodes = {"own"}
  ParentPolicies = {"none", "reverse"}
  MaxSplices = 2
INVARIANTS NothingMissed SnapshotStands NothingDangles
PROPERTIES EveryEventArrives EndArrives NoLostUpdate
CHECK_DEADLOCK FALSE
