\* Two updates around the provision job, a crash, a lost connection and
\* a disk that may refuse a snapshot.
SPECIFICATION FairSpec
CONSTANTS
  MaxUpdates = 2
  Charts <- SomeCharts
  Renderer = "docker"
  Prefetch = 1
  BrokerFails = TRUE
  DiskFails = TRUE
  MaxCrashes = 1
  MaxDrops = 1
\* Everything posted is handled.
CHECK_DEADLOCK FALSE
INVARIANTS
  ChartsShowTheirData
PROPERTIES
  ReaderNeverGoesBack
  EventsNeverGoBack
  AcceptedIsShown
