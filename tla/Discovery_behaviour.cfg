\* Channels of one and two places, three reports per provider, under the
\* fairness of the goroutines.
CONSTANTS
  Providers <- TwoProviders
  Ids <- TwoIds
  Report <- Reports
  p1 = p1
  p2 = p2
  a = a
  b = b
  MaxReports = 3
  InCap = 1
  NotifyCap = 2
SPECIFICATION FairSpec
INVARIANTS SendNeverBlocks NewestIsCurrent
PROPERTIES ImplementsInventory ImplementsSnapshots ReportsArrive
\* The goroutines end when the context is cancelled.
CHECK_DEADLOCK FALSE
