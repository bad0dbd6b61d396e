\* One id, absent or one of two targets, two callers of Reconcile and a request,
\* under the fairness of the goroutines and of the lock.
CONSTANTS
  Ids = {vm1}
  Targets <- Two
  NormalizeEndpoint <- Norm
  Loops = {g1}
  NoLoop = NoLoop
  NoTarget = NoTarget
  TimersStrike = FALSE
  Failed = Failed
  Unread = Unread
SPECIFICATION ServerFairSpec
INVARIANT LabelsFollowTheChild
PROPERTIES NoSampleAfterShutdown RequestReturns CallsReturn
