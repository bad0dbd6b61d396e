\* Two ids, each absent or one of three targets, two callers, timers that strike.
CONSTANTS
  Ids = {vm1, vm2}
  Targets <- ThreeKinds
  NormalizeEndpoint <- Norm
  Loops = {g1, g2}
  NoLoop = NoLoop
  NoTarget = NoTarget
  TimersStrike = TRUE
SPECIFICATION Spec
INVARIANTS MatchesGoal QuietAfterShutdown NoLostLoop
PROPERTIES SteadyTargetIsKept ImplementsFleet
SYMMETRY Symmetry
