\* One target reported in its raw form, and again.
CONSTANTS
  Ids = {vm1}
  Targets <- RawAndFull
  NormalizeEndpoint <- Norm
  Loops = {g1, g2}
  NoLoop = NoLoop
  NoTarget = NoTarget
  TimersStrike = FALSE
SPECIFICATION Spec
PROPERTY RestartOnlyIfChanged
