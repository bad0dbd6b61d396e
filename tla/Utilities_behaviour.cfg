\* Two goroutines that resolve five targets with two configurations while routes
\* to two addresses change; endpoints of up to five pieces; two exporters with up
\* to two lines each; three targets for two ports.
CONSTANTS
  a1 = a1
  a2 = a2
  Configs <- TwoConfigs
  Addresses = {a1, a2}
  NoAddress = NoAddress
  Requests <- FiveTargets
  Template <- Rendered
  MaxGroups = 3
  MaxPieces = 5
  Series = {"s1", "s2"}
  VMNames = {"", "x", "y"}
  IDs = {"", "x", "y"}
  MaxLines = 2
  MaxResults = 2
  Ids = {vm1, vm2, vm3}
  StartPort = 1
  EndPort = 2
  NoPort = NoPort
  NoId = NoId
SPECIFICATION Spec
INVARIANTS CacheIsTransparent DefaultMissesNothing NormalizationIsSound SeriesApart AllOrNothing PortsAreExact
\* An endpoint is normalized once, a request merged once.
CHECK_DEADLOCK FALSE
