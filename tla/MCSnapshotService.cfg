SPECIFICATION Spec
CONSTANTS
  Requests = {r1, r2}
  Keys = {k1}
  Slots = {f1, f2}
  NoFlight = NoFlight
  MaxData = 1
  Bypasses = {FALSE}
  BypassesSnapshotCache = FALSE
INVARIANTS
  AnswersAreFresh
  NoForeignCancellation
  OneBuildPerGroup
  RetiredIsQuiet
PROPERTY ImplementsReads
SYMMETRY Symmetry
