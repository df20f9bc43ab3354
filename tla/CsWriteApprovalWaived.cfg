\* A device connects again and starts its msgCounter again.
CONSTANTS
  lpc = lpc
  lpp = lpp
  s1 = s1
  s2 = s2
  s3 = s3
  ski1 = ski1
  ski2 = ski2
  UseCases = {lpc, lpp}
  Observed = {lpc, lpp}
  Sessions = {s1, s2}
  Skis = {ski1, ski2}
  SkiOf <- OneDevice
  Counters = {1, 2}
  Contents <- FewKinds
  ReuseCounters = TRUE
  MaxWrites = 2
SPECIFICATION Spec
INVARIANTS
  OnlyOthersWaived
