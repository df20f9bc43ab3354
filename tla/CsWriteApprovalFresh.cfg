\* Counters never come again: the abstract specification and liveness.
CONSTANTS
  lpc = lpc
  lpp = lpp
  s1 = s1
  s2 = s2
  s3 = s3
  ski1 = ski1
  ski2 = ski2
  UseCases = {lpc, lpp}
  Observed = {lpc, lpp}
  Sessions = {s1, s2}
  Skis = {ski1, ski2}
  SkiOf <- OneDevice
  Counters = {1, 2}
  Contents <- FewKinds
  ReuseCounters = FALSE
  MaxWrites = 2
SPECIFICATION FairSpec
PROPERTIES
  ImplementsWriteConsent
  EveryWriteDecided
