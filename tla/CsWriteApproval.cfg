\* One device connects twice and starts its msgCounter again, another may be
\* connected at the same time.
CONSTANTS
  lpc = lpc
  lpp = lpp
  s1 = s1
  s2 = s2
  s3 = s3
  ski1 = ski1
  ski2 = ski2
  UseCases = {lpc, lpp}
  Observed = {lpc, lpp}
  Sessions = {s1, s2, s3}
  Skis = {ski1, ski2}
  SkiOf <- TwoDevices
  Counters = {1, 2}
  Contents <- MainKinds
  ReuseCounters = TRUE
  MaxWrites = 2
SYMMETRY Interchangeable
SPECIFICATION Spec
INVARIANTS
  TypeOK
  AppliedWithConsent
  RefusedNotApplied
  NoLostWrite
  EachAnswersOnce
  IInv
