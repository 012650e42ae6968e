\* All calls under a failure, an interrupt and a crash.
CONSTANTS
  Keys <- MCKeys
  RandomIds = {}
  Chains = {g1, g2, g3, g4, g5}
  Targets <- MCTargets
  Budget <- Everything
SYMMETRY Symmetric
SPECIFICATION Spec
PROPERTIES AtomicUntilInterrupt KeepsContract NoLitter CallsAdvance
