\* A session over two rules, its monitor, and two generations of the chain it watches.
CONSTANTS
  Word = 16
  Sizes = {1, 2}
  MaxPackets = 3
  MaxGens = 2
  MaxCount = 2
  RuleIds = {1, 2}
  MaxBackups = 1
SPECIFICATION Spec
INVARIANT RatesAreHonest
PROPERTIES SessionEnds LossIsConfirmed InterruptedOnlyFinishes
