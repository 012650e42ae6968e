\* Updates side by side, one failing file operation and one kill.
CONSTANTS
  Pids = {p1, p2}
  Releases = {v1, v2}
  Damaged = damaged
  Nothing = nothing
  Budget <- OneOfEach
SYMMETRY Symmetric
SPECIFICATION Spec
INVARIANTS InstalledIsVerified BinarySurvivesRaces
PROPERTY UpdateIsAtomic
