\* Three rules beside up to three lines of other programs and sockets of services.
CONSTANTS
  Keys <- MCKeys
  RandomIds = {}
  CustomChains = {ChainA, ChainB}
  Entry = "PMM"
  Lines <- MCLines
  Sockets <- MCSockets
  MaxThings = 3
  MaxDrift = 1
SYMMETRY Alike
SPECIFICATION DoctorSpec
INVARIANTS ConflictsAreReported NoSelfConflict 
PROPERTY CommitsAvoidOthers
