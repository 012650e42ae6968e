\* Every sequence of edits over six keys and one random identifier.
CONSTANTS
  Keys <- MCKeys
  RandomIds = {r1}
  KeySets <- MCKeySets
SPECIFICATION EditorSpec
INVARIANTS OnePortOneRule ExportImports FreePortsCanBeAdded
