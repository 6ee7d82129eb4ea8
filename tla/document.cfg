SPECIFICATION Spec
CONSTANTS
  Directory <- MCDirectory
  canPlay <- MCcanPlay
  numTracks <- MCnumTracks
  MaxSeeks = 2
  None = None
INVARIANTS
  ButtonsMatch
PROPERTIES
  ButtonReturns
  PlaysOn
CHECK_DEADLOCK FALSE
