SPECIFICATION Spec
CONSTANTS
  Classes = {"AOPSF"}
  Length = 12
  LoopStart = 3
  LoopEnd = 10
  Size = 2
  bufferSize = 5
  Millisecond = 3
  BUFFER_SIZE = 32
  Bursts = {1, 2}
  MaxPosition = 16
INVARIANT PositionTrueAOPSF
