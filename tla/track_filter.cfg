SPECIFICATION Spec
CONSTANTS
  Songs = {"pauses", "dies", "mute", "clicks", "loop"}
  Sound <- MCSound
  Loops = {"loop", "mute"}
  buf_size = 4
  max_initial = 12
  max_silence = 10
  lookahead = 3
  Counts = {2, 6, 10}
  Targets = {0, 4, 10, 14, 26, 40}
  MaxTime = 90
  MaxSeeks = 4
INVARIANTS
  TimesAgree
  InStep
  EndsForAReason
PROPERTY
  TrackEnds
CHECK_DEADLOCK FALSE
