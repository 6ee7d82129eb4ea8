SPECIFICATION Spec
CONSTANTS
  Files = {"nsf", "usf"}
  Sources <- MCSources
  availablePlayers <- MCPlayers
  CanPlay <- MCCanPlay
  TrackSources <- MCTrackSources
  Endless <- MCEndless
  Tracks = {0}
  Length = 2
  NumBuffers = 2
  MaxSeeks = 1
  Patient = FALSE
  NoEmu = NoEmu
INVARIANTS
  BuffersCirculate
PROPERTIES
  MainReturns
  KeepsPromise
