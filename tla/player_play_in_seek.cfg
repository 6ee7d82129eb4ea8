SPECIFICATION Spec
CONSTANTS
  Files = {"nsf", "usf", "txt"}
  Sources <- MCSources
  availablePlayers <- MCPlayers
  CanPlay <- MCCanPlay
  TrackSources <- MCTrackSources
  Endless <- MCEndless
  Tracks = {0, 1}
  Length = 4
  NumBuffers = 3
  MaxSeeks = 1
  Patient = FALSE
  NoEmu = NoEmu
INVARIANT SeekExcludesPlay
