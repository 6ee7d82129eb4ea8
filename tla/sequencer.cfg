SPECIFICATION Spec
CONSTANTS
  Songs = {"duet", "tied", "deep", "fast", "many"}
  Data <- MCData
  Orders <- MCOrders
  FSS_MAXTRACKS = 3
  FSS_TRACKCOUNT = 2
  FSS_TRACKSTACKSIZE = 3
  MaxOpens = 5
INVARIANTS
  TypeOK
  TracksAccounted
  DefinedWhileRoom
  VoicesOwned
  OneVoiceWhenTied
  NotesLast
PROPERTIES
  StealsLeast
  LoopsRepeat
  CallsReturn
CHECK_DEADLOCK FALSE
