--------------------------- MODULE DocumentProofs ---------------------------
(***************************************************************************)
(* The document's buttons, for any directory and any numbers of tracks,    *)
(* whatever is pressed while seeks are under way.                          *)
(***************************************************************************)
EXTENDS Document, SequenceLemmas

LEMMA Constants ==
  /\ Directory \in Seq(ToSet(Directory)) /\ None \notin canPlay
  /\ \A f \in canPlay : numTracks[f] \in Nat \ {0}
BY DocumentAssumption

\* The files around one are found in the directory, if there are any.
LEMMA Neighbours ==
  ASSUME NEW f
  PROVE  /\ Later(f) # {} => getNextFile(f) \in canPlay
         /\ Later(f) = {} => getNextFile(f) = None
         /\ Earlier(f) # {} => getPreviousFile(f) \in canPlay
         /\ Earlier(f) = {} => getPreviousFile(f) = None
<1>1. Len(Directory) \in Nat /\ DOMAIN Directory = 1 .. Len(Directory)
  BY Constants
<1>2. Later(f) \in SUBSET Nat /\ Later(f) \in SUBSET (0 .. Len(Directory))
      /\ Earlier(f) \in SUBSET (0 .. Len(Directory))
  BY <1>1 DEF Later, Earlier
<1>3. ASSUME Later(f) # {} PROVE getNextFile(f) \in canPlay
  <2>1. \E i \in Later(f) : \A j \in Later(f) : i <= j
    BY <1>2, <1>3, LeastExists
  <2>2. (CHOOSE i \in Later(f) : \A j \in Later(f) : i <= j) \in Later(f)
    BY <2>1
  <2> QED
    BY <1>3, <2>2 DEF getNextFile, Later
<1>4. ASSUME Earlier(f) # {} PROVE getPreviousFile(f) \in canPlay
  <2>1. \E i \in Earlier(f) : \A j \in Earlier(f) : j <= i
    BY <1>1, <1>2, <1>4, GreatestExists
  <2>2. (CHOOSE i \in Earlier(f) : \A j \in Earlier(f) : j <= i) \in Earlier(f)
    BY <2>1
  <2> QED
    BY <1>4, <2>2 DEF getPreviousFile, Earlier
<1> QED
  BY <1>3, <1>4 DEF getNextFile, getPreviousFile

\* What the buttons are to be for a song.
Matches(b, s) ==
  /\ b.next <=> \/ s.track + 1 < numTracks[s.file]
                \/ numTracks[s.file] = 1 /\ Later(s.file) # {}
  /\ b.previous <=> \/ s.track > 0
                    \/ numTracks[s.file] = 1 /\ Earlier(s.file) # {}

Handlers ==
  {Idle, [at |-> "playing"], [at |-> "closed"]}
    \cup [at : {"opening"}, file : canPlay, wasPlaying : BOOLEAN]

\* The buttons match the song whatever handler runs, and without a song there
\* is nothing to go to.
DocumentInv ==
  /\ song \in Songs \cup {None} /\ doing \in Handlers
  /\ buttons \in [previous : BOOLEAN, next : BOOLEAN, playPause : BOOLEAN]
  /\ IF song = None THEN fileURL = None /\ ~buttons.next /\ ~buttons.previous
     ELSE fileURL = song.file /\ Matches(buttons, song)

LEMMA Updated ==
  ASSUME NEW s \in Songs,
         buttons \in [previous : BOOLEAN, next : BOOLEAN, playPause : BOOLEAN],
         updatePrevNext(s, s.file)
  PROVE  /\ buttons' \in [previous : BOOLEAN, next : BOOLEAN, playPause : BOOLEAN]
         /\ Matches(buttons', s)
<1> DEFINE prev == (numTracks[s.file] = 1 /\ getPreviousFile(s.file) # None) \/ HasPreviousTrack(s)
           next == (numTracks[s.file] = 1 /\ getNextFile(s.file) # None) \/ HasNextTrack(s)
<1>1. buttons' = [buttons EXCEPT !.previous = prev, !.next = next]
  BY DEF updatePrevNext
<1>2. /\ s.file \in canPlay /\ s.track \in Nat /\ s.track < numTracks[s.file]
      /\ numTracks[s.file] \in Nat \ {0}
  BY Constants DEF Songs
<1>3. /\ getNextFile(s.file) # None <=> Later(s.file) # {}
      /\ getPreviousFile(s.file) # None <=> Earlier(s.file) # {}
  BY Constants, Neighbours
<1>4. prev <=> s.track > 0 \/ (numTracks[s.file] = 1 /\ Earlier(s.file) # {})
  BY <1>2, <1>3 DEF HasPreviousTrack
<1>5. next <=> s.track + 1 < numTracks[s.file] \/ (numTracks[s.file] = 1 /\ Later(s.file) # {})
  BY <1>2, <1>3 DEF HasNextTrack
<1>6. prev \in BOOLEAN /\ next \in BOOLEAN
  OBVIOUS
<1> HIDE DEF prev, next
<1>7. buttons'.previous = prev /\ buttons'.next = next
      /\ buttons' \in [previous : BOOLEAN, next : BOOLEAN, playPause : BOOLEAN]
  BY <1>1, <1>6
<1> QED
  BY <1>4, <1>5, <1>7 DEF Matches

\* What the player does to its song.
LEMMA PlayerSongs ==
  /\ P!Stop \/ P!Play \/ P!Pause \/ P!Seek \/ P!SeekFinished \/ P!Ends \/ P!Asked \/ P!Starts
       \/ P!SeekBegins \/ P!SeekEnds => UNCHANGED song
  /\ \A s : P!Choose(s) => song' = s
  /\ \A s : P!SetTrack(s) => song' = s /\ song # None /\ s.file = song.file
BY DEF P!Stop, P!Play, P!Pause, P!Seek, P!SeekFinished, P!Ends, P!Asked, P!Starts,
       P!SeekBegins, P!SeekEnds, P!Choose, P!SetTrack

\* A button that is enabled leads to a track of the song's file or to another
\* file that can be played.
LEMMA ButtonLeads ==
  ASSUME DocumentInv
  PROVE  /\ buttons.next => song # None
         /\ buttons.previous => song # None
         /\ buttons.next /\ HasNextTrack(song) => [song EXCEPT !.track = song.track + 1] \in Songs
         /\ buttons.next /\ ~HasNextTrack(song) => getNextFile(fileURL) \in canPlay
         /\ buttons.previous /\ HasPreviousTrack(song) => [song EXCEPT !.track = song.track - 1] \in Songs
         /\ buttons.previous /\ ~HasPreviousTrack(song) => getPreviousFile(fileURL) \in canPlay
<1>1. (buttons.next => song # None) /\ (buttons.previous => song # None)
  BY DEF DocumentInv
<1>2. SUFFICES ASSUME song # None
               PROVE  /\ HasNextTrack(song) => [song EXCEPT !.track = song.track + 1] \in Songs
                      /\ buttons.next /\ ~HasNextTrack(song) => getNextFile(fileURL) \in canPlay
                      /\ HasPreviousTrack(song) => [song EXCEPT !.track = song.track - 1] \in Songs
                      /\ buttons.previous /\ ~HasPreviousTrack(song) => getPreviousFile(fileURL) \in canPlay
  BY <1>1
<1>3. /\ song \in Songs /\ fileURL = song.file /\ Matches(buttons, song)
      /\ song \in [file : canPlay, track : Nat] /\ song.track < numTracks[song.file]
      /\ song.file \in canPlay /\ song.track \in Nat /\ numTracks[song.file] \in Nat \ {0}
  BY <1>2, Constants DEF DocumentInv, Songs
<1>4. ASSUME NEW n \in Nat, n < numTracks[song.file] PROVE [song EXCEPT !.track = n] \in Songs
  BY <1>3, <1>4 DEF Songs
<1>5. HasNextTrack(song) => [song EXCEPT !.track = song.track + 1] \in Songs
  <2> SUFFICES ASSUME HasNextTrack(song) PROVE [song EXCEPT !.track = song.track + 1] \in Songs
    OBVIOUS
  <2>1. song.track + 1 \in Nat /\ song.track + 1 < numTracks[song.file]
    BY <1>3 DEF HasNextTrack
  <2> QED
    BY <1>4, <2>1
<1>6. HasPreviousTrack(song) => [song EXCEPT !.track = song.track - 1] \in Songs
  <2> SUFFICES ASSUME HasPreviousTrack(song) PROVE [song EXCEPT !.track = song.track - 1] \in Songs
    OBVIOUS
  <2>1. song.track - 1 \in Nat /\ song.track - 1 < numTracks[song.file]
    BY <1>3 DEF HasPreviousTrack
  <2> QED
    BY <1>4, <2>1
<1>7. buttons.next /\ ~HasNextTrack(song) => Later(song.file) # {}
  BY <1>3 DEF HasNextTrack, Matches
<1>8. buttons.previous /\ ~HasPreviousTrack(song) => Earlier(song.file) # {}
  BY <1>3 DEF HasPreviousTrack, Matches
<1> QED
  BY <1>3, <1>5, <1>6, <1>7, <1>8, Neighbours

LEMMA Reads ==
  ASSUME DocumentInv, NEW f \in canPlay, readFromURL(f)
  PROVE  DocumentInv'
<1>1. UNCHANGED <<song, fileURL, buttons>>
  BY PlayerSongs DEF readFromURL
<1>2. doing' \in Handlers
  BY DEF readFromURL, Handlers
<1> QED
  BY <1>1, <1>2 DEF DocumentInv, Matches, Songs

\* A song that was chosen, with the buttons brought up to date.
LEMMA Chosen ==
  ASSUME DocumentInv, NEW s \in Songs, song' = s, fileURL' = s.file, updatePrevNext(s, s.file),
         doing' \in Handlers
  PROVE  DocumentInv'
<1>1. /\ buttons' \in [previous : BOOLEAN, next : BOOLEAN, playPause : BOOLEAN]
      /\ Matches(buttons', s)
  BY Updated DEF DocumentInv
<1>2. song' \in Songs
  OBVIOUS
<1>3. song' # None
  BY NoSongAssumption
<1> QED
  BY <1>1, <1>2, <1>3 DEF DocumentInv, Matches, Songs

LEMMA DocumentInit == Init => DocumentInv
BY DEF Init, P!Init, DocumentInv, Handlers

LEMMA Buttons ==
  ASSUME DocumentInv, goNext \/ goPrevious
  PROVE  DocumentInv'
<1>1. DocumentInv /\ doing = Idle /\ Idle \in Handlers
  BY DEF goNext, goPrevious, AtRest, Handlers
<1>2. CASE goNext
  <2>1. buttons.next /\ song # None
    BY <1>2, ButtonLeads DEF goNext
  <2>2. CASE HasNextTrack(song) /\ P!SetTrack([song EXCEPT !.track = @ + 1])
             /\ updatePrevNext(song', fileURL) /\ UNCHANGED <<fileURL, doing>>
    <3> DEFINE s == [song EXCEPT !.track = song.track + 1]
    <3>1. s \in Songs
      BY <2>1, <2>2, ButtonLeads
    <3>2. song' = s /\ s.file = song.file
      BY <2>2, PlayerSongs
    <3>3. fileURL' = s.file /\ updatePrevNext(s, s.file) /\ doing' \in Handlers
      BY <1>1, <2>1, <2>2, <3>2 DEF DocumentInv
    <3> HIDE DEF s
    <3> QED
      BY <3>1, <3>2, <3>3, Chosen
  <2>3. CASE ~HasNextTrack(song) /\ readFromURL(getNextFile(fileURL))
    BY <2>1, <2>3, ButtonLeads, Reads
  <2> QED
    BY <1>2, <2>2, <2>3 DEF goNext
<1>3. CASE goPrevious
  <2>1. buttons.previous /\ song # None
    BY <1>3, ButtonLeads DEF goPrevious
  <2>2. CASE HasPreviousTrack(song) /\ P!SetTrack([song EXCEPT !.track = @ - 1])
             /\ updatePrevNext(song', fileURL) /\ UNCHANGED <<fileURL, doing>>
    <3> DEFINE s == [song EXCEPT !.track = song.track - 1]
    <3>1. s \in Songs
      BY <2>1, <2>2, ButtonLeads
    <3>2. song' = s /\ s.file = song.file
      BY <2>2, PlayerSongs
    <3>3. fileURL' = s.file /\ updatePrevNext(s, s.file) /\ doing' \in Handlers
      BY <1>1, <2>1, <2>2, <3>2 DEF DocumentInv
    <3> HIDE DEF s
    <3> QED
      BY <3>1, <3>2, <3>3, Chosen
  <2>3. CASE ~HasPreviousTrack(song) /\ readFromURL(getPreviousFile(fileURL))
    BY <2>1, <2>3, ButtonLeads, Reads
  <2> QED
    BY <1>3, <2>2, <2>3 DEF goPrevious
<1> QED
  BY <1>2, <1>3

LEMMA FileOpens ==
  ASSUME DocumentInv, Opened
  PROVE  [file |-> doing.file, track |-> 0] \in Songs /\ DocumentInv'
<1> DEFINE s == [file |-> doing.file, track |-> 0]
<1>1. doing.at = "opening" /\ doing \in Handlers
  BY DEF Opened, DocumentInv
<1>2. doing \in [at : {"opening"}, file : canPlay, wasPlaying : BOOLEAN]
  BY <1>1 DEF Handlers, Idle
<1>3. doing.file \in canPlay /\ 0 < numTracks[doing.file]
  BY <1>2, Constants
<1>4. s \in Songs
  BY <1>3 DEF Songs
<1>5. /\ song' = s /\ fileURL' = s.file /\ updatePrevNext(s, s.file)
      /\ doing' \in Handlers
  BY PlayerSongs DEF Opened, Handlers
<1> HIDE DEF s
<1>6. DocumentInv'
  BY <1>4, <1>5, Chosen
<1> QED
  BY <1>4, <1>6 DEF s

\* The handlers that leave the song alone.
LEMMA SongStays ==
  ASSUME DocumentInv, UNCHANGED <<song, fileURL>>, doing' \in Handlers,
         buttons' = buttons \/ \E b \in BOOLEAN : buttons' = [buttons EXCEPT !.playPause = b]
  PROVE  DocumentInv'
<1>1. /\ buttons' \in [previous : BOOLEAN, next : BOOLEAN, playPause : BOOLEAN]
      /\ buttons'.next = buttons.next /\ buttons'.previous = buttons.previous
  BY DEF DocumentInv
<1> QED
  BY <1>1 DEF DocumentInv, Matches, Songs

LEMMA DocumentStep == DocumentInv /\ [Next]_vars => DocumentInv'
<1> SUFFICES ASSUME DocumentInv, [Next]_vars PROVE DocumentInv'
  OBVIOUS
<1>1. doing \in Handlers
  BY DEF DocumentInv
<1>2. CASE UNCHANGED vars
  BY <1>1, <1>2, SongStays DEF vars, view
<1>3. CASE \E f \in canPlay : Open(f)
  BY <1>3, Reads DEF Open
<1>4. CASE Opened
  BY <1>4, FileOpens
<1>5. CASE PlayedOn
  BY <1>5, PlayerSongs, SongStays DEF PlayedOn, Handlers
<1>6. CASE goNext \/ goPrevious
  BY <1>6, Buttons
<1>7. CASE playPause
  BY <1>1, <1>7, PlayerSongs, SongStays DEF playPause, view
<1>8. CASE movedPlayhead
  BY <1>1, <1>8, PlayerSongs, SongStays DEF movedPlayhead
<1>9. CASE close
  BY <1>9, PlayerSongs, SongStays DEF close, Handlers
<1>10. CASE SeekFinished
  BY <1>1, <1>10, PlayerSongs, SongStays DEF SeekFinished
<1>11. CASE TrackEnded \/ Starts \/ SeekMoves
  BY <1>1, <1>11, PlayerSongs, SongStays DEF TrackEnded, Starts, SeekMoves, view
<1> QED
  BY <1>2, <1>3, <1>4, <1>5, <1>6, <1>7, <1>8, <1>9, <1>10, <1>11 DEF Next

\* The buttons are brought up to date wherever they have to be
\* (Document.m:124-144), in every directory.
THEOREM ButtonsRight == Spec => []ButtonsMatch
<1>1. DocumentInv => ButtonsMatch
  BY DEF DocumentInv, Matches, ButtonsMatch
<1> QED
  BY <1>1, DocumentInit, DocumentStep, PTL DEF Spec

\* The document calls the player only as the player lets itself be called: for
\* files it can play, for tracks that the open file has (Document.m:152-205),
\* and when no other call is under way.
THEOREM Calls == Spec => P!Init /\ [][P!Next]_(P!vars)
<1>1. Init => P!Init
  BY DEF Init
<1>2. DocumentInv /\ [Next]_vars => [P!Next]_(P!vars)
  <2> SUFFICES ASSUME DocumentInv, [Next]_vars PROVE [P!Next]_(P!vars)
    OBVIOUS
  <2>1. CASE \/ P!Stop \/ P!Play \/ P!Pause \/ P!Seek \/ P!SeekFinished \/ P!Ends \/ P!Asked
             \/ P!Starts \/ P!SeekBegins \/ P!SeekEnds
             \/ \E s \in Songs : P!Choose(s) \/ P!SetTrack(s)
    BY <2>1 DEF P!Next
  <2>2. CASE UNCHANGED <<song, sound, starting, seeks, moving, finished>>
    BY <2>2 DEF P!vars
  <2>3. CASE Opened
    BY <2>1, <2>3, FileOpens DEF Opened
  <2>4. CASE goNext
    BY <2>1, <2>4, ButtonLeads DEF goNext, readFromURL
  <2>5. CASE goPrevious
    BY <2>1, <2>5, ButtonLeads DEF goPrevious, readFromURL
  <2>6. CASE PlayedOn
    BY <2>1, <2>2, <2>6 DEF PlayedOn
  <2>7. CASE \/ \E f \in canPlay : Open(f)
             \/ playPause \/ movedPlayhead \/ close \/ SeekFinished \/ TrackEnded \/ Starts \/ SeekMoves
    BY <2>1, <2>7 DEF Open, readFromURL, playPause, movedPlayhead, close, SeekFinished, TrackEnded,
                      Starts, SeekMoves
  <2>8. CASE UNCHANGED vars
    BY <2>2, <2>8 DEF vars
  <2> QED
    BY <2>3, <2>4, <2>5, <2>6, <2>7, <2>8 DEF Next
<1> QED
  BY <1>1, <1>2, DocumentInit, DocumentStep, PTL DEF Spec

==============================================================================
