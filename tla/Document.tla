------------------------------ MODULE Document ------------------------------
(***************************************************************************)
(* A document of MiniVGMPlayer (src/VGMPlayer/MiniVGMPlayer/Document.m)    *)
(* with its window, the space bar and the media keys, as a client of the   *)
(* player.  It does not keep to the player's contract: it is composed with *)
(* Player for any client.  A handler that calls the player several times   *)
(* is several steps, between which the seek queue and the sound go on.     *)
(*                                                                         *)
(* Left out: the playhead, the times shown, volume and speed; files that   *)
(* fail to open, and a directory that changes, for what AppKit makes of    *)
(* the URL that is then nil is not in this code.                           *)
(***************************************************************************)
EXTENDS Integers, Sequences, SequencesExt

CONSTANTS
  Directory,  \* the files of the directory, in their order
  canPlay,    \* those the player can play
  numTracks,  \* numTracks[f]
  MaxSeeks,   \* bound on the seeks outstanding
  None

ASSUME DocumentAssumption ==
  /\ Directory \in Seq(ToSet(Directory))
  /\ canPlay \subseteq ToSet(Directory) /\ None \notin canPlay
  /\ numTracks \in [canPlay -> Nat \ {0}] /\ MaxSeeks \in Nat

VARIABLES
  song, sound, starting, seeks, moving, finished,  \* of Player
  fileURL,
  buttons,  \* is the button enabled?
  doing     \* the handler that runs, with what it still needs

Songs == {s \in [file : canPlay, track : Nat] : s.track < numTracks[s.file]}

ASSUME NoSongAssumption == None \notin Songs

P == INSTANCE Player WITH Patient <- FALSE

view == <<fileURL, buttons, doing>>
vars == <<song, sound, starting, seeks, moving, finished, view>>

Idle == [at |-> "idle"]

\* The main thread is in its run loop, and the document is open.
AtRest == doing = Idle /\ ~starting

-----------------------------------------------------------------------------
(* The files around one, and the buttons.                                  *)

At(f) == CHOOSE i \in DOMAIN Directory : Directory[i] = f

Later(f) == {i \in DOMAIN Directory : i > At(f) /\ Directory[i] \in canPlay}
Earlier(f) == {i \in DOMAIN Directory : i < At(f) /\ Directory[i] \in canPlay}

getNextFile(f) ==
  IF Later(f) = {} THEN None
  ELSE Directory[CHOOSE i \in Later(f) : \A j \in Later(f) : i <= j]

getPreviousFile(f) ==
  IF Earlier(f) = {} THEN None
  ELSE Directory[CHOOSE i \in Earlier(f) : \A j \in Earlier(f) : j <= i]

\* Slip: tracks counted from one.
HasNextTrack_FromOne(s) == numTracks[s.file] > 1 /\ s.track < numTracks[s.file]

HasNextTrack(s) == numTracks[s.file] > 1 /\ s.track < numTracks[s.file] - 1
HasPreviousTrack(s) == numTracks[s.file] > 1 /\ s.track > 0

\* updatePrevNext
updatePrevNext(s, url) ==
  buttons' = [buttons EXCEPT
    !.previous = (numTracks[s.file] = 1 /\ getPreviousFile(url) # None) \/ HasPreviousTrack(s),
    !.next = (numTracks[s.file] = 1 /\ getNextFile(url) # None) \/ HasNextTrack(s)]

-----------------------------------------------------------------------------
(* Opening a file.                                                         *)

Init ==
  /\ P!Init
  /\ fileURL = None /\ doing = Idle
  /\ buttons = [previous |-> FALSE, next |-> FALSE, playPause |-> TRUE]

\* readFromURL:ofType:error: up to the call of openFile:
readFromURL(f) ==
  /\ P!Stop
  /\ doing' = [at |-> "opening", file |-> f, wasPlaying |-> sound = "playing"]
  /\ UNCHANGED <<fileURL, buttons>>

\* AppKit opens the document's file, and reads it again for a revert.
Open(f) == AtRest /\ fileURL \in {None, f} /\ readFromURL(f)

\* Slip: isPlaying is asked after the player was stopped.
Opened_AskedLate ==
  /\ doing.at = "opening"
  /\ P!Choose([file |-> doing.file, track |-> 0])
  /\ fileURL' = doing.file /\ updatePrevNext(song', fileURL')
  /\ doing' = IF sound = "playing" THEN [at |-> "playing"] ELSE Idle

\* openFile:error: returns, and setFileURL: brings the buttons up to date.
Opened ==
  /\ doing.at = "opening"
  /\ P!Choose([file |-> doing.file, track |-> 0])
  /\ fileURL' = doing.file /\ updatePrevNext(song', fileURL')
  /\ doing' = IF doing.wasPlaying THEN [at |-> "playing"] ELSE Idle

\* The play that readFromURL: ends with: refused while a seek is moving.
PlayedOn ==
  /\ doing.at = "playing" /\ doing' = Idle
  /\ \/ P!Play
     \/ moving /\ UNCHANGED <<song, sound, starting, seeks, moving, finished>>
  /\ UNCHANGED <<fileURL, buttons>>

-----------------------------------------------------------------------------
(* The buttons and keys.                                                   *)

\* The media keys look at whether the button is enabled, too.
goNext ==
  /\ AtRest /\ buttons.next
  /\ \/ /\ HasNextTrack(song)
        /\ P!SetTrack([song EXCEPT !.track = @ + 1])
        /\ updatePrevNext(song', fileURL) /\ UNCHANGED <<fileURL, doing>>
     \/ ~HasNextTrack(song) /\ readFromURL(getNextFile(fileURL))

goPrevious ==
  /\ AtRest /\ buttons.previous
  /\ \/ /\ HasPreviousTrack(song)
        /\ P!SetTrack([song EXCEPT !.track = @ - 1])
        /\ updatePrevNext(song', fileURL) /\ UNCHANGED <<fileURL, doing>>
     \/ ~HasPreviousTrack(song) /\ readFromURL(getPreviousFile(fileURL))

\* playPause: by the button when it is enabled, by the space bar and the media
\* key at any time.  It asks isPlaying first, hence the P!Asked of TrackEnded.
playPause ==
  /\ AtRest
  /\ \/ sound = "playing" /\ P!Pause
     \/ sound \in {"paused", "stopped"} /\ P!Play
  /\ UNCHANGED view

\* movedPlayhead: and the notification VGMStartedSeeking.
movedPlayhead ==
  /\ AtRest /\ song # None /\ Len(seeks) + Len(finished) < MaxSeeks
  /\ P!Seek
  /\ buttons' = [buttons EXCEPT !.playPause = FALSE]
  /\ UNCHANGED <<fileURL, doing>>

close ==
  /\ AtRest /\ fileURL # None
  /\ P!Stop /\ doing' = [at |-> "closed"] /\ UNCHANGED <<fileURL, buttons>>

-----------------------------------------------------------------------------
(* The player's own steps.                                                 *)

\* Slip: the notification enables the button only when the music goes on.
SeekFinished_Resumed ==
  /\ doing.at \in {"idle", "closed"}
  /\ P!SeekFinished
  /\ buttons' = [buttons EXCEPT !.playPause = Head(finished)]
  /\ UNCHANGED <<fileURL, doing>>

\* VGMFinishedSeeking is posted before the music goes on.
SeekFinished ==
  /\ doing.at \in {"idle", "closed"}
  /\ P!SeekFinished
  /\ buttons' = [buttons EXCEPT !.playPause = TRUE]
  /\ UNCHANGED <<fileURL, doing>>

\* The track ends; the handler of VGMStoppedPlaying asks isPlaying.
TrackEnded == (P!Ends \/ P!Asked) /\ UNCHANGED view

Starts == P!Starts /\ UNCHANGED view
SeekMoves == (P!SeekBegins \/ P!SeekEnds) /\ UNCHANGED view

Next ==
  \/ \E f \in canPlay : Open(f)
  \/ Opened \/ PlayedOn \/ goNext \/ goPrevious \/ playPause \/ movedPlayhead \/ close
  \/ SeekFinished \/ TrackEnded \/ Starts \/ SeekMoves

\* What Player promises, and handlers that go on once they have begun.  Nobody
\* has to press a button.
Fairness == /\ WF_vars(Starts) /\ WF_vars(SeekMoves) /\ SF_vars(SeekFinished)
            /\ WF_vars(Opened) /\ WF_vars(PlayedOn)

Spec == Init /\ [][Next]_vars /\ Fairness

-----------------------------------------------------------------------------
(* Properties.                                                             *)

\* updatePrevNext is called wherever it has to be (Document.m:124-144): with
\* no handler running the document names the file the player has open, and the
\* buttons are enabled exactly if the track, the number of tracks and the
\* neighbours of that file as they are now give something to go to.
ButtonsMatch ==
  doing = Idle /\ song # None =>
    /\ fileURL = song.file
    /\ buttons.next <=> \/ song.track + 1 < numTracks[song.file]
                        \/ numTracks[song.file] = 1 /\ Later(song.file) # {}
    /\ buttons.previous <=> \/ song.track > 0
                            \/ numTracks[song.file] = 1 /\ Earlier(song.file) # {}

\* The play button, disabled for a seek, is enabled again, whatever is pressed,
\* opened or sought in between (Document.m:214-225).
ButtonReturns == ~buttons.playPause ~> buttons.playPause

\* Music that plays when another file is chosen, with no seek under way, goes
\* on with that file (Document.m:91-122).
PlaysOn ==
  doing.at = "opening" /\ doing.wasPlaying /\ seeks = <<>> /\ finished = <<>>
    ~> sound = "playing"

=============================================================================
