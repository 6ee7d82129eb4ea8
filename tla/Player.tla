------------------------------- MODULE Player -------------------------------
(***************************************************************************)
(* What TKRPlayer promises to its clients: which song is on, whether it    *)
(* sounds, and that a seek is finished some time and then lets the music   *)
(* go on as it was.  Threads, buffers and the position are left out;       *)
(* TKRPlayerPromise.tla maps the engine to this, Document.tla is a client. *)
(***************************************************************************)
EXTENDS Sequences

CONSTANTS
  Songs,   \* records with a file and a track
  None,    \* no file is open
  Patient  \* TRUE: clients keep to the contract of the engine

VARIABLES
  song,      \* what is open, or None
  sound,     \* what isPlaying and isStopped say: "ended" is a track that came
             \* to its end and that nobody has asked about since
  starting,  \* a play, or the end of a seek, is about to start the sound
  seeks,     \* the seeks asked for, each TRUE if music was on and is to go on
  moving,    \* the first of them is moving about in the song
  finished   \* seeks of which the end is to be told

vars == <<song, sound, starting, seeks, moving, finished>>

seeking == <<seeks, moving, finished>>

Outstanding == seeks # <<>> \/ finished # <<>>

Init == /\ song = None /\ sound = "stopped" /\ starting = FALSE
        /\ seeks = <<>> /\ moving = FALSE /\ finished = <<>>

\* openFile: and close: they have stopped the sound.
Choose(s) ==
  /\ ~starting /\ sound = "stopped"
  /\ Patient => ~Outstanding
  /\ song' = s /\ UNCHANGED <<sound, starting, seeking>>

\* setCurrentTrack: goes on sounding, if it does.
SetTrack(s) ==
  /\ ~starting /\ song # None /\ s.file = song.file
  /\ Patient => ~Outstanding /\ sound # "playing"
  /\ song' = s /\ UNCHANGED <<sound, starting, seeking>>

Play ==
  /\ ~starting /\ song # None /\ ~moving
  /\ Patient => ~Outstanding
  /\ starting' = TRUE /\ UNCHANGED <<song, sound, seeking>>

Starts ==
  /\ starting /\ starting' = FALSE
  /\ sound' = "playing" /\ UNCHANGED <<song, seeking>>

Pause ==
  /\ ~starting
  /\ sound' = IF sound \in {"playing", "paused"} THEN "paused" ELSE "stopped"
  /\ UNCHANGED <<song, starting, seeking>>

\* stop, and what openFile: and close begin with.
Stop ==
  /\ ~starting
  /\ sound' = "stopped" /\ UNCHANGED <<song, starting, seeking>>

\* The track comes to its end.
Ends ==
  /\ song # None
  /\ \/ sound = "playing" /\ sound' = "ended"
     \/ sound = "paused" /\ sound' = "stopped"
  /\ UNCHANGED <<song, starting, seeking>>

\* isPlaying
Asked ==
  /\ sound = "ended" /\ sound' = "stopped"
  /\ UNCHANGED <<song, starting, seeking>>

\* setPosition: stops the sound, for the time of the seek.
Seek ==
  /\ ~starting /\ ~moving
  /\ Patient => ~Outstanding
  /\ seeks' = Append(seeks, sound \in {"playing", "ended"})
  /\ sound' = "stopped" /\ UNCHANGED <<song, starting, moving, finished>>

SeekBegins ==
  /\ seeks # <<>> /\ ~moving
  /\ moving' = TRUE /\ UNCHANGED <<song, sound, starting, seeks, finished>>

SeekEnds ==
  /\ moving /\ moving' = FALSE
  /\ seeks' = Tail(seeks) /\ finished' = Append(finished, Head(seeks))
  /\ UNCHANGED <<song, sound, starting>>

\* The music goes on, if it was on, unless the seek went to the end.
SeekFinished ==
  /\ ~starting /\ finished # <<>> /\ finished' = Tail(finished)
  /\ \/ UNCHANGED starting
     \/ Head(finished) /\ song # None /\ ~moving /\ starting' = TRUE
  /\ UNCHANGED <<song, sound, seeks, moving>>

Next == \/ \E s \in Songs : Choose(s) \/ SetTrack(s)
        \/ Choose(None) \/ Play \/ Starts \/ Pause \/ Stop \/ Ends \/ Asked
        \/ Seek \/ SeekBegins \/ SeekEnds \/ SeekFinished

Fairness == /\ WF_vars(Starts) /\ WF_vars(SeekBegins) /\ WF_vars(SeekEnds)
            /\ SF_vars(SeekFinished)

Spec == Init /\ [][Next]_vars /\ Fairness
=============================================================================
