-------------------------- MODULE TKRPlayerPromise --------------------------
(***************************************************************************)
(* The engine of TKRPlayer.tla keeps the promise of Player.tla: what a     *)
(* client sees of it, read off the variables of TKRPlayer.m.               *)
(***************************************************************************)
EXTENDS TKRPlayer

ASSUME NoSongAssumption == NoEmu \notin [file : Files, track : Tracks]

\* _emu, with the file and the track it has open.
SongOf(e) == IF e = NoEmu THEN NoEmu ELSE [file |-> e.file, track |-> e.track]

\* _isPlaying and _player.isStopped
SoundOf(playing, stopped) ==
  IF playing THEN IF stopped THEN "ended" ELSE "playing"
             ELSE IF stopped THEN "stopped" ELSE "paused"

\* The first lines of play, up to _isPlaying = true.
StartingOf == main.at \in {"rewind", "arm"}

\* The seeks on _seekQueue, and behind them the one setPosition: is about to
\* dispatch.
InMethod == IF main.at = "stopping" THEN main.then ELSE main

SeeksOf == [i \in DOMAIN seekQueue |-> seekQueue[i].resume]
             \o (IF InMethod.at = "seek" THEN <<InMethod.resume>> ELSE <<>>)

Promised == INSTANCE Player WITH
  Songs <- [file : Files, track : Tracks], None <- NoEmu,
  song <- SongOf(emu), sound <- SoundOf(isPlaying, isStopped), starting <- StartingOf,
  seeks <- SeeksOf, moving <- isSeeking, finished <- mainQueue

\* The engine implements the player: with its threads, its buffers and its
\* queues (TKRPlayer.m:125-402) a file is changed only when nothing sounds, the
\* sound starts only when somebody asked for it, and every seek is finished, in
\* its turn, and resumes what it interrupted.
KeepsPromise == Promised!Spec

\* The steps of the promise, without what it says must happen some time.
KeepsStepwise == Promised!Init /\ [][Promised!Next]_(Promised!vars)
=============================================================================
