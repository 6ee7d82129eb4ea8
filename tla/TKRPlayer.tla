------------------------------ MODULE TKRPlayer ------------------------------
(***************************************************************************)
(* The playback engine of TKRPlayer.m.  Three threads meet in it:          *)
(*                                                                         *)
(*   main   the caller of openFile:, play, pause, stop, setPosition: ...   *)
(*          and of the blocks sent to the main dispatch queue;             *)
(*   audio  the thread of the AudioQueue, which hands every buffer it has  *)
(*          played to AQCallbackFunction to be filled again;               *)
(*   seek   the serial dispatch queue _seekQueue, which runs the (slow)    *)
(*          setPosition: of the emulator.                                  *)
(*                                                                         *)
(* They share one data source, _emu, and no lock.  A call into it is two   *)
(* steps, one that enters and one that leaves, so that two threads inside  *)
(* the same object is a state.  Audio is counted in chunks, a chunk being  *)
(* what fills one buffer (0.1 s).                                          *)
(*                                                                         *)
(* The AudioQueue (Apple's AudioToolbox) is external: a FIFO of buffers    *)
(* that is stopped, running, paused or draining (an asynchronous stop:     *)
(* what is queued is still played).                                        *)
(***************************************************************************)
EXTENDS Integers, Sequences, FiniteSets

CONSTANTS
  Files,            \* the files a client may open
  Sources,          \* the data source classes
  availablePlayers, \* the order in which openFile: asks them
  CanPlay,          \* CanPlay[c]: the files class c says it can play
  TrackSources,     \* the classes that have openFile:track: and setTrackNo:
  Endless,          \* the files whose data source never says trackHasEnded
  Tracks,           \* track numbers
  Length,           \* length of a track, in chunks
  NumBuffers,       \* NUM_PLAYBACK_BUFFERS
  MaxSeeks,         \* bound on the seeks dispatched and not yet finished
  Patient,          \* TRUE: clients wait before they call, see the Contract
  NoEmu             \* _emu = nil

ASSUME ConstantsAssumption ==
  /\ availablePlayers \in Seq(Sources)
  /\ CanPlay \in [Sources -> SUBSET Files]
  /\ TrackSources \subseteq Sources
  /\ Endless \subseteq Files
  /\ 0 \in Tracks /\ Tracks \subseteq Nat
  /\ Length \in Nat \ {0}
  /\ NumBuffers \in Nat \ {0}
  /\ MaxSeeks \in Nat
  /\ Patient \in BOOLEAN

Buffers == 1 .. NumBuffers
Position == 0 .. Length

Emus == [class : Sources, file : Files, track : Tracks, pos : Position]

ASSUME NoEmuAssumption == NoEmu \notin Emus

\* What a buffer holds: the data source as it was when it rendered the chunk.
Chunks == [buf : Buffers, src : Emus \cup {NoEmu}]

VARIABLES
  emu,        \* _emu
  inside,     \* the threads inside a method of the object _emu now points to
              \* that runs the emulator; a getter only reads and is not entered
  isPlaying,  \* _isPlaying
  isStopped,  \* _player.isStopped
  isSeeking,  \* _isSeeking: the head block of _seekQueue is inside setPosition:
  seekQueue,  \* blocks dispatched to _seekQueue
  mainQueue,  \* blocks a finished seek dispatched to the main queue: play again?
  main,       \* where the main thread is, with what its method still needs
  audio,      \* where the audio thread is
  queue,      \* buffers enqueued and not yet played
  qstate,     \* state of the AudioQueue
  posted      \* the last of the notifications Started, Paused, Stopped

vars == <<emu, inside, isPlaying, isStopped, isSeeking, seekQueue, mainQueue,
          main, audio, queue, qstate, posted>>

engine == <<emu, inside>>
flags == <<isPlaying, isStopped>>
seeks == <<isSeeking, seekQueue, mainQueue>>
output == <<queue, qstate>>

Seeks == [pos : Position, resume : BOOLEAN]

\* What is left of a method that first calls stop.
AfterStop == [at : {"idle", "close"}]
               \cup [at : {"open"}, file : Files, track : Tracks]
               \cup [at : {"seek"}, pos : Position, resume : BOOLEAN]

MainStates == AfterStop
                \cup [at : {"rewind", "arm", "start"}]
                \cup [at : {"stopping"}, then : AfterStop]
                \cup [at : {"opening"}, file : Files, track : Tracks]
                \cup [at : {"fill", "render"}, buf : Buffers]
                \cup [at : {"track"}, track : Tracks]

AudioStates == [at : {"idle"}]
                 \cup [at : {"check", "render", "end"}, buf : Buffers]

Idle == [at |-> "idle"]

-----------------------------------------------------------------------------
(* The data source.                                                        *)

\* A looping track has no end: its position is kept modulo Length, which
\* bounds the model.
Wrap(f, p) == IF f \in Endless /\ p = Length THEN 0 ELSE p

Moved(e, p) == [e EXCEPT !.pos = Wrap(e.file, p)]

\* playIntoBuffer: renders one chunk.  After the end it renders nothing.
Advanced(e) == Moved(e, IF e.pos < Length THEN e.pos + 1 ELSE Length)

TrackHasEnded == emu # NoEmu /\ emu.file \notin Endless /\ emu.pos = Length

\* The class that openFile: is left with: the scan has no break, the last
\* class that can play the file wins.
LastToPlay(f, c) ==
  \E i \in DOMAIN availablePlayers :
    /\ c = availablePlayers[i] /\ f \in CanPlay[c]
    /\ \A j \in DOMAIN availablePlayers :
         j > i => f \notin CanPlay[availablePlayers[j]]

Enter(t) == inside' = inside \cup {t}
Leave(t) == inside' = inside \ {t}

\* Thread t leaves playIntoBuffer: and enqueues b.  The result of
\* AudioQueueEnqueueBuffer is not checked: a buffer that is already queued is
\* not queued twice.
RenderInto(t, b) ==
  /\ Leave(t)
  /\ emu' = IF t \in inside THEN Advanced(emu) ELSE emu
  /\ queue' = IF \E i \in DOMAIN queue : queue[i].buf = b
              THEN queue
              ELSE Append(queue, [buf |-> b,
                                  src |-> IF t \in inside THEN emu ELSE NoEmu])

\* AudioQueueStop(queue, false): what is queued is still played.
AsyncStop == \/ /\ qstate = "running" /\ qstate' = "draining"
             \/ /\ qstate # "running" /\ UNCHANGED qstate
             \/ /\ qstate = "paused" /\ qstate' = "draining"

-----------------------------------------------------------------------------
(* The Contract.  Nothing in the code makes a caller wait; these are the   *)
(* calls a Patient client keeps to, the ones under which the engine works. *)

Outstanding == seekQueue # <<>> \/ mainQueue # <<>>

\* isStopped says stopped, the AudioQueue is not: the last chunks of a track
\* are being played, or the queue was started on a track that had ended.
RunDown == isStopped /\ qstate # "stopped"

Quiet == audio = Idle /\ qstate \in {"stopped", "paused"}

MayRender == Patient => Quiet /\ ~RunDown /\ ~Outstanding
MaySeek == Patient => ~RunDown /\ ~Outstanding
MayOpen == Patient => ~Outstanding

-----------------------------------------------------------------------------
(* Slips that the properties are there to catch, each a wrong form of the  *)
(* action its name begins with.  No run uses them as they stand.           *)

\* setPosition: without [self stop].
setPosition_NoStop(p) ==
  /\ main = Idle /\ MaySeek /\ ~isSeeking
  /\ Len(seekQueue) + Len(mainQueue) < MaxSeeks
  /\ main' = [at |-> "seek", pos |-> p, resume |-> isPlaying]
  /\ UNCHANGED <<engine, flags, seeks, audio, output, posted>>

\* stop with AudioQueueStop(queue, FALSE).
StopReturns_Async ==
  /\ main.at = "stopping"
  /\ AsyncStop /\ posted' = "Stopped" /\ main' = main.then
  /\ UNCHANGED <<engine, flags, seeks, audio, queue>>

\* setPosition: reads _isPlaying after it called stop.
SeekDispatched_ReadLate ==
  /\ main.at = "seek" /\ main' = Idle
  /\ seekQueue' = Append(seekQueue, [pos |-> main.pos, resume |-> isPlaying])
  /\ UNCHANGED <<engine, flags, isSeeking, mainQueue, audio, output, posted>>

\* fillBuffers counting wrong: it goes on to buffer next while more holds.
FillTo(more, next) ==
  /\ main.at = "render" /\ RenderInto("main", main.buf)
  /\ main' = IF isStopped \/ ~more
             THEN [at |-> "start"] ELSE [at |-> "fill", buf |-> next]
  /\ UNCHANGED <<flags, seeks, audio, qstate, posted>>
FillEnds_OneMore == FillTo(main.buf <= NumBuffers, main.buf + 1)
FillEnds_OneLess == FillTo(main.buf + 1 < NumBuffers, main.buf + 1)
FillEnds_NoStep == FillTo(main.buf < NumBuffers, main.buf)

\* AQCallbackFunction stopping at the end of a track without a notification.
TrackEnded_Silent ==
  /\ audio.at = "end" /\ AsyncStop /\ audio' = Idle
  /\ UNCHANGED <<engine, flags, seeks, main, queue, posted>>

\* AQCallbackFunction without AudioQueueEnqueueBuffer.
CallbackEnds_NotEnqueued ==
  /\ audio.at = "render" /\ Leave("audio") /\ audio' = Idle
  /\ emu' = Advanced(emu)
  /\ UNCHANGED <<flags, seeks, main, output, posted>>

-----------------------------------------------------------------------------
(* The main thread: calls of the client.                                   *)

Init ==
  /\ emu = NoEmu /\ inside = {}
  /\ isPlaying = FALSE /\ isStopped = TRUE /\ isSeeking = FALSE
  /\ seekQueue = <<>> /\ mainQueue = <<>>
  /\ main = Idle /\ audio = Idle
  /\ queue = <<>> /\ qstate = "stopped"
  /\ posted = "Stopped"

\* [self stop], then the rest of the method: AudioQueueStop(queue, TRUE)
\* returns when the callback in flight has returned and the queue is empty.
StopThen(rest) ==
  /\ main = Idle
  /\ isPlaying' = FALSE /\ isStopped' = TRUE
  /\ main' = IF isStopped THEN rest ELSE [at |-> "stopping", then |-> rest]
  /\ UNCHANGED <<engine, seeks, audio, output, posted>>

openFile(f, t) == MayOpen /\ StopThen([at |-> "open", file |-> f, track |-> t])
stop == StopThen(Idle)
close == MayOpen /\ StopThen([at |-> "close"])

\* setPosition: reads _isPlaying before it calls stop.
setPosition(p) ==
  /\ MaySeek /\ ~isSeeking /\ Len(seekQueue) + Len(mainQueue) < MaxSeeks
  /\ StopThen([at |-> "seek", pos |-> p, resume |-> isPlaying])

\* The body of play up to the call that makes the sound start.  A play
\* without data source, or during a seek, changes nothing.
StartPlay ==
  /\ emu # NoEmu /\ ~isSeeking
  /\ \/ /\ TrackHasEnded /\ main' = [at |-> "rewind"] /\ Enter("main")
     \/ /\ ~TrackHasEnded /\ main' = [at |-> "arm"] /\ UNCHANGED inside
  /\ UNCHANGED emu

play ==
  /\ main = Idle /\ MayRender
  /\ StartPlay
  /\ UNCHANGED <<flags, seeks, audio, output, posted>>

pause ==
  /\ main = Idle
  /\ isPlaying' = FALSE
  /\ \/ isStopped /\ UNCHANGED <<qstate, posted>>
     \/ ~isStopped /\ qstate' = "paused" /\ posted' = "Paused"
  /\ UNCHANGED <<engine, isStopped, seeks, main, audio, queue>>

\* The getter isPlaying corrects _isPlaying after the end of a track.
pollIsPlaying ==
  /\ main = Idle /\ isPlaying /\ isStopped
  /\ isPlaying' = FALSE
  /\ UNCHANGED <<engine, isStopped, seeks, main, audio, output, posted>>

setCurrentTrack(t) ==
  /\ main = Idle /\ MayRender
  /\ emu # NoEmu /\ emu.class \in TrackSources
  /\ Enter("main") /\ main' = [at |-> "track", track |-> t]
  /\ UNCHANGED <<emu, flags, seeks, audio, output, posted>>

-----------------------------------------------------------------------------
(* The main thread: the rest of a method.                                  *)

StopReturns ==
  /\ main.at = "stopping" /\ audio = Idle
  /\ queue' = <<>> /\ qstate' = "stopped" /\ posted' = "Stopped"
  /\ main' = main.then
  /\ UNCHANGED <<engine, flags, seeks, audio>>

\* openFile: after stop.  The current class is kept when it can play the
\* file (after setPosition:0), else a new object replaces _emu, which leaves
\* whoever was inside the old one there.
Reuse(f) == emu # NoEmu /\ f \in CanPlay[emu.class]

OpenBegins ==
  /\ main.at = "open"
  /\ \/ /\ Reuse(main.file)
        /\ Enter("main") /\ UNCHANGED emu
     \/ /\ ~Reuse(main.file)
        /\ \E c \in Sources :
             /\ LastToPlay(main.file, c)
             /\ emu' = [class |-> c, file |-> main.file, track |-> 0, pos |-> 0]
        /\ inside' = {"main"}
  /\ main' = [at |-> "opening", file |-> main.file, track |-> main.track]
  /\ UNCHANGED <<flags, seeks, audio, output, posted>>

OpenRefused ==
  /\ main.at = "open" /\ ~Reuse(main.file) /\ \A c \in Sources : ~LastToPlay(main.file, c)
  /\ main' = Idle
  /\ UNCHANGED <<engine, flags, seeks, audio, output, posted>>

OpenEnds ==
  /\ main.at = "opening"
  /\ emu' = [emu EXCEPT !.file = main.file, !.pos = 0,
               !.track = IF emu.class \in TrackSources THEN main.track ELSE 0]
  /\ Leave("main") /\ main' = Idle
  /\ UNCHANGED <<flags, seeks, audio, output, posted>>

CloseEnds ==
  /\ main.at = "close"
  /\ emu' = NoEmu /\ inside' = {} /\ main' = Idle
  /\ UNCHANGED <<flags, seeks, audio, output, posted>>

SeekDispatched ==
  /\ main.at = "seek"
  /\ seekQueue' = Append(seekQueue, [pos |-> main.pos, resume |-> main.resume])
  /\ main' = Idle
  /\ UNCHANGED <<engine, flags, isSeeking, mainQueue, audio, output, posted>>

Rewound ==
  /\ main.at = "rewind"
  /\ emu' = Moved(emu, 0) /\ Leave("main") /\ main' = [at |-> "arm"]
  /\ UNCHANGED <<flags, seeks, audio, output, posted>>

Armed ==
  /\ main.at = "arm"
  /\ isPlaying' = TRUE /\ isStopped' = FALSE
  /\ main' = IF isStopped THEN [at |-> "fill", buf |-> 1] ELSE [at |-> "start"]
  /\ UNCHANGED <<engine, seeks, audio, output, posted>>

\* fillBuffers calls AQCallbackFunction for every buffer and stops at the
\* first call that finds, or makes, the player stopped.
FillBegins ==
  /\ main.at = "fill"
  /\ \/ /\ isStopped /\ main' = [at |-> "start"]
        /\ UNCHANGED <<inside, isStopped, qstate, posted>>
     \/ /\ ~isStopped /\ TrackHasEnded
        /\ isStopped' = TRUE /\ AsyncStop /\ posted' = "Stopped"
        /\ main' = [at |-> "start"] /\ UNCHANGED inside
     \/ /\ ~isStopped /\ ~TrackHasEnded
        /\ Enter("main") /\ main' = [at |-> "render", buf |-> main.buf]
        /\ UNCHANGED <<isStopped, qstate, posted>>
  /\ UNCHANGED <<emu, isPlaying, seeks, audio, queue>>

FillEnds ==
  /\ main.at = "render"
  /\ RenderInto("main", main.buf)
  /\ main' = IF isStopped \/ main.buf = NumBuffers
             THEN [at |-> "start"] ELSE [at |-> "fill", buf |-> main.buf + 1]
  /\ UNCHANGED <<flags, seeks, audio, qstate, posted>>

Started ==
  /\ main.at = "start"
  /\ qstate' = "running" /\ posted' = "Started" /\ main' = Idle
  /\ UNCHANGED <<engine, flags, seeks, audio, queue>>

TrackSet ==
  /\ main.at = "track"
  /\ emu' = [Moved(emu, 0) EXCEPT !.track = main.track]
  /\ Leave("main") /\ main' = Idle
  /\ UNCHANGED <<flags, seeks, audio, output, posted>>

\* The block a finished seek sent to the main queue: FinishedSeeking is
\* posted, and playback resumes if it was on when the seek was asked for.
SeekFinished ==
  /\ main = Idle /\ mainQueue # <<>>
  /\ mainQueue' = Tail(mainQueue)
  /\ \/ Head(mainQueue) /\ ~TrackHasEnded /\ StartPlay
     \/ /\ ~Head(mainQueue) \/ TrackHasEnded \/ emu = NoEmu \/ isSeeking
        /\ UNCHANGED <<engine, main>>
  /\ UNCHANGED <<flags, isSeeking, seekQueue, audio, output, posted>>

MainStep == \/ StopReturns \/ OpenBegins \/ OpenRefused \/ OpenEnds
            \/ CloseEnds \/ SeekDispatched \/ Rewound \/ Armed \/ FillBegins \/ FillEnds
            \/ Started \/ TrackSet

-----------------------------------------------------------------------------
(* The audio thread.                                                       *)

\* A buffer has been played: the AudioQueue calls AQCallbackFunction.
BufferPlayed ==
  /\ qstate \in {"running", "draining"} /\ queue # <<>> /\ audio = Idle
  /\ audio' = [at |-> "check", buf |-> Head(queue).buf]
  /\ queue' = Tail(queue)
  /\ UNCHANGED <<engine, flags, seeks, main, qstate, posted>>

Drained ==
  /\ qstate = "draining" /\ queue = <<>> /\ audio = Idle
  /\ qstate' = "stopped"
  /\ UNCHANGED <<engine, flags, seeks, main, audio, queue, posted>>

CallbackBegins ==
  /\ audio.at = "check"
  /\ \/ /\ isStopped /\ audio' = Idle /\ UNCHANGED <<inside, isStopped>>
     \/ /\ ~isStopped /\ TrackHasEnded
        /\ isStopped' = TRUE /\ audio' = [at |-> "end", buf |-> audio.buf]
        /\ UNCHANGED inside
     \/ /\ ~isStopped /\ ~TrackHasEnded
        /\ Enter("audio") /\ audio' = [at |-> "render", buf |-> audio.buf]
        /\ UNCHANGED isStopped
  /\ UNCHANGED <<emu, isPlaying, seeks, main, output, posted>>

TrackEnded ==
  /\ audio.at = "end"
  /\ AsyncStop /\ posted' = "Stopped" /\ audio' = Idle
  /\ UNCHANGED <<engine, flags, seeks, main, queue>>

CallbackEnds ==
  /\ audio.at = "render"
  /\ RenderInto("audio", audio.buf) /\ audio' = Idle
  /\ UNCHANGED <<flags, seeks, main, qstate, posted>>

AudioStep == CallbackBegins \/ TrackEnded \/ CallbackEnds
HardwareStep == BufferPlayed \/ Drained

-----------------------------------------------------------------------------
(* The seek thread.                                                        *)

SeekBegins ==
  /\ seekQueue # <<>> /\ ~isSeeking
  /\ isSeeking' = TRUE
  /\ IF emu = NoEmu THEN UNCHANGED inside ELSE Enter("seek")
  /\ UNCHANGED <<emu, flags, seekQueue, mainQueue, main, audio, output, posted>>

SeekEnds ==
  /\ isSeeking
  /\ isSeeking' = FALSE
  /\ seekQueue' = Tail(seekQueue)
  /\ mainQueue' = Append(mainQueue, Head(seekQueue).resume)
  /\ Leave("seek")
  /\ emu' = IF "seek" \in inside THEN Moved(emu, Head(seekQueue).pos) ELSE emu
  /\ UNCHANGED <<flags, main, audio, output, posted>>

SeekStep == SeekBegins \/ SeekEnds

-----------------------------------------------------------------------------
Call == \/ \E f \in Files, t \in Tracks : openFile(f, t)
        \/ \E p \in Position : setPosition(p)
        \/ \E t \in Tracks : setCurrentTrack(t)
        \/ play \/ pause \/ stop \/ close \/ pollIsPlaying

Next == Call \/ MainStep \/ SeekFinished \/ AudioStep \/ HardwareStep \/ SeekStep

\* A thread that can run does, a running AudioQueue plays, and the main run
\* loop reaches the blocks of its queue between two events.  No client is
\* ever obliged to call.
Fairness == /\ WF_vars(MainStep) /\ SF_vars(SeekFinished)
            /\ WF_vars(AudioStep) /\ WF_vars(HardwareStep) /\ WF_vars(SeekStep)

Spec == Init /\ [][Next]_vars /\ Fairness

-----------------------------------------------------------------------------
(* Properties.                                                             *)

\* Every variable holds a value of its kind.
TypeOK ==
  /\ emu \in Emus \cup {NoEmu}
  /\ inside \subseteq {"main", "audio", "seek"}
  /\ isPlaying \in BOOLEAN /\ isStopped \in BOOLEAN /\ isSeeking \in BOOLEAN
  /\ seekQueue \in Seq(Seeks) /\ mainQueue \in Seq(BOOLEAN)
  /\ main \in MainStates /\ audio \in AudioStates
  /\ queue \in Seq(Chunks)
  /\ qstate \in {"stopped", "running", "paused", "draining"}
  /\ posted \in {"Started", "Paused", "Stopped"}

\* Never two threads at once inside the data source: fillBuffers, openFile:
\* and setCurrentTrack: on the main thread, AQCallbackFunction on the audio
\* thread and setPosition: on _seekQueue take turns although nothing locks.
EmuExclusive == \A s, t \in inside : s = t

Queued == {queue[i].buf : i \in DOMAIN queue}
InCallback == IF audio = Idle THEN {} ELSE {audio.buf}
InFill == IF main.at = "render" THEN {main.buf} ELSE {}

\* A buffer has one owner: the AudioQueue, the callback, or fillBuffers.  A
\* buffer that is queued is never written to and never enqueued again.
BufferOwnership ==
  /\ \A i, j \in DOMAIN queue : queue[i].buf = queue[j].buf => i = j
  /\ Queued \cap InCallback = {}
  /\ InFill \cap (Queued \cup InCallback) = {}

\* While the player is not stopped no buffer gets lost: once fillBuffers is
\* through, each is queued or in the callback, so the sound cannot starve.
BuffersCirculate ==
  ~isStopped /\ main.at \notin {"fill", "render"}
    => Queued \cup InCallback = Buffers

\* What is about to be heard is one uninterrupted stretch of the track: each
\* chunk follows the one before, and the data source stands right behind the
\* last, except where a track was started from the beginning.
Gapless ==
  LET Follows(d, e) == d = Advanced(e) \/ d = NoEmu \/ d.pos = 0
      n == Len(queue)
  IN /\ \A i \in 1 .. n - 1 : /\ queue[i].src # NoEmu
                               /\ Follows(queue[i + 1].src, queue[i].src)
     /\ n > 0 => queue[n].src # NoEmu /\ Follows(emu, queue[n].src)

\* play found the end of the track while it filled the buffers, some of which
\* are therefore missing, and has started the queue and posted Started all the
\* same (PlayReportsStart below).
StartedOnEnd == isStopped /\ qstate = "running" /\ Queued # Buffers

\* The last notification, which is what the play button shows, tells the
\* truth whenever no method is running: Started that the player plays, Paused
\* that it is paused, Stopped that it is stopped.  The only lie is the Started
\* of a play that met the end of the track, StartedOnEnd.
NoticeMatches ==
  main = Idle /\ audio = Idle =>
    /\ posted = "Started" => (~isStopped /\ qstate = "running") \/ StartedOnEnd
    /\ posted = "Paused" => qstate = "paused" /\ ~isStopped
    /\ posted = "Stopped" => isStopped

\* From the moment a seek is dispatched until its block on the main queue has
\* run, nothing but that seek moves the data source.
SeekUndisturbed ==
  [][Outstanding => \/ emu' = emu
                    \/ isSeeking /\ emu' = Moved(emu, Head(seekQueue).pos)]_vars

\* A seek asked for while music plays comes back to playing music, unless
\* it landed on the end of the track.
ResumesAfterSeek ==
  main.at = "seek" /\ main.resume
    ~> isPlaying \/ TrackHasEnded \/ emu = NoEmu

\* A track with an end that is left to play reaches it.
EndReached ==
  qstate = "running" /\ ~isStopped /\ emu # NoEmu /\ emu.file \notin Endless
    ~> isStopped \/ qstate = "paused"

\* Every method returns to the run loop: the main thread, which waits for the
\* callback inside AudioQueueStop, is never waited for by it.
MainReturns == main # Idle ~> main = Idle

\* play refuses while _isSeeking is set, so that it does not render from an
\* emulator that a seek is moving.  gme.txt asks for that: "ensure that only one
\* at a time is accessing a given set of objects".
SeekExcludesPlay == "seek" \in inside => main.at \notin {"rewind", "render"}

\* TKRPlayer.h on play: "@return whether or not it started playing
\* successfully", and it returns true here.
PlayReportsStart == [][main.at = "start" /\ main' = Idle => ~isStopped]_vars
=============================================================================
