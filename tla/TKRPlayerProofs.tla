--------------------------- MODULE TKRPlayerProofs ---------------------------
(* Proofs about the playback engine of TKRPlayer, for any files, classes,   *)
(* track length and number of buffers.                                      *)
EXTENDS TKRPlayer, TLAPS

USE ConstantsAssumption, NoEmuAssumption

-----------------------------------------------------------------------------
(* The data source keeps its type, wherever it is moved.                    *)

LEMMA MovedType ==
  ASSUME NEW e \in Emus, NEW p \in Position
  PROVE  Moved(e, p) \in Emus
BY DEF Moved, Wrap, Emus, Position

LEMMA AdvancedType ==
  ASSUME NEW e \in Emus
  PROVE  Advanced(e) \in Emus
<1> DEFINE p == IF e.pos < Length THEN e.pos + 1 ELSE Length
<1>1. p \in Position
  BY DEF Emus, Position
<1>2. Moved(e, p) \in Emus
  BY <1>1, MovedType
<1> QED
  BY <1>2 DEF Advanced

LEMMA OpenedType ==
  ASSUME NEW e \in Emus, NEW f \in Files, NEW t \in Tracks
  PROVE  [e EXCEPT !.file = f, !.pos = 0, !.track = t] \in Emus
<1>1. 0 \in Position
  BY DEF Position
<1> QED
  BY <1>1 DEF Emus

\* What RenderInto leaves behind.
LEMMA RenderIntoType ==
  ASSUME TypeOK, NEW t \in {"main", "audio"}, NEW b \in Buffers,
         t \in inside => emu # NoEmu,
         RenderInto(t, b)
  PROVE  /\ emu' \in Emus \cup {NoEmu}
         /\ inside' \subseteq {"main", "audio", "seek"}
         /\ queue' \in Seq(Chunks)
<1>1. emu' \in Emus \cup {NoEmu}
  BY AdvancedType DEF RenderInto, TypeOK
<1>2. inside' \subseteq {"main", "audio", "seek"}
  BY DEF RenderInto, Leave, TypeOK
<1>3. [buf |-> b, src |-> IF t \in inside THEN emu ELSE NoEmu] \in Chunks
  BY DEF TypeOK, Chunks
<1>4. queue' \in Seq(Chunks)
  BY <1>3 DEF RenderInto, TypeOK
<1> QED
  BY <1>1, <1>2, <1>4

-----------------------------------------------------------------------------
(* Type correctness.  TypeOK alone is not inductive: a method in the middle *)
(* of the data source needs one to be there.                                *)

\* While a thread is in the data source, or main on its way into it, there is
\* one; without a data source the player is stopped, as it is from the call
\* of stop to the end of the method that called it.
BaseInv ==
  /\ TypeOK
  /\ inside # {} => emu # NoEmu
  /\ main.at \in {"opening", "rewind", "arm", "fill", "render", "start", "track"}
       => emu # NoEmu
  /\ emu = NoEmu => isStopped
  /\ main.at \in {"stopping", "open", "close", "seek"} => isStopped
  /\ isSeeking => seekQueue # <<>>

\* The states of the threads, one kind at a time.
LEMMA AfterStopIntro ==
  /\ Idle \in AfterStop /\ [at |-> "close"] \in AfterStop
  /\ \A f \in Files, t \in Tracks :
       [at |-> "open", file |-> f, track |-> t] \in AfterStop
  /\ \A p \in Position, r \in BOOLEAN :
       [at |-> "seek", pos |-> p, resume |-> r] \in AfterStop
BY DEF AfterStop, Idle

LEMMA AfterStopKinds ==
  \A r \in AfterStop : r.at \in {"idle", "open", "close", "seek"}
BY DEF AfterStop

LEMMA MainIntro ==
  /\ \A r \in AfterStop : /\ r \in MainStates
                          /\ [at |-> "stopping", then |-> r] \in MainStates
  /\ [at |-> "rewind"] \in MainStates
  /\ [at |-> "arm"] \in MainStates
  /\ [at |-> "start"] \in MainStates
  /\ \A f \in Files, t \in Tracks :
       [at |-> "opening", file |-> f, track |-> t] \in MainStates
  /\ \A b \in Buffers : /\ [at |-> "fill", buf |-> b] \in MainStates
                        /\ [at |-> "render", buf |-> b] \in MainStates
  /\ \A t \in Tracks : [at |-> "track", track |-> t] \in MainStates
BY DEF MainStates

LEMMA MainElim ==
  \A r \in MainStates :
    /\ r.at = "stopping" => r.then \in AfterStop
    /\ r.at \in {"open", "opening"} => r.file \in Files /\ r.track \in Tracks
    /\ r.at = "seek" => r.pos \in Position /\ r.resume \in BOOLEAN
    /\ r.at \in {"fill", "render"} => r.buf \in Buffers
    /\ r.at = "track" => r.track \in Tracks
BY DEF MainStates, AfterStop

LEMMA AudioIntro ==
  /\ Idle \in AudioStates
  /\ \A b \in Buffers, a \in {"check", "render", "end"} :
       [at |-> a, buf |-> b] \in AudioStates
BY DEF AudioStates, Idle

LEMMA AudioElim ==
  \A r \in AudioStates : r.at \in {"check", "render", "end"} => r.buf \in Buffers
BY DEF AudioStates

LEMMA BaseInit == Init => BaseInv
<1> SUFFICES ASSUME Init PROVE BaseInv
  OBVIOUS
<1>1. main \in MainStates
  BY AfterStopIntro, MainIntro DEF Init
<1>2. audio \in AudioStates
  BY AudioIntro DEF Init
<1>3. seekQueue \in Seq(Seeks) /\ mainQueue \in Seq(BOOLEAN)
  BY DEF Init
<1>4. queue \in Seq(Chunks)
  BY DEF Init
<1>5. TypeOK
  BY <1>1, <1>2, <1>3, <1>4 DEF Init, TypeOK
<1> QED
  BY <1>5 DEF Init, BaseInv, Idle

LEMMA BaseStopThen ==
  ASSUME BaseInv, NEW rest \in AfterStop, StopThen(rest)
  PROVE  BaseInv'
<1>1. main' \in MainStates
  BY MainIntro DEF StopThen
<1>2. main'.at \in {"idle", "stopping", "open", "close", "seek"}
  BY AfterStopKinds DEF StopThen
<1> QED
  BY <1>1, <1>2 DEF StopThen, BaseInv, TypeOK, engine, seeks, output

LEMMA BaseStartPlay ==
  ASSUME BaseInv, StartPlay
  PROVE  /\ inside' \subseteq {"main", "audio", "seek"}
         /\ emu' = emu /\ emu # NoEmu
         /\ main' \in MainStates /\ main'.at \in {"rewind", "arm"}
<1>1. main' \in MainStates
  BY MainIntro DEF StartPlay
<1>2. inside' \subseteq {"main", "audio", "seek"}
  BY DEF StartPlay, Enter, BaseInv, TypeOK
<1>3. main'.at \in {"rewind", "arm"}
  BY DEF StartPlay
<1> QED
  BY <1>1, <1>2, <1>3 DEF StartPlay

LEMMA BaseCalls == BaseInv /\ Call => BaseInv'
<1> SUFFICES ASSUME BaseInv, Call PROVE BaseInv'
  OBVIOUS
<1> USE DEF BaseInv, TypeOK, engine, flags, seeks, output
<1>1. ASSUME NEW f \in Files, NEW t \in Tracks, openFile(f, t) PROVE BaseInv'
  BY <1>1, BaseStopThen, AfterStopIntro DEF openFile
<1>2. ASSUME NEW p \in Position, setPosition(p) PROVE BaseInv'
  BY <1>2, BaseStopThen, AfterStopIntro DEF setPosition
<1>3. ASSUME NEW t \in Tracks, setCurrentTrack(t) PROVE BaseInv'
  <2>1. main' \in MainStates
    BY <1>3, MainIntro DEF setCurrentTrack
  <2> QED
    BY <1>3, <2>1 DEF setCurrentTrack, Enter
<1>4. CASE play
  BY <1>4, BaseStartPlay DEF play
<1>5. CASE pause
  BY <1>5 DEF pause
<1>6. CASE stop
  BY <1>6, BaseStopThen, AfterStopIntro DEF stop
<1>7. CASE close
  BY <1>7, BaseStopThen, AfterStopIntro DEF close
<1>8. CASE pollIsPlaying
  BY <1>8 DEF pollIsPlaying
<1> QED
  BY <1>1, <1>2, <1>3, <1>4, <1>5, <1>6, <1>7, <1>8 DEF Call

LEMMA BaseMain == BaseInv /\ (MainStep \/ SeekFinished) => BaseInv'
<1> SUFFICES ASSUME BaseInv, MainStep \/ SeekFinished PROVE BaseInv'
  OBVIOUS
<1> USE DEF BaseInv, TypeOK, engine, flags, seeks, output
<1>1. CASE StopReturns
  <2>1. main.then \in AfterStop
    BY <1>1, MainElim DEF StopReturns
  <2>2. main' \in MainStates /\ main'.at \in {"idle", "open", "close", "seek"}
    BY <1>1, <2>1, MainIntro, AfterStopKinds DEF StopReturns
  <2> QED
    BY <1>1, <2>2 DEF StopReturns
<1>2. CASE OpenBegins
  <2>1. main.file \in Files /\ main.track \in Tracks
    BY <1>2, MainElim DEF OpenBegins
  <2>2. main' \in MainStates
    BY <1>2, <2>1, MainIntro DEF OpenBegins
  <2>3. emu' \in Emus /\ emu' # NoEmu
    BY <1>2, <2>1 DEF OpenBegins, Reuse, Emus, Position
  <2> QED
    BY <1>2, <2>2, <2>3 DEF OpenBegins, Enter
<1>3. CASE OpenRefused
  <2>1. main' \in MainStates
    BY <1>3, AfterStopIntro, MainIntro DEF OpenRefused
  <2> QED
    BY <1>3, <2>1 DEF OpenRefused, Idle
<1>4. CASE OpenEnds
  <2>1. main.file \in Files /\ main.track \in Tracks
    BY <1>4, MainElim DEF OpenEnds
  <2>2. main' \in MainStates
    BY <1>4, AfterStopIntro, MainIntro DEF OpenEnds
  <2>3. emu \in Emus
    BY <1>4 DEF OpenEnds
  <2>4. (IF emu.class \in TrackSources THEN main.track ELSE 0) \in Tracks
    BY <2>1
  <2>5. emu' \in Emus
    BY <1>4, <2>1, <2>3, <2>4, OpenedType DEF OpenEnds
  <2> QED
    BY <1>4, <2>2, <2>5 DEF OpenEnds, Leave, Idle
<1>5. CASE CloseEnds
  <2>1. main' \in MainStates
    BY <1>5, AfterStopIntro, MainIntro DEF CloseEnds
  <2> QED
    BY <1>5, <2>1 DEF CloseEnds, Idle
<1>6. CASE SeekDispatched
  <2>1. main' \in MainStates
    BY <1>6, AfterStopIntro, MainIntro DEF SeekDispatched
  <2>2. seekQueue' \in Seq(Seeks) /\ seekQueue' # <<>>
    BY <1>6, MainElim DEF SeekDispatched, Seeks
  <2> QED
    BY <1>6, <2>1, <2>2 DEF SeekDispatched, Idle
<1>7. CASE Rewound
  <2>1. main' \in MainStates
    BY <1>7, MainIntro DEF Rewound
  <2>2. emu' \in Emus
    BY <1>7, MovedType DEF Rewound, Position
  <2> QED
    BY <1>7, <2>1, <2>2 DEF Rewound, Leave
<1>8. CASE Armed
  <2>. 1 \in Buffers
    BY DEF Buffers
  <2>1. main' \in MainStates
    BY <1>8, MainIntro DEF Armed
  <2> QED
    BY <1>8, <2>1 DEF Armed
<1>9. CASE FillBegins
  <2>1. main' \in MainStates
    BY <1>9, MainIntro, MainElim DEF FillBegins
  <2>2. main'.at \in {"start", "render"}
    BY <1>9 DEF FillBegins
  <2>3. emu # NoEmu /\ qstate' \in {"stopped", "running", "paused", "draining"}
    BY <1>9 DEF FillBegins, AsyncStop
  <2>4. inside' \subseteq {"main", "audio", "seek"}
    BY <1>9 DEF FillBegins, Enter
  <2> QED
    BY <1>9, <2>1, <2>2, <2>3, <2>4 DEF FillBegins
<1>10. CASE FillEnds
  <2>1. main.buf \in Buffers
    BY <1>10, MainElim DEF FillEnds
  <2>2. main.buf = NumBuffers \/ main.buf + 1 \in Buffers
    BY <2>1 DEF Buffers
  <2>3. main' \in MainStates /\ main'.at \in {"start", "fill"}
    BY <1>10, <2>2, MainIntro DEF FillEnds
  <2>4. emu # NoEmu
    BY <1>10 DEF FillEnds
  <2>5. /\ emu' \in Emus \cup {NoEmu}
        /\ inside' \subseteq {"main", "audio", "seek"}
        /\ queue' \in Seq(Chunks)
    BY <1>10, <2>1, <2>4, RenderIntoType DEF FillEnds
  <2>6. emu' # NoEmu
    BY <1>10, <2>4, AdvancedType DEF FillEnds, RenderInto
  <2> QED
    BY <1>10, <2>3, <2>5, <2>6 DEF FillEnds
<1>11. CASE Started
  <2>1. main' \in MainStates
    BY <1>11, AfterStopIntro, MainIntro DEF Started
  <2> QED
    BY <1>11, <2>1 DEF Started, Idle
<1>12. CASE TrackSet
  <2>1. main' \in MainStates
    BY <1>12, AfterStopIntro, MainIntro DEF TrackSet
  <2>2. Moved(emu, 0) \in Emus /\ main.track \in Tracks
    BY <1>12, MovedType, MainElim DEF TrackSet, Position
  <2>3. emu' \in Emus
    BY <1>12, <2>2 DEF TrackSet, Emus
  <2> QED
    BY <1>12, <2>1, <2>3 DEF TrackSet, Leave, Idle
<1>13. CASE SeekFinished
  <2>. mainQueue # <<>> /\ mainQueue' = Tail(mainQueue)
    BY <1>13 DEF SeekFinished
  <2>1. mainQueue' \in Seq(BOOLEAN)
    OBVIOUS
  <2>2. CASE StartPlay
    BY <1>13, <2>1, <2>2, BaseStartPlay DEF SeekFinished
  <2>3. CASE UNCHANGED <<engine, main>>
    BY <1>13, <2>1, <2>3 DEF SeekFinished
  <2> QED
    BY <1>13, <2>2, <2>3 DEF SeekFinished
<1> QED
  BY <1>1, <1>2, <1>3, <1>4, <1>5, <1>6, <1>7, <1>8, <1>9, <1>10, <1>11, <1>12,
     <1>13
  DEF MainStep

LEMMA BaseOthers == BaseInv /\ (AudioStep \/ HardwareStep \/ SeekStep) => BaseInv'
<1> SUFFICES ASSUME BaseInv, AudioStep \/ HardwareStep \/ SeekStep PROVE BaseInv'
  OBVIOUS
<1> USE DEF BaseInv, TypeOK, engine, flags, seeks, output
<1>1. CASE BufferPlayed
  <2>1. Head(queue) \in Chunks /\ queue' \in Seq(Chunks)
    BY <1>1 DEF BufferPlayed
  <2>2. audio' \in AudioStates
    BY <1>1, <2>1, AudioIntro DEF BufferPlayed, Chunks
  <2> QED
    BY <1>1, <2>1, <2>2 DEF BufferPlayed
<1>2. CASE Drained
  BY <1>2 DEF Drained
<1>3. CASE CallbackBegins
  <2>1. audio' \in AudioStates
    BY <1>3, AudioIntro, AudioElim DEF CallbackBegins
  <2> QED
    BY <1>3, <2>1 DEF CallbackBegins, Enter
<1>4. CASE TrackEnded
  <2>1. audio' \in AudioStates
    BY <1>4, AudioIntro DEF TrackEnded
  <2> QED
    BY <1>4, <2>1 DEF TrackEnded, AsyncStop
<1>5. CASE CallbackEnds
  <2>1. audio' \in AudioStates
    BY <1>5, AudioIntro DEF CallbackEnds
  <2>2. /\ emu' \in Emus \cup {NoEmu}
        /\ inside' \subseteq {"main", "audio", "seek"}
        /\ queue' \in Seq(Chunks)
    BY <1>5, RenderIntoType, AudioElim DEF CallbackEnds
  <2>3. (emu' = NoEmu) <=> (emu = NoEmu)
    BY <1>5, AdvancedType DEF CallbackEnds, RenderInto
  <2>4. inside' # {} => inside # {}
    BY <1>5 DEF CallbackEnds, RenderInto, Leave
  <2> QED
    BY <1>5, <2>1, <2>2, <2>3, <2>4 DEF CallbackEnds
<1>6. CASE SeekBegins
  BY <1>6 DEF SeekBegins, Enter
<1>7. CASE SeekEnds
  <2>1. Head(seekQueue) \in Seeks /\ seekQueue' \in Seq(Seeks)
    BY <1>7 DEF SeekEnds
  <2>2. mainQueue' \in Seq(BOOLEAN)
    BY <1>7, <2>1 DEF SeekEnds, Seeks
  <2>3. emu' \in Emus \cup {NoEmu} /\ ((emu' = NoEmu) <=> (emu = NoEmu))
    BY <1>7, <2>1, MovedType DEF SeekEnds, Seeks
  <2> QED
    BY <1>7, <2>1, <2>2, <2>3 DEF SeekEnds, Leave
<1> QED
  BY <1>1, <1>2, <1>3, <1>4, <1>5, <1>6, <1>7
  DEF AudioStep, HardwareStep, SeekStep

LEMMA BaseStep == BaseInv /\ [Next]_vars => BaseInv'
<1>1. BaseInv /\ UNCHANGED vars => BaseInv'
  BY DEF BaseInv, TypeOK, vars
<1> QED
  BY <1>1, BaseCalls, BaseMain, BaseOthers DEF Next

LEMMA BaseAlways == Spec => []BaseInv
BY BaseInit, BaseStep, PTL DEF Spec

\* Type correctness, whoever calls in whatever order.
THEOREM TypeCorrect == Spec => []TypeOK
<1>1. BaseInv => TypeOK
  BY DEF BaseInv
<1> QED
  BY <1>1, BaseAlways, PTL

-----------------------------------------------------------------------------
(* Mutual exclusion, for Patient clients.  The argument: the data source is *)
(* guarded by three facts that no lock keeps, only the order of the calls.  *)
(* An outstanding seek finds the player stopped and main at rest; main      *)
(* enters the data source only while the AudioQueue is not playing, or      *)
(* while isStopped keeps the callback out; and stop waits for the callback. *)

\* At most one seek is dispatched or waiting for its block to run.
OneSeek ==
  /\ seekQueue # <<>> => mainQueue = <<>> /\ Tail(seekQueue) = <<>>
  /\ mainQueue # <<>> => Tail(mainQueue) = <<>>

Inside ==
  /\ "main" \in inside => main.at \in {"opening", "rewind", "render", "track"}
  /\ "audio" \in inside => audio.at = "render"
  /\ "seek" \in inside => isSeeking

TurnInv ==
  /\ Inside /\ OneSeek
  /\ Outstanding => main.at = "idle" /\ isStopped /\ qstate = "stopped"
  /\ qstate = "stopped" => audio.at = "idle"
  /\ isStopped /\ main.at # "stopping" => audio.at # "render"
  /\ main.at \in {"rewind", "arm", "track"} =>
       /\ audio.at = "idle" /\ qstate \in {"stopped", "paused"}
       /\ isStopped => qstate = "stopped"
  /\ main.at \in {"fill", "render", "seek"} => qstate = "stopped"
  /\ main.at = "opening" => isStopped

LEMMA TurnInit == Init => TurnInv
BY DEF Init, TurnInv, Inside, OneSeek, Outstanding, Idle

LEMMA TurnStopThen ==
  ASSUME BaseInv, TurnInv, NEW rest \in AfterStop, StopThen(rest),
         rest.at # "idle" => ~Outstanding,
         rest.at = "seek" => ~RunDown
  PROVE  TurnInv'
<1>1. main.at = "idle" /\ main'.at \in {rest.at, "stopping"}
  BY DEF StopThen, Idle
<1>2. rest.at \in {"idle", "open", "close", "seek"}
  BY AfterStopKinds
<1>3. main'.at = "stopping" <=> ~isStopped
  BY <1>2 DEF StopThen
<1> QED
  BY <1>1, <1>2, <1>3
  DEF StopThen, TurnInv, Inside, OneSeek, Outstanding, RunDown, engine, seeks, output

LEMMA TurnCalls ==
  ASSUME Patient, BaseInv, TurnInv, Call
  PROVE  TurnInv'
<1> USE DEF Inside, OneSeek, Outstanding, engine, flags, seeks, output
<1>1. ASSUME NEW f \in Files, NEW t \in Tracks, openFile(f, t) PROVE TurnInv'
  BY <1>1, TurnStopThen, AfterStopIntro DEF openFile, MayOpen
<1>2. ASSUME NEW p \in Position, setPosition(p) PROVE TurnInv'
  <2>1. isPlaying \in BOOLEAN
    BY DEF BaseInv, TypeOK
  <2> QED
    BY <1>2, <2>1, TurnStopThen, AfterStopIntro DEF setPosition, MaySeek
<1>3. ASSUME NEW t \in Tracks, setCurrentTrack(t) PROVE TurnInv'
  BY <1>3 DEF setCurrentTrack, Enter, MayRender, Quiet, RunDown, Idle, TurnInv
<1>4. CASE play
  BY <1>4 DEF play, StartPlay, Enter, MayRender, Quiet, RunDown, Idle, TurnInv
<1>5. CASE pause
  BY <1>5 DEF pause, Idle, TurnInv
<1>6. CASE stop
  BY <1>6, TurnStopThen, AfterStopIntro DEF stop, Idle
<1>7. CASE close
  BY <1>7, TurnStopThen, AfterStopIntro DEF close, MayOpen
<1>8. CASE pollIsPlaying
  BY <1>8 DEF pollIsPlaying, TurnInv
<1> QED
  BY <1>1, <1>2, <1>3, <1>4, <1>5, <1>6, <1>7, <1>8 DEF Call

LEMMA TurnMain ==
  ASSUME Patient, BaseInv, TurnInv, MainStep \/ SeekFinished
  PROVE  TurnInv'
<1> USE DEF TurnInv, Inside, Outstanding, engine, flags, seeks, output
<1>1. CASE StopReturns
  <2>1. main.then.at \in {"idle", "open", "close", "seek"}
    BY <1>1, MainElim, AfterStopKinds DEF StopReturns, BaseInv, TypeOK
  <2> QED
    BY <1>1, <2>1 DEF StopReturns, OneSeek, Idle
<1>2. CASE OpenBegins
  BY <1>2 DEF OpenBegins, Enter, OneSeek, BaseInv
<1>3. CASE OpenRefused
  BY <1>3 DEF OpenRefused, OneSeek, Idle
<1>4. CASE OpenEnds
  BY <1>4 DEF OpenEnds, Leave, OneSeek, Idle
<1>5. CASE CloseEnds
  BY <1>5 DEF CloseEnds, OneSeek, Idle
<1>6. CASE SeekDispatched
  <2>1. seekQueue = <<>> /\ mainQueue = <<>> /\ isStopped
    BY <1>6 DEF SeekDispatched, BaseInv
  <2>2. OneSeek'
    BY <1>6, <2>1 DEF SeekDispatched, OneSeek
  <2> QED
    BY <1>6, <2>1, <2>2 DEF SeekDispatched, Idle
<1>7. CASE Rewound
  BY <1>7 DEF Rewound, Leave, OneSeek
<1>8. CASE Armed
  BY <1>8 DEF Armed, OneSeek
<1>9. CASE FillBegins
  BY <1>9 DEF FillBegins, AsyncStop, Enter, OneSeek
<1>10. CASE FillEnds
  BY <1>10 DEF FillEnds, RenderInto, Leave, OneSeek
<1>11. CASE Started
  BY <1>11 DEF Started, OneSeek, Idle
<1>12. CASE TrackSet
  BY <1>12 DEF TrackSet, Leave, OneSeek, Idle
<1>13. CASE SeekFinished
  <2>1. mainQueue' = <<>> /\ seekQueue' = <<>>
    BY <1>13 DEF SeekFinished, OneSeek
  <2> QED
    BY <1>13, <2>1 DEF SeekFinished, StartPlay, Enter, OneSeek, Idle
<1> QED
  BY <1>1, <1>2, <1>3, <1>4, <1>5, <1>6, <1>7, <1>8, <1>9, <1>10, <1>11, <1>12,
     <1>13
  DEF MainStep

LEMMA TurnOthers ==
  ASSUME BaseInv, TurnInv, AudioStep \/ HardwareStep \/ SeekStep
  PROVE  TurnInv'
<1> USE DEF TurnInv, Inside, Outstanding, engine, flags, seeks, output
<1>1. CASE BufferPlayed
  BY <1>1 DEF BufferPlayed, OneSeek, Idle
<1>2. CASE Drained
  BY <1>2 DEF Drained, OneSeek, Idle
<1>3. CASE CallbackBegins
  BY <1>3 DEF CallbackBegins, Enter, OneSeek, Idle
<1>4. CASE TrackEnded
  BY <1>4 DEF TrackEnded, AsyncStop, OneSeek, Idle
<1>5. CASE CallbackEnds
  BY <1>5 DEF CallbackEnds, RenderInto, Leave, OneSeek, Idle
<1>6. CASE SeekBegins
  BY <1>6 DEF SeekBegins, Enter, OneSeek
<1>7. CASE SeekEnds
  <2>1. seekQueue # <<>> /\ mainQueue = <<>> /\ seekQueue' = <<>>
    BY <1>7 DEF SeekEnds, OneSeek, BaseInv
  <2>2. OneSeek'
    BY <1>7, <2>1 DEF SeekEnds, OneSeek
  <2> QED
    BY <1>7, <2>1, <2>2 DEF SeekEnds, Leave
<1> QED
  BY <1>1, <1>2, <1>3, <1>4, <1>5, <1>6, <1>7
  DEF AudioStep, HardwareStep, SeekStep

LEMMA TurnStep == Patient /\ BaseInv /\ TurnInv /\ [Next]_vars => TurnInv'
<1>1. TurnInv /\ UNCHANGED vars => TurnInv'
  BY DEF TurnInv, Inside, OneSeek, Outstanding, vars
<1> QED
  BY <1>1, TurnCalls, TurnMain, TurnOthers DEF Next

LEMMA TurnAlways == ASSUME Patient PROVE Spec => []TurnInv
BY TurnInit, TurnStep, BaseAlways, PTL DEF Spec

\* Patient clients never get two threads into the data source at once.
THEOREM Exclusive == ASSUME Patient PROVE Spec => []EmuExclusive
<1>1. BaseInv /\ TurnInv => EmuExclusive
  BY DEF BaseInv, TypeOK, TurnInv, Inside, Outstanding, EmuExclusive
<1> QED
  BY <1>1, BaseAlways, TurnAlways, PTL

-----------------------------------------------------------------------------
(* The buffers.  A queue is seen as the set of buffers in it.               *)

Bufs(q) == {q[i].buf : i \in DOMAIN q}
Distinct(q) == \A i, j \in DOMAIN q : q[i].buf = q[j].buf => i = j

LEMMA EnqueueBufs ==
  ASSUME NEW q \in Seq(Chunks), NEW c \in Chunks, Distinct(q), c.buf \notin Bufs(q)
  PROVE  /\ Distinct(Append(q, c))
         /\ Bufs(Append(q, c)) = Bufs(q) \cup {c.buf}
<1> DEFINE r == Append(q, c)
<1>1. /\ DOMAIN q = 1 .. Len(q) /\ DOMAIN r = 1 .. Len(q) + 1
      /\ \A i \in 1 .. Len(q) : r[i] = q[i]
      /\ r[Len(q) + 1] = c
      /\ Len(q) \in Nat
  OBVIOUS
<1> HIDE DEF r
<1>2. Distinct(r)
  BY <1>1 DEF Distinct, Bufs
<1>3. ASSUME NEW b \in Bufs(r) PROVE b \in Bufs(q) \cup {c.buf}
  BY <1>1 DEF Bufs
<1>4. ASSUME NEW b \in Bufs(q) PROVE b \in Bufs(r)
  <2>1. PICK i \in DOMAIN q : b = q[i].buf
    BY DEF Bufs
  <2>2. i \in DOMAIN r /\ b = r[i].buf
    BY <1>1, <2>1
  <2> QED
    BY <2>2 DEF Bufs
<1>5. c.buf \in Bufs(r)
  BY <1>1 DEF Bufs
<1>6. Bufs(r) = Bufs(q) \cup {c.buf}
  BY <1>3, <1>4, <1>5
<1> QED
  BY <1>2, <1>6 DEF r

LEMMA DequeueBufs ==
  ASSUME NEW q \in Seq(Chunks), q # <<>>, Distinct(q)
  PROVE  /\ Distinct(Tail(q))
         /\ Bufs(Tail(q)) = Bufs(q) \ {Head(q).buf}
         /\ Head(q).buf \in Bufs(q)
<1> DEFINE r == Tail(q)
<1>1. /\ DOMAIN q = 1 .. Len(q) /\ DOMAIN r = 1 .. Len(q) - 1
      /\ \A i \in 1 .. Len(q) - 1 : r[i] = q[i + 1]
      /\ Len(q) \in Nat \ {0} /\ Head(q) = q[1]
  OBVIOUS
<1> HIDE DEF r
<1>2. ASSUME NEW i \in DOMAIN r, NEW j \in DOMAIN r, r[i].buf = r[j].buf
      PROVE  i = j
  <2>1. i + 1 \in DOMAIN q /\ j + 1 \in DOMAIN q /\ q[i + 1].buf = q[j + 1].buf
    BY <1>1, <1>2
  <2>2. i + 1 = j + 1 /\ i \in Int /\ j \in Int
    BY <1>1, <2>1 DEF Distinct
  <2> QED
    BY <2>2
<1>3. ASSUME NEW b \in Bufs(r) PROVE b \in Bufs(q) \ {Head(q).buf}
  <2>1. PICK i \in DOMAIN r : b = r[i].buf
    BY <1>3 DEF Bufs
  <2>2. i + 1 \in DOMAIN q /\ b = q[i + 1].buf /\ i + 1 # 1
    BY <1>1, <2>1
  <2> QED
    BY <1>1, <2>2 DEF Bufs, Distinct
<1>4. ASSUME NEW b \in Bufs(q) \ {Head(q).buf} PROVE b \in Bufs(r)
  <2>1. PICK i \in DOMAIN q : b = q[i].buf
    BY <1>4 DEF Bufs
  <2>2. i # 1
    BY <1>1, <2>1
  <2>3. i - 1 \in DOMAIN r /\ b = r[i - 1].buf
    BY <1>1, <2>1, <2>2
  <2> QED
    BY <2>3 DEF Bufs
<1>5. Head(q).buf \in Bufs(q)
  BY <1>1 DEF Bufs
<1>6. Bufs(r) = Bufs(q) \ {Head(q).buf}
  BY <1>3, <1>4
<1> QED
  BY <1>2, <1>5, <1>6 DEF r, Distinct

\* Where the buffers are.  fillBuffers hands them out in order, and it starts
\* with none of them out.
BufferInv ==
  /\ Distinct(queue)
  /\ Queued \cap InCallback = {}
  /\ main.at \in {"fill", "render"} =>
       Queued = 1 .. main.buf - 1 /\ ~isStopped
  /\ BuffersCirculate
  /\ qstate = "stopped" /\ main.at \notin {"fill", "render", "start"}
       => queue = <<>>
  /\ audio.at = "end" => isStopped

\* RenderInto hands out a buffer that the thread holds.
LEMMA RenderedBufs ==
  ASSUME BaseInv, Distinct(queue), NEW t \in {"main", "audio"}, NEW b \in Buffers,
         b \notin Queued, RenderInto(t, b)
  PROVE  Distinct(queue)' /\ Queued' = Queued \cup {b}
<1>1. \A i \in DOMAIN queue : queue[i].buf # b
  BY DEF Queued
<1> DEFINE c == [buf |-> b, src |-> IF t \in inside THEN emu ELSE NoEmu]
<1>2. c \in Chunks /\ c.buf = b
  BY DEF BaseInv, TypeOK, Chunks
<1>3. queue' = Append(queue, c)
  BY <1>1 DEF RenderInto
<1> HIDE DEF c
<1>4. queue \in Seq(Chunks) /\ c.buf \notin Bufs(queue)
  BY <1>2 DEF BaseInv, TypeOK, Queued, Bufs
<1>5. Distinct(Append(queue, c)) /\ Bufs(Append(queue, c)) = Bufs(queue) \cup {b}
  BY <1>2, <1>4, EnqueueBufs
<1>6. Distinct(queue')
  BY <1>3, <1>5
<1>7. Bufs(queue') = Bufs(queue) \cup {b}
  BY <1>3, <1>5
<1> QED
  BY <1>6, <1>7 DEF Distinct, Bufs, Queued

LEMMA BufferInit == Init => BufferInv
BY DEF Init, BufferInv, Distinct, Queued, InCallback, BuffersCirculate, Idle

LEMMA BufferCalls ==
  ASSUME Patient, BaseInv, TurnInv, BufferInv, Call
  PROVE  BufferInv'
<1> USE DEF BufferInv, Distinct, Queued, InCallback, BuffersCirculate,
        engine, flags, seeks, output
<1>1. ASSUME NEW rest \in AfterStop, StopThen(rest) PROVE BufferInv'
  <2>1. main.at = "idle" /\ main'.at \notin {"fill", "render"}
    BY <1>1, AfterStopKinds DEF StopThen, Idle
  <2> QED
    BY <1>1, <2>1 DEF StopThen
<1>2. ASSUME NEW f \in Files, NEW t \in Tracks, openFile(f, t) PROVE BufferInv'
  BY <1>1, <1>2, AfterStopIntro DEF openFile
<1>3. ASSUME NEW p \in Position, setPosition(p) PROVE BufferInv'
  <2>1. isPlaying \in BOOLEAN
    BY DEF BaseInv, TypeOK
  <2> QED
    BY <1>1, <1>3, <2>1, AfterStopIntro DEF setPosition
<1>4. ASSUME NEW t \in Tracks, setCurrentTrack(t) PROVE BufferInv'
  BY <1>4 DEF setCurrentTrack, Idle
<1>5. CASE play
  BY <1>5 DEF play, StartPlay, Idle
<1>6. CASE pause
  BY <1>6 DEF pause, Idle
<1>7. CASE stop
  BY <1>1, <1>7, AfterStopIntro DEF stop
<1>8. CASE close
  BY <1>1, <1>8, AfterStopIntro DEF close
<1>9. CASE pollIsPlaying
  BY <1>9 DEF pollIsPlaying
<1> QED
  BY <1>2, <1>3, <1>4, <1>5, <1>6, <1>7, <1>8, <1>9 DEF Call

LEMMA BufferMain ==
  ASSUME BaseInv, TurnInv, BufferInv, MainStep \/ SeekFinished
  PROVE  BufferInv'
<1> USE DEF BufferInv, Distinct, Queued, InCallback, BuffersCirculate,
        engine, flags, seeks, output
<1>1. CASE StopReturns
  <2>1. main'.at \in {"idle", "open", "close", "seek"} /\ isStopped
    BY <1>1, MainElim, AfterStopKinds DEF StopReturns, BaseInv, TypeOK
  <2>2. queue' = <<>> /\ isStopped' = isStopped /\ audio' = Idle
    BY <1>1 DEF StopReturns
  <2> QED
    BY <2>1, <2>2 DEF Idle
<1>2. CASE OpenBegins
  BY <1>2 DEF OpenBegins
<1>3. CASE OpenRefused
  BY <1>3 DEF OpenRefused, Idle
<1>4. CASE OpenEnds
  BY <1>4 DEF OpenEnds, Idle
<1>5. CASE CloseEnds
  BY <1>5 DEF CloseEnds, Idle
<1>6. CASE SeekDispatched
  BY <1>6 DEF SeekDispatched, Idle
<1>7. CASE Rewound
  BY <1>7 DEF Rewound
<1>8. CASE Armed
  BY <1>8 DEF Armed, TurnInv
<1>9. CASE FillBegins
  BY <1>9 DEF FillBegins, AsyncStop, TurnInv
<1>10. CASE FillEnds
  <2> HIDE DEF Distinct, Queued
  <2> DEFINE b == main.buf
  <2>1. b \in Buffers /\ main.at = "render"
    BY <1>10, MainElim DEF FillEnds, BaseInv, TypeOK
  <2>2. Queued = 1 .. b - 1 /\ ~isStopped /\ audio.at = "idle"
    BY <2>1 DEF TurnInv
  <2>3. b \notin Queued
    BY <2>1, <2>2 DEF Buffers
  <2>4. Distinct(queue)' /\ Queued' = Queued \cup {b}
    BY <1>10, <2>1, <2>3, RenderedBufs DEF FillEnds
  <2>5. Queued' = 1 .. b
    BY <2>1, <2>2, <2>4 DEF Buffers
  <2>6. /\ UNCHANGED <<isStopped, audio, qstate>>
        /\ \/ main'.at = "start" /\ b = NumBuffers
           \/ main' = [at |-> "fill", buf |-> b + 1]
    BY <1>10, <2>2 DEF FillEnds
  <2>7. InCallback' = {}
    BY <2>2, <2>6 DEF BaseInv, TypeOK, AudioStates, Idle
  <2>8. main'.at = "fill" => Queued' = 1 .. main'.buf - 1
    BY <2>1, <2>5, <2>6 DEF Buffers
  <2>9. main'.at = "start" => Queued' = Buffers
    BY <2>5, <2>6 DEF Buffers
  <2>10. main'.at \in {"start", "fill"}
    BY <2>6
  <2>11. BuffersCirculate'
    BY <2>7, <2>9, <2>10
  <2> QED
    BY <2>2, <2>4, <2>6, <2>7, <2>8, <2>10, <2>11
<1>11. CASE Started
  BY <1>11 DEF Started, Idle
<1>12. CASE TrackSet
  BY <1>12 DEF TrackSet, Idle
<1>13. CASE SeekFinished
  <2>. HIDE DEF BufferInv
  <2>1. main.at = "idle" /\ main'.at \in {"idle", "rewind", "arm"}
    <3>1. main = Idle /\ (main' = main \/ main' = [at |-> "rewind"]
                                      \/ main' = [at |-> "arm"])
      BY <1>13 DEF SeekFinished, StartPlay
    <3> QED
      BY <3>1 DEF Idle
  <2>2. UNCHANGED <<isStopped, audio, queue, qstate>>
    BY <1>13 DEF SeekFinished
  <2> QED
    BY <2>1, <2>2 DEF BufferInv
<1> QED
  BY <1>1, <1>2, <1>3, <1>4, <1>5, <1>6, <1>7, <1>8, <1>9, <1>10, <1>11, <1>12,
     <1>13
  DEF MainStep

LEMMA BufferOthers ==
  ASSUME BaseInv, TurnInv, BufferInv, AudioStep \/ HardwareStep \/ SeekStep
  PROVE  BufferInv'
<1> USE DEF BufferInv, InCallback, BuffersCirculate, engine, flags, seeks, output
<1>1. CASE BufferPlayed
  <2>1. queue \in Seq(Chunks) /\ queue # <<>> /\ queue' = Tail(queue)
    BY <1>1 DEF BufferPlayed, BaseInv, TypeOK
  <2>2. /\ Distinct(Tail(queue)) /\ Head(queue).buf \in Bufs(queue)
        /\ Bufs(Tail(queue)) = Bufs(queue) \ {Head(queue).buf}
    BY <2>1, DequeueBufs
  <2>3. Distinct(queue)'
    BY <2>1, <2>2 DEF Distinct
  <2>4. Queued' = Queued \ {Head(queue).buf} /\ Head(queue).buf \in Queued
    BY <2>1, <2>2 DEF Queued, Bufs
  <2>5. InCallback = {} /\ InCallback' = {Head(queue).buf}
    BY <1>1 DEF BufferPlayed, Idle
  <2>6. /\ UNCHANGED <<isStopped, main, qstate>> /\ audio'.at = "check"
        /\ qstate # "stopped"
    BY <1>1 DEF BufferPlayed
  <2> QED
    BY <2>3, <2>4, <2>5, <2>6 DEF TurnInv
<1>2. CASE Drained
  BY <1>2 DEF Drained, Queued, Distinct, Idle, TurnInv
<1>3. CASE CallbackBegins
  BY <1>3 DEF CallbackBegins, Queued, Distinct, Idle, TurnInv
<1>4. CASE TrackEnded
  BY <1>4 DEF TrackEnded, AsyncStop, Queued, Distinct, Idle, TurnInv
<1>5. CASE CallbackEnds
  <2>1. audio.buf \in Buffers /\ audio.at = "render"
    BY <1>5, AudioElim DEF CallbackEnds, BaseInv, TypeOK
  <2>2. InCallback = {audio.buf} /\ InCallback' = {}
    BY <1>5, <2>1 DEF CallbackEnds, Idle
  <2>3. Distinct(queue)' /\ Queued' = Queued \cup {audio.buf}
    BY <1>5, <2>1, <2>2, RenderedBufs DEF CallbackEnds
  <2>4. /\ UNCHANGED <<isStopped, main, qstate>> /\ audio'.at = "idle"
        /\ qstate # "stopped"
    BY <1>5 DEF CallbackEnds, Idle, TurnInv
  <2> QED
    BY <2>2, <2>3, <2>4 DEF TurnInv
<1>6. CASE SeekBegins
  BY <1>6 DEF SeekBegins, Queued, Distinct
<1>7. CASE SeekEnds
  BY <1>7 DEF SeekEnds, Queued, Distinct
<1> QED
  BY <1>1, <1>2, <1>3, <1>4, <1>5, <1>6, <1>7
  DEF AudioStep, HardwareStep, SeekStep

LEMMA BufferStep ==
  Patient /\ BaseInv /\ TurnInv /\ BufferInv /\ [Next]_vars => BufferInv'
<1>1. BufferInv /\ UNCHANGED vars => BufferInv'
  BY DEF BufferInv, Distinct, Queued, InCallback, BuffersCirculate, vars
<1> QED
  BY <1>1, BufferCalls, BufferMain, BufferOthers DEF Next

LEMMA BufferAlways == ASSUME Patient PROVE Spec => []BufferInv
BY BufferInit, BufferStep, BaseAlways, TurnAlways, PTL DEF Spec

\* No buffer ever has two owners.
THEOREM Owned == ASSUME Patient PROVE Spec => []BufferOwnership
<1>1. BaseInv /\ TurnInv /\ BufferInv => BufferOwnership
  <2> SUFFICES ASSUME BaseInv, TurnInv, BufferInv PROVE BufferOwnership
    OBVIOUS
  <2>1. main.at = "render" => audio.at = "idle" /\ main.buf \notin Queued
    BY MainElim DEF TurnInv, BufferInv, BaseInv, TypeOK, Buffers
  <2>2. audio.at = "idle" => InCallback = {}
    BY DEF BaseInv, TypeOK, AudioStates, Idle, InCallback
  <2> QED
    BY <2>1, <2>2 DEF BufferOwnership, BufferInv, Distinct, InFill
<1> QED
  BY <1>1, BaseAlways, TurnAlways, BufferAlways, PTL

-----------------------------------------------------------------------------
(* No buffer is lost, whoever calls: fillBuffers hands out what a stop has  *)
(* taken away, and the callback gives back what it holds.                   *)

\* What fillBuffers has handed out, and what the callback will enqueue again;
\* at the end of a track it will not.
Handed == IF main.at \in {"fill", "render"} THEN 1 .. main.buf - 1 ELSE Buffers
Held == IF audio.at \in {"check", "render"} THEN {audio.buf} ELSE {}

HandedInv == ~isStopped => Handed \subseteq Queued \cup Held

LEMMA RenderedKept ==
  ASSUME queue \in Seq(Chunks), NEW t, NEW b, RenderInto(t, b)
  PROVE  Queued \cup {b} \subseteq Queued'
<1>1. CASE UNCHANGED queue /\ \E i \in DOMAIN queue : queue[i].buf = b
  BY <1>1 DEF Queued
<1>2. ASSUME NEW c, c.buf = b, queue' = Append(queue, c) PROVE Queued \cup {b} \subseteq Queued'
  <2>1. /\ DOMAIN queue = 1 .. Len(queue) /\ DOMAIN queue' = 1 .. Len(queue) + 1
        /\ \A i \in 1 .. Len(queue) : queue'[i] = queue[i]
        /\ queue'[Len(queue) + 1] = c /\ Len(queue) \in Nat
    BY <1>2
  <2>2. ASSUME NEW x \in Queued PROVE x \in Queued'
    <3>1. PICK i \in DOMAIN queue : x = queue[i].buf
      BY DEF Queued
    <3>2. i \in DOMAIN queue' /\ x = queue'[i].buf
      BY <2>1, <3>1
    <3> QED
      BY <3>2 DEF Queued
  <2>3. Len(queue) + 1 \in DOMAIN queue' /\ b = queue'[Len(queue) + 1].buf
    BY <1>2, <2>1
  <2> QED
    BY <2>2, <2>3 DEF Queued
<1> QED
  BY SMTT(30), <1>1, <1>2 DEF RenderInto

LEMMA PlayedKept ==
  ASSUME queue \in Seq(Chunks), queue # <<>>, queue' = Tail(queue)
  PROVE  Queued \subseteq Queued' \cup {Head(queue).buf}
<1>1. /\ DOMAIN queue = 1 .. Len(queue) /\ DOMAIN queue' = 1 .. Len(queue) - 1
      /\ \A i \in 1 .. Len(queue) - 1 : queue'[i] = queue[i + 1]
      /\ Head(queue) = queue[1] /\ Len(queue) \in Nat \ {0}
  OBVIOUS
<1>2. ASSUME NEW x \in Queued, x # Head(queue).buf PROVE x \in Queued'
  <2>1. PICK i \in DOMAIN queue : x = queue[i].buf
    BY DEF Queued
  <2>2. i - 1 \in DOMAIN queue' /\ x = queue'[i - 1].buf
    BY <1>1, <1>2, <2>1
  <2> QED
    BY <2>2 DEF Queued
<1> QED
  BY <1>2

LEMMA HandedStep == BaseInv /\ HandedInv /\ [Next]_vars => HandedInv'
<1> SUFFICES ASSUME BaseInv, HandedInv, [Next]_vars, ~isStopped'
             PROVE  Handed' \subseteq Queued' \cup Held'
  BY DEF HandedInv
<1> USE DEF HandedInv, Handed, Held, engine, flags, seeks, output
<1>0. queue \in Seq(Chunks)
  BY DEF BaseInv, TypeOK
<1>1. ASSUME UNCHANGED queue PROVE Queued' = Queued
  BY <1>1 DEF Queued
<1>2. CASE Call
  <2>1. CASE \/ stop \/ close \/ \E f \in Files, t \in Tracks : openFile(f, t)
             \/ \E p \in Position : setPosition(p)
    BY <2>1 DEF openFile, setPosition, stop, close, StopThen
  <2>2. CASE play \/ pause \/ pollIsPlaying \/ \E t \in Tracks : setCurrentTrack(t)
    BY <1>1, <2>2 DEF play, pause, pollIsPlaying, setCurrentTrack, StartPlay, Idle
  <2> QED
    BY <1>2, <2>1, <2>2 DEF Call
<1>3. CASE StopReturns
  BY <1>3 DEF StopReturns, BaseInv
<1>4. CASE OpenBegins \/ OpenRefused \/ OpenEnds \/ CloseEnds \/ SeekDispatched
           \/ Rewound \/ Started \/ TrackSet
  BY <1>1, <1>4 DEF OpenBegins, OpenRefused, OpenEnds, CloseEnds, SeekDispatched,
                    Rewound, Started, TrackSet, Idle
<1>5. CASE Armed
  BY <1>1, <1>5 DEF Armed
<1>6. CASE FillBegins
  BY <1>1, <1>6 DEF FillBegins
<1>7. CASE FillEnds
  <2>1. main.buf \in Buffers
    BY <1>7, MainElim DEF FillEnds, BaseInv, TypeOK
  <2>2. Queued \cup {main.buf} \subseteq Queued' /\ ~isStopped /\ UNCHANGED audio
    BY <1>0, <1>7, RenderedKept DEF FillEnds
  <2>3. Handed' \subseteq Handed \cup {main.buf}
    BY <1>7, <2>1, <2>2 DEF FillEnds, Buffers
  <2> QED
    BY <2>2, <2>3
<1>8. CASE SeekFinished
  <2>1. main.at = "idle" /\ UNCHANGED <<queue, audio, isStopped>>
    BY <1>8 DEF SeekFinished, Idle
  <2>2. StartPlay \/ main' = main
    BY <1>8 DEF SeekFinished
  <2>3. StartPlay => main'.at \in {"rewind", "arm"}
    BY DEF StartPlay
  <2> QED
    BY <1>1, <2>1, <2>2, <2>3
<1>9. CASE CallbackBegins
  BY <1>1, <1>9 DEF CallbackBegins
<1>10. CASE TrackEnded
  BY <1>1, <1>10 DEF TrackEnded, Idle
<1>11. CASE CallbackEnds
  <2>1. Queued \cup {audio.buf} \subseteq Queued' /\ UNCHANGED <<main, isStopped>>
    BY <1>0, <1>11, RenderedKept DEF CallbackEnds
  <2> QED
    BY <1>11, <2>1 DEF CallbackEnds
<1>12. CASE BufferPlayed
  <2>1. Queued \subseteq Queued' \cup {Head(queue).buf}
    BY <1>0, <1>12, PlayedKept DEF BufferPlayed
  <2> QED
    BY <1>12, <2>1 DEF BufferPlayed, Idle
<1>13. CASE Drained \/ SeekStep \/ UNCHANGED vars
  BY <1>1, <1>13 DEF Drained, SeekStep, SeekBegins, SeekEnds, vars
<1> QED
  BY <1>2, <1>3, <1>4, <1>5, <1>6, <1>7, <1>8, <1>9, <1>10, <1>11, <1>12, <1>13
  DEF Next, MainStep, AudioStep, HardwareStep

\* While the player runs no buffer is ever lost, whoever calls.
THEOREM Circulate == Spec => []BuffersCirculate
<1>1. Init => HandedInv
  BY DEF Init, HandedInv
<1>2. BaseInv /\ HandedInv => BuffersCirculate
  <2> SUFFICES ASSUME BaseInv, HandedInv, ~isStopped, main.at \notin {"fill", "render"}
               PROVE  Queued \cup InCallback = Buffers
    BY DEF BuffersCirculate
  <2>1. Buffers \subseteq Queued \cup Held
    BY DEF HandedInv, Handed
  <2>2. ASSUME NEW i \in DOMAIN queue PROVE queue[i].buf \in Buffers
    <3>1. queue[i] \in Chunks
      BY DEF BaseInv, TypeOK
    <3> QED
      BY <3>1 DEF Chunks
  <2>3. Queued \subseteq Buffers
    BY <2>2 DEF Queued
  <2>4. Held \subseteq InCallback /\ InCallback \subseteq Buffers
    BY AudioElim DEF BaseInv, TypeOK, AudioStates, Held, InCallback, Idle
  <2> QED
    BY <2>1, <2>3, <2>4
<1> QED
  BY <1>1, <1>2, HandedStep, BaseAlways, PTL DEF Spec

-----------------------------------------------------------------------------
(* Seeking.                                                                 *)

\* A seek in progress has the data source to itself: the same facts that keep
\* the threads apart keep the others' hands off its position.
THEOREM SeekAlone == ASSUME Patient PROVE Spec => SeekUndisturbed
<1> DEFINE Alone == Outstanding => \/ emu' = emu
                                   \/ isSeeking /\ emu' = Moved(emu, Head(seekQueue).pos)
<1>1. ASSUME BaseInv, TurnInv, Outstanding, [Next]_vars
      PROVE  emu' = emu \/ (isSeeking /\ emu' = Moved(emu, Head(seekQueue).pos))
  <2>1. main.at = "idle" /\ audio.at = "idle"
    BY <1>1 DEF TurnInv
  <2>2. CASE Call
    BY <2>2 DEF Call, openFile, setPosition, setCurrentTrack, play, pause, stop,
                close, pollIsPlaying, StopThen, StartPlay, engine
  <2>3. CASE MainStep
    BY <2>1, <2>3 DEF MainStep, StopReturns, OpenBegins, OpenRefused, OpenEnds,
       CloseEnds, SeekDispatched, Rewound, Armed, FillBegins, FillEnds, Started,
       TrackSet
  <2>4. CASE SeekFinished
    BY <2>4 DEF SeekFinished, StartPlay, engine
  <2>5. CASE AudioStep
    BY <2>1, <2>5 DEF AudioStep, CallbackBegins, TrackEnded, CallbackEnds
  <2>6. CASE HardwareStep
    BY <2>6 DEF HardwareStep, BufferPlayed, Drained, engine
  <2>7. CASE SeekStep
    BY <2>7 DEF SeekStep, SeekBegins, SeekEnds
  <2>8. CASE UNCHANGED vars
    BY <2>8 DEF vars
  <2> QED
    BY <1>1, <2>2, <2>3, <2>4, <2>5, <2>6, <2>7, <2>8 DEF Next
<1>2. BaseInv /\ TurnInv /\ [Next]_vars => [Alone]_vars
  BY <1>1
<1> QED
  BY <1>2, BaseAlways, TurnAlways, PTL DEF Spec, SeekUndisturbed

-----------------------------------------------------------------------------
(* The notifications.                                                       *)

\* What NoticeMatches says at rest, with what the methods on their way make
\* of it: the sound that play is about to start, the stop that is about to be
\* told, and the end of a track that the callback is about to tell.  A play that
\* met the end of the track has left a buffer behind; none comes back while the
\* player is stopped, so that the case remains told apart from all others.
NoticeInv ==
  /\ main.at = "start" =>
       /\ audio.at = "idle" /\ qstate \in {"stopped", "paused"}
       /\ isStopped => Queued # Buffers
  /\ posted = "Started" =>
       /\ qstate = "running"
       /\ isStopped => \/ main.at = "stopping" \/ audio.at = "end"
                       \/ Queued # Buffers
  /\ posted = "Paused" =>
       qstate = "paused" /\ (~isStopped \/ main.at = "stopping" \/ audio.at = "end")
  /\ posted = "Stopped" => isStopped \/ main.at \in {"fill", "render", "start"}

LEMMA QueuedInBuffers == BaseInv => Queued \subseteq Buffers
<1>1. ASSUME BaseInv, NEW i \in DOMAIN queue PROVE queue[i].buf \in Buffers
  <2>1. queue[i] \in Chunks
    BY <1>1 DEF BaseInv, TypeOK
  <2> QED
    BY <2>1 DEF Chunks
<1> QED
  BY <1>1 DEF Queued

LEMMA NoticeStep ==
  Patient /\ BaseInv /\ TurnInv /\ BufferInv /\ NoticeInv /\ [Next]_vars => NoticeInv'
<1> SUFFICES ASSUME Patient, BaseInv, TurnInv, BufferInv, NoticeInv, [Next]_vars
             PROVE  NoticeInv'
  OBVIOUS
<1> USE DEF NoticeInv, engine, flags, seeks, output
<1>0. ASSUME UNCHANGED queue PROVE Queued' = Queued
  BY <1>0 DEF Queued
<1>1. ASSUME NEW rest \in AfterStop, StopThen(rest) PROVE NoticeInv'
  <2>1. main'.at # "start"
    BY <1>1, AfterStopKinds DEF StopThen
  <2>2. Queued' = Queued
    BY <1>0, <1>1 DEF StopThen
  <2> QED
    BY <1>1, <2>1, <2>2 DEF StopThen, Idle
<1>2. CASE Call
  <2>1. isPlaying \in BOOLEAN
    BY DEF BaseInv, TypeOK
  <2>2. CASE \/ stop \/ close \/ \E f \in Files, t \in Tracks : openFile(f, t)
             \/ \E p \in Position : setPosition(p)
    BY <1>1, <2>1, <2>2, AfterStopIntro DEF openFile, setPosition, stop, close
  <2>3. CASE play \/ \E t \in Tracks : setCurrentTrack(t)
    BY <1>0, <2>3 DEF play, setCurrentTrack, StartPlay, Idle
  <2>4. CASE pause \/ pollIsPlaying
    BY <1>0, <2>4 DEF pause, pollIsPlaying, Idle
  <2> QED
    BY <1>2, <2>2, <2>3, <2>4 DEF Call
<1>3. CASE MainStep \/ SeekFinished
  <2>1. CASE StopReturns
    <3>1. main'.at \in {"idle", "open", "close", "seek"} /\ isStopped'
      BY <2>1, MainElim, AfterStopKinds DEF StopReturns, BaseInv, TypeOK
    <3> QED
      BY <2>1, <3>1 DEF StopReturns
  <2>2. CASE OpenBegins \/ OpenRefused \/ OpenEnds \/ CloseEnds \/ SeekDispatched
    BY <1>0, <2>2 DEF OpenBegins, OpenRefused, OpenEnds, CloseEnds, SeekDispatched,
                      Idle
  <2>3. CASE Rewound \/ TrackSet
    BY <1>0, <2>3 DEF Rewound, TrackSet, Idle
  <2>4. CASE Armed
    <3>1. audio.at = "idle" /\ qstate \in {"stopped", "paused"}
      BY <2>4 DEF Armed, TurnInv
    <3> QED
      BY <1>0, <2>4, <3>1 DEF Armed
  <2>5. CASE FillBegins
    <3>1. /\ main.at = "fill" /\ qstate = "stopped" /\ audio.at = "idle" /\ ~isStopped
          /\ Queued = 1 .. main.buf - 1 /\ main.buf \in Buffers
      BY <2>5, MainElim DEF FillBegins, TurnInv, BufferInv, BaseInv, TypeOK
    <3>2. Queued # Buffers
      BY <3>1 DEF Buffers
    <3>3. Queued' = Queued /\ UNCHANGED audio
      BY <1>0, <2>5 DEF FillBegins
    <3>4. CASE TrackHasEnded
      <4>1. /\ main'.at = "start" /\ qstate' = "stopped" /\ posted' = "Stopped"
            /\ isStopped'
        BY <2>5, <3>1, <3>4 DEF FillBegins, AsyncStop
      <4> QED
        BY <3>1, <3>2, <3>3, <4>1
    <3>5. CASE ~TrackHasEnded
      <4>1. main'.at = "render" /\ UNCHANGED <<isStopped, qstate, posted>>
        BY <2>5, <3>1, <3>5 DEF FillBegins
      <4> QED
        BY <3>1, <3>3, <4>1
    <3> QED
      BY <3>4, <3>5
  <2>6. CASE FillEnds
    <3>1. /\ main.at = "render" /\ qstate = "stopped" /\ audio.at = "idle"
          /\ ~isStopped /\ main'.at \in {"start", "fill"}
      BY <2>6 DEF FillEnds, TurnInv, BufferInv
    <3>2. UNCHANGED <<isStopped, audio, qstate, posted>>
      BY <2>6 DEF FillEnds
    <3> QED
      BY <3>1, <3>2
  <2>7. CASE Started
    BY <1>0, <2>7 DEF Started, Idle
  <2>8. CASE SeekFinished
    <3>1. UNCHANGED <<isStopped, audio, qstate, posted>> /\ Queued' = Queued
      BY <1>0, <2>8 DEF SeekFinished
    <3>2. main = Idle /\ (StartPlay \/ main' = main)
      BY <2>8 DEF SeekFinished
    <3>3. StartPlay => main'.at \in {"rewind", "arm"}
      BY DEF StartPlay
    <3> QED
      BY <3>1, <3>2, <3>3 DEF Idle
  <2> QED
    BY <1>3, <2>1, <2>2, <2>3, <2>4, <2>5, <2>6, <2>7, <2>8 DEF MainStep
<1>4. CASE AudioStep
  <2>1. CASE CallbackBegins
    BY <1>0, <2>1 DEF CallbackBegins
  <2>2. CASE TrackEnded
    BY <2>2 DEF TrackEnded, AsyncStop, BufferInv
  <2>3. CASE CallbackEnds
    BY <2>3 DEF CallbackEnds, TurnInv, Idle
  <2> QED
    BY <1>4, <2>1, <2>2, <2>3 DEF AudioStep
<1>5. CASE HardwareStep
  <2>1. CASE BufferPlayed
    <3>1. queue \in Seq(Chunks) /\ queue # <<>> /\ queue' = Tail(queue)
      BY <2>1 DEF BufferPlayed, BaseInv, TypeOK
    <3>2. Bufs(Tail(queue)) = Bufs(queue) \ {Head(queue).buf}
      BY <3>1, DequeueBufs DEF BufferInv
    <3>3. Queued' \subseteq Queued
      BY <3>1, <3>2 DEF Queued, Bufs
    <3>4. Queued # Buffers => Queued' # Buffers
      BY <3>3, QueuedInBuffers
    <3>5. /\ UNCHANGED <<isStopped, main, qstate, posted>>
          /\ qstate \in {"running", "draining"} /\ audio.at = "idle"
      BY <2>1 DEF BufferPlayed, Idle
    <3> QED
      BY <3>4, <3>5
  <2>2. CASE Drained
    BY <1>0, <2>2 DEF Drained
  <2> QED
    BY <1>5, <2>1, <2>2 DEF HardwareStep
<1>6. CASE SeekStep
  BY <1>0, <1>6 DEF SeekStep, SeekBegins, SeekEnds
<1>7. CASE UNCHANGED vars
  BY <1>0, <1>7 DEF vars
<1> QED
  BY <1>2, <1>3, <1>4, <1>5, <1>6, <1>7 DEF Next

\* The play button tells the truth whenever no method is running, but after a
\* play that met the end of the track, and that case stays apart: the callback
\* never leaves a Started behind, and it never tells the end of a track to a
\* player that was started again meanwhile, which Patient clients do not.
THEOREM Notices == ASSUME Patient PROVE Spec => []NoticeMatches
<1>1. Init => NoticeInv
  BY DEF Init, NoticeInv, Idle
<1>2. NoticeInv => NoticeMatches
  BY DEF NoticeInv, NoticeMatches, StartedOnEnd, Idle
<1> QED
  BY <1>1, <1>2, NoticeStep, BaseAlways, TurnAlways, BufferAlways, PTL DEF Spec

-----------------------------------------------------------------------------
(* The sound.  A stretch of the track is a queue of chunks and what stands  *)
(* behind the last of them.                                                 *)

\* d continues e, or begins a track, or there is no more.
Continues(d, e) == d = Advanced(e) \/ d = NoEmu \/ d.pos = 0

Stretch(q, behind) ==
  /\ \A i \in 1 .. Len(q) : q[i].src # NoEmu
  /\ \A i \in 1 .. Len(q) - 1 : Continues(q[i + 1].src, q[i].src)
  /\ Len(q) > 0 => Continues(behind, q[Len(q)].src)

LEMMA StretchIsGapless ==
  ASSUME queue \in Seq(Chunks), Stretch(queue, emu)
  PROVE  Gapless
<1>1. Len(queue) \in Nat
  OBVIOUS
<1> QED
  BY <1>1 DEF Gapless, Stretch, Continues

\* Somewhere else only as the beginning of a track.
LEMMA StretchMoved ==
  ASSUME NEW q \in Seq(Chunks), NEW e, NEW d, Stretch(q, e),
         d = e \/ d = NoEmu \/ d.pos = 0
  PROVE  Stretch(q, d)
BY DEF Stretch, Continues

LEMMA StretchEmpty == ASSUME NEW d PROVE Stretch(<<>>, d)
BY DEF Stretch

LEMMA StretchPlayed ==
  ASSUME NEW q \in Seq(Chunks), q # <<>>, NEW e, Stretch(q, e)
  PROVE  Stretch(Tail(q), e)
<1> DEFINE r == Tail(q)
<1>1. /\ Len(q) \in Nat \ {0} /\ Len(r) = Len(q) - 1
      /\ \A i \in 1 .. Len(q) - 1 : r[i] = q[i + 1]
  OBVIOUS
<1> HIDE DEF r
<1>2. ASSUME NEW i \in 1 .. Len(r) PROVE r[i].src # NoEmu
  BY <1>1 DEF Stretch
<1>3. ASSUME NEW i \in 1 .. Len(r) - 1 PROVE Continues(r[i + 1].src, r[i].src)
  BY <1>1 DEF Stretch
<1>4. ASSUME Len(r) > 0 PROVE Continues(e, r[Len(r)].src)
  BY <1>1, <1>4 DEF Stretch
<1>5. Stretch(r, e)
  BY <1>2, <1>3, <1>4 DEF Stretch
<1> QED
  BY <1>5 DEF r

LEMMA StretchRendered ==
  ASSUME NEW q \in Seq(Chunks), NEW b \in Buffers, NEW e \in Emus, Stretch(q, e)
  PROVE  Stretch(Append(q, [buf |-> b, src |-> e]), Advanced(e))
<1> DEFINE r == Append(q, [buf |-> b, src |-> e])
<1>1. /\ Len(q) \in Nat /\ Len(r) = Len(q) + 1
      /\ \A i \in 1 .. Len(q) : r[i] = q[i]
      /\ r[Len(r)].src = e
  OBVIOUS
<1> HIDE DEF r
<1>2. ASSUME NEW i \in 1 .. Len(r) PROVE r[i].src # NoEmu
  BY <1>1 DEF Stretch
<1>3. ASSUME NEW i \in 1 .. Len(r) - 1 PROVE Continues(r[i + 1].src, r[i].src)
  <2>1. CASE i = Len(q)
    BY <1>1, <2>1 DEF Stretch
  <2>2. CASE i # Len(q)
    <3>1. i \in 1 .. Len(q) - 1 /\ i + 1 \in 1 .. Len(q)
      BY <1>1, <2>2
    <3> QED
      BY <1>1, <3>1 DEF Stretch
  <2> QED
    BY <2>1, <2>2
<1>4. Continues(Advanced(e), r[Len(r)].src)
  BY <1>1 DEF Continues
<1>5. Stretch(r, Advanced(e))
  BY <1>2, <1>3, <1>4 DEF Stretch
<1> QED
  BY <1>5 DEF r

\* A thread that renders is still inside the data source it began with.
GaplessInv ==
  /\ Stretch(queue, emu)
  /\ main.at = "render" => "main" \in inside
  /\ audio.at = "render" => "audio" \in inside

LEMMA GaplessRender ==
  ASSUME BaseInv, GaplessInv, NEW t \in {"main", "audio"}, NEW b \in Buffers,
         t \in inside, b \notin Queued, RenderInto(t, b)
  PROVE  Stretch(queue, emu)'
<1>1. emu \in Emus /\ queue \in Seq(Chunks)
  BY DEF BaseInv, TypeOK
<1>2. \A i \in DOMAIN queue : queue[i].buf # b
  BY DEF Queued
<1>3. queue' = Append(queue, [buf |-> b, src |-> emu]) /\ emu' = Advanced(emu)
  BY <1>2 DEF RenderInto
<1> QED
  BY <1>1, <1>3, StretchRendered DEF GaplessInv

LEMMA GaplessStep ==
  Patient /\ BaseInv /\ TurnInv /\ BufferInv /\ GaplessInv /\ [Next]_vars => GaplessInv'
<1> SUFFICES ASSUME Patient, BaseInv, TurnInv, BufferInv, GaplessInv, [Next]_vars
             PROVE  GaplessInv'
  OBVIOUS
<1> USE DEF engine, flags, seeks, output
<1>0. queue \in Seq(Chunks)
  BY DEF BaseInv, TypeOK
<1>1. ASSUME UNCHANGED <<emu, queue>> PROVE Stretch(queue, emu)'
  BY <1>1 DEF GaplessInv
<1>2. ASSUME UNCHANGED queue, emu' = NoEmu \/ emu'.pos = 0 PROVE Stretch(queue, emu)'
  BY <1>0, <1>2, StretchMoved DEF GaplessInv
<1>3. ASSUME queue' = <<>> PROVE Stretch(queue, emu)'
  BY <1>3, StretchEmpty
<1>4. emu # NoEmu => Moved(emu, 0).pos = 0
  BY DEF Moved, Wrap, BaseInv, TypeOK, Emus
<1>5. CASE Call
  <2>1. UNCHANGED <<emu, queue, audio>> /\ inside \subseteq inside'
    BY <1>5 DEF Call, openFile, setPosition, setCurrentTrack, play, pause, stop,
                close, pollIsPlaying, StopThen, StartPlay, Enter
  <2>2. main'.at # "render"
    <3>1. ASSUME NEW rest \in AfterStop, StopThen(rest) PROVE main'.at # "render"
      BY <3>1, AfterStopKinds DEF StopThen
    <3>2. isPlaying \in BOOLEAN
      BY DEF BaseInv, TypeOK
    <3>3. CASE \/ stop \/ close \/ \E f \in Files, t \in Tracks : openFile(f, t)
               \/ \E p \in Position : setPosition(p)
      BY <3>1, <3>2, <3>3, AfterStopIntro DEF openFile, setPosition, stop, close
    <3>4. CASE play \/ pause \/ pollIsPlaying \/ \E t \in Tracks : setCurrentTrack(t)
      BY <3>4 DEF play, setCurrentTrack, pause, pollIsPlaying, StartPlay, Idle
    <3> QED
      BY <1>5, <3>3, <3>4 DEF Call
  <2> QED
    BY <1>1, <2>1, <2>2 DEF GaplessInv
<1>6. CASE MainStep \/ SeekFinished
  <2>1. CASE StopReturns
    <3>1. main'.at # "render"
      BY <2>1, MainElim, AfterStopKinds DEF StopReturns, BaseInv, TypeOK
    <3> QED
      BY <1>3, <2>1, <3>1 DEF StopReturns, GaplessInv
  <2>2. CASE OpenBegins
    <3>1. audio.at # "render" /\ main'.at # "render"
      BY <2>2 DEF OpenBegins, TurnInv, BaseInv
    <3>2. Stretch(queue, emu)'
      BY <1>1, <1>2, <2>2 DEF OpenBegins
    <3> QED
      BY <2>2, <3>1, <3>2 DEF OpenBegins, GaplessInv
  <2>3. CASE OpenEnds
    <3>1. audio.at # "render" /\ main'.at # "render"
      BY <2>3 DEF OpenEnds, TurnInv, Idle
    <3>2. Stretch(queue, emu)'
      BY <1>2, <2>3 DEF OpenEnds, BaseInv, TypeOK, Emus
    <3> QED
      BY <2>3, <3>1, <3>2 DEF OpenEnds, GaplessInv
  <2>4. CASE CloseEnds
    <3>1. audio.at # "render" /\ main'.at # "render"
      BY <2>4 DEF CloseEnds, TurnInv, BaseInv, Idle
    <3>2. Stretch(queue, emu)'
      BY <1>2, <2>4 DEF CloseEnds
    <3> QED
      BY <2>4, <3>1, <3>2 DEF CloseEnds, GaplessInv
  <2>5. CASE Rewound \/ TrackSet
    <3>1. audio.at # "render" /\ main'.at # "render" /\ emu \in Emus
      BY <2>5 DEF Rewound, TrackSet, TurnInv, Idle, BaseInv, TypeOK
    <3>2. emu'.pos = 0
      BY <1>4, <2>5, <3>1, MovedType DEF Rewound, TrackSet, Emus, Position
    <3>3. Stretch(queue, emu)'
      BY <1>2, <2>5, <3>2 DEF Rewound, TrackSet
    <3> QED
      BY <2>5, <3>1, <3>3 DEF Rewound, TrackSet, GaplessInv
  <2>6. CASE OpenRefused \/ SeekDispatched \/ Armed \/ Started
    BY <1>1, <2>6 DEF OpenRefused, SeekDispatched, Armed, Started, Idle, GaplessInv
  <2>7. CASE FillBegins
    BY <1>1, <2>7 DEF FillBegins, Enter, GaplessInv
  <2>8. CASE FillEnds
    <3>1. main.buf \in Buffers /\ "main" \in inside /\ main.buf \notin Queued
      BY <2>8, MainElim DEF FillEnds, BaseInv, TypeOK, BufferInv, GaplessInv, Buffers
    <3>2. Stretch(queue, emu)'
      BY <2>8, <3>1, GaplessRender DEF FillEnds
    <3>3. main'.at # "render" /\ audio.at # "render" /\ audio' = audio
      BY <2>8 DEF FillEnds, TurnInv
    <3> QED
      BY <3>2, <3>3 DEF GaplessInv
  <2>9. CASE SeekFinished
    <3>1. main.at = "idle" /\ UNCHANGED <<queue, audio>>
      BY <2>9 DEF SeekFinished, Idle
    <3>2. StartPlay \/ UNCHANGED <<emu, inside, main>>
      BY <2>9 DEF SeekFinished
    <3>3. StartPlay => main'.at # "render" /\ emu' = emu /\ inside \subseteq inside'
      BY DEF StartPlay, Enter
    <3> QED
      BY <1>1, <3>1, <3>2, <3>3 DEF GaplessInv
  <2> QED
    BY <1>6, <2>1, <2>2, <2>3, <2>4, <2>5, <2>6, <2>7, <2>8, <2>9 DEF MainStep
<1>7. CASE CallbackBegins
  BY <1>1, <1>7 DEF CallbackBegins, Enter, Idle, GaplessInv
<1>8. CASE TrackEnded
  BY <1>1, <1>8 DEF TrackEnded, Idle, GaplessInv
<1>9. CASE CallbackEnds
  <2>1. /\ audio.buf \in Buffers /\ "audio" \in inside
        /\ audio # Idle /\ main.at # "render"
    BY <1>9, AudioElim DEF CallbackEnds, BaseInv, TypeOK, GaplessInv, Idle, TurnInv
  <2>2. audio.buf \notin Queued
    BY <2>1 DEF BufferInv, InCallback
  <2>3. Stretch(queue, emu)'
    BY <1>9, <2>1, <2>2, GaplessRender DEF CallbackEnds
  <2>4. audio'.at # "render" /\ main' = main
    BY <1>9 DEF CallbackEnds, Idle
  <2> QED
    BY <2>1, <2>3, <2>4 DEF GaplessInv
<1>10. CASE HardwareStep
  <2>1. Stretch(queue, emu)'
    BY <1>0, <1>1, <1>10, StretchPlayed DEF HardwareStep, BufferPlayed, Drained, GaplessInv
  <2> QED
    BY <1>10, <2>1 DEF HardwareStep, BufferPlayed, Drained, GaplessInv
<1>11. CASE SeekBegins
  BY <1>1, <1>11 DEF SeekBegins, Enter, GaplessInv
<1>12. CASE SeekEnds
  <2>1. queue = <<>> /\ main.at = "idle" /\ audio.at = "idle"
    BY <1>12 DEF SeekEnds, BaseInv, TurnInv, Outstanding, BufferInv
  <2> QED
    BY <1>3, <1>12, <2>1 DEF SeekEnds, GaplessInv
<1>13. CASE UNCHANGED vars
  BY <1>1, <1>13 DEF vars, GaplessInv
<1> QED
  BY <1>5, <1>6, <1>7, <1>8, <1>9, <1>10, <1>11, <1>12, <1>13
  DEF Next, AudioStep, SeekStep

\* What is heard has no gap and nothing twice: the data source is only moved
\* to the beginning of a track, or while nothing is queued.
THEOREM NoGap == ASSUME Patient PROVE Spec => []Gapless
<1>1. Init => GaplessInv
  BY StretchEmpty DEF Init, GaplessInv, Idle
<1>2. BaseInv /\ GaplessInv => Gapless
  BY StretchIsGapless DEF BaseInv, TypeOK, GaplessInv
<1> QED
  BY <1>1, <1>2, GaplessStep, BaseAlways, TurnAlways, BufferAlways, PTL DEF Spec
=============================================================================
