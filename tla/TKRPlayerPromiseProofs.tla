----------------------- MODULE TKRPlayerPromiseProofs -----------------------
(***************************************************************************)
(* The engine takes only steps that Player.tla allows, whoever calls it in *)
(* whatever order, and for a Patient client those of a Patient one.        *)
(***************************************************************************)
EXTENDS TKRPlayerPromise, TKRPlayerProofs

-----------------------------------------------------------------------------
(* The seeks, as the client counts them.                                    *)

Resumes(q) == [i \in DOMAIN q |-> q[i].resume]

LEMMA ResumesSeq ==
  ASSUME NEW q \in Seq(Seeks)
  PROVE  /\ Resumes(q) \in Seq(BOOLEAN) /\ Len(Resumes(q)) = Len(q)
         /\ Resumes(q) = <<>> <=> q = <<>>
<1>1. ASSUME NEW i \in 1 .. Len(q) PROVE q[i].resume \in BOOLEAN
  <2>1. q[i] \in Seeks
    OBVIOUS
  <2> QED
    BY <2>1 DEF Seeks
<1>2. DOMAIN q = 1 .. Len(q) /\ Len(q) \in Nat
  OBVIOUS
<1>3. Resumes(q) \in Seq(BOOLEAN) /\ Len(Resumes(q)) = Len(q)
  BY <1>1, <1>2 DEF Resumes
<1>4. q = <<>> <=> Len(q) = 0
  OBVIOUS
<1>5. \A r \in Seq(BOOLEAN) : r = <<>> <=> Len(r) = 0
  OBVIOUS
<1> QED
  BY <1>3, <1>4, <1>5

LEMMA ResumesHeadTail ==
  ASSUME NEW q \in Seq(Seeks), q # <<>>
  PROVE  /\ Head(Resumes(q)) = Head(q).resume
         /\ Resumes(Tail(q)) = Tail(Resumes(q))
<1>1. Len(q) \in Nat \ {0} /\ Tail(q) \in Seq(Seeks) /\ Len(Tail(q)) = Len(q) - 1
  OBVIOUS
<1>2. /\ Resumes(q) \in Seq(BOOLEAN) /\ Len(Resumes(q)) = Len(q)
      /\ Resumes(Tail(q)) \in Seq(BOOLEAN) /\ Len(Resumes(Tail(q))) = Len(q) - 1
  BY <1>1, ResumesSeq
<1>3. Head(Resumes(q)) = Head(q).resume
  BY <1>1, <1>2 DEF Resumes
<1>4. ASSUME NEW i \in 1 .. Len(q) - 1
      PROVE  Resumes(Tail(q))[i] = Tail(Resumes(q))[i]
  <2>1. Resumes(Tail(q))[i] = Tail(q)[i].resume /\ Tail(q)[i] = q[i + 1]
    BY <1>1 DEF Resumes
  <2>2. Tail(Resumes(q))[i] = Resumes(q)[i + 1]
    BY <1>1, <1>2
  <2>3. Resumes(q)[i + 1] = q[i + 1].resume
    BY <1>1 DEF Resumes
  <2> QED
    BY <2>1, <2>2, <2>3
<1>5. Tail(Resumes(q)) \in Seq(BOOLEAN) /\ Len(Tail(Resumes(q))) = Len(q) - 1
  BY <1>1, <1>2
<1>6. Resumes(Tail(q)) = Tail(Resumes(q))
  BY <1>2, <1>4, <1>5
<1> QED
  BY <1>3, <1>6

LEMMA ResumesAppend ==
  ASSUME NEW q \in Seq(Seeks), NEW s \in Seeks
  PROVE  Resumes(Append(q, s)) = Append(Resumes(q), s.resume)
<1>1. Len(q) \in Nat /\ Append(q, s) \in Seq(Seeks) /\ Len(Append(q, s)) = Len(q) + 1
  OBVIOUS
<1>2. /\ Resumes(q) \in Seq(BOOLEAN) /\ Len(Resumes(q)) = Len(q)
      /\ Resumes(Append(q, s)) \in Seq(BOOLEAN)
      /\ Len(Resumes(Append(q, s))) = Len(q) + 1 /\ s.resume \in BOOLEAN
  BY <1>1, ResumesSeq DEF Seeks
<1>3. ASSUME NEW i \in 1 .. Len(q) + 1
      PROVE  Resumes(Append(q, s))[i] = Append(Resumes(q), s.resume)[i]
  <2>1. Resumes(Append(q, s))[i] = Append(q, s)[i].resume
    BY <1>1 DEF Resumes
  <2>2. CASE i = Len(q) + 1
    BY <1>1, <1>2, <2>1, <2>2
  <2>3. CASE i # Len(q) + 1
    <3>1. i \in 1 .. Len(q) /\ Append(q, s)[i] = q[i]
      BY <1>1, <2>3
    <3>2. Append(Resumes(q), s.resume)[i] = Resumes(q)[i] /\ Resumes(q)[i] = q[i].resume
      BY <1>2, <3>1 DEF Resumes
    <3> QED
      BY <2>1, <3>1, <3>2
  <2> QED
    BY <2>2, <2>3
<1> QED
  BY <1>2, <1>3

\* What SeeksOf is in each of the two cases.
LEMMA SeeksCases ==
  ASSUME seekQueue \in Seq(Seeks)
  PROVE  /\ InMethod.at # "seek" => SeeksOf = Resumes(seekQueue)
         /\ InMethod.at = "seek" /\ InMethod.resume \in BOOLEAN
              => SeeksOf = Append(Resumes(seekQueue), InMethod.resume)
<1>1. Resumes(seekQueue) \in Seq(BOOLEAN)
  BY ResumesSeq
<1>2. Resumes(seekQueue) \o <<>> = Resumes(seekQueue)
  BY <1>1
<1>3. ASSUME NEW r \in BOOLEAN
      PROVE  Resumes(seekQueue) \o <<r>> = Append(Resumes(seekQueue), r)
  BY <1>1
<1> QED
  BY <1>2, <1>3 DEF SeeksOf, Resumes

-----------------------------------------------------------------------------
(* What the client sees.  A method that has called stop leaves the sound    *)
(* off; for a Patient client a sound that is on is also to be heard.        *)

SilentInv ==
  main.at \in {"stopping", "open", "opening", "close", "seek"} =>
    ~isPlaying /\ isStopped

HeardInv ==
  /\ isPlaying /\ qstate = "paused" => main.at = "start"
  /\ ~isStopped =>
       qstate \in {"running", "paused"} \/ main.at \in {"fill", "render", "start"}

LEMMA SilentStep == BaseInv /\ SilentInv /\ [Next]_vars => SilentInv'
<1> SUFFICES ASSUME BaseInv, SilentInv, [Next]_vars PROVE SilentInv'
  OBVIOUS
<1> USE DEF SilentInv, engine, flags, seeks, output
<1>1. ASSUME NEW rest \in AfterStop, StopThen(rest) PROVE SilentInv'
  BY <1>1, AfterStopKinds DEF StopThen
<1>2. CASE Call
  <2>1. isPlaying \in BOOLEAN
    BY DEF BaseInv, TypeOK
  <2>2. CASE \/ stop \/ close \/ \E f \in Files, t \in Tracks : openFile(f, t)
             \/ \E p \in Position : setPosition(p)
    BY <1>1, <2>1, <2>2, AfterStopIntro DEF openFile, setPosition, stop, close
  <2>3. CASE play \/ pause \/ pollIsPlaying \/ \E t \in Tracks : setCurrentTrack(t)
    BY <2>3 DEF play, pause, pollIsPlaying, setCurrentTrack, StartPlay, Idle
  <2> QED
    BY <1>2, <2>2, <2>3 DEF Call
<1>3. CASE StopReturns
  BY <1>3, MainElim, AfterStopKinds DEF StopReturns, BaseInv, TypeOK
<1>4. CASE MainStep /\ ~StopReturns
  BY <1>4 DEF MainStep, OpenBegins, OpenRefused, OpenEnds, CloseEnds, SeekDispatched,
              Rewound, Armed, FillBegins, FillEnds, Started, TrackSet, Idle
<1>5. CASE SeekFinished
  <2>1. main.at = "idle" /\ UNCHANGED flags
    BY <1>5 DEF SeekFinished, Idle
  <2>2. StartPlay \/ main' = main
    BY <1>5 DEF SeekFinished
  <2>3. StartPlay => main'.at \in {"rewind", "arm"}
    BY DEF StartPlay
  <2> QED
    BY <2>1, <2>2, <2>3
<1>6. CASE AudioStep
  BY <1>6 DEF AudioStep, CallbackBegins, TrackEnded, CallbackEnds
<1>7. CASE HardwareStep \/ SeekStep
  BY <1>7 DEF HardwareStep, BufferPlayed, Drained, SeekStep, SeekBegins, SeekEnds
<1>8. CASE UNCHANGED vars
  BY <1>8 DEF vars
<1> QED
  BY <1>2, <1>3, <1>4, <1>5, <1>6, <1>7, <1>8 DEF Next

LEMMA HeardStep ==
  Patient /\ BaseInv /\ TurnInv /\ BufferInv /\ HeardInv /\ [Next]_vars => HeardInv'
<1> SUFFICES ASSUME Patient, BaseInv, TurnInv, BufferInv, HeardInv, [Next]_vars
             PROVE  HeardInv'
  OBVIOUS
<1> USE DEF HeardInv, engine, flags, seeks, output
<1>1. ASSUME NEW rest \in AfterStop, StopThen(rest) PROVE HeardInv'
  BY <1>1, AfterStopKinds DEF StopThen
<1>2. CASE Call
  <2>1. isPlaying \in BOOLEAN
    BY DEF BaseInv, TypeOK
  <2>2. CASE \/ stop \/ close \/ \E f \in Files, t \in Tracks : openFile(f, t)
             \/ \E p \in Position : setPosition(p)
    BY <1>1, <2>1, <2>2, AfterStopIntro DEF openFile, setPosition, stop, close
  <2>3. CASE play \/ \E t \in Tracks : setCurrentTrack(t)
    BY <2>3 DEF play, setCurrentTrack, StartPlay, Idle
  <2>4. CASE pause \/ pollIsPlaying
    BY <2>4 DEF pause, pollIsPlaying, Idle
  <2> QED
    BY <1>2, <2>2, <2>3, <2>4 DEF Call
<1>3. CASE StopReturns
  BY <1>3 DEF StopReturns, BaseInv
<1>4. CASE Armed
  BY <1>4 DEF Armed, TurnInv
<1>5. CASE FillBegins
  BY <1>5 DEF FillBegins, AsyncStop, TurnInv
<1>6. CASE FillEnds
  BY <1>6 DEF FillEnds, RenderInto, TurnInv
<1>7. CASE MainStep /\ ~(StopReturns \/ Armed \/ FillBegins \/ FillEnds)
  BY <1>7 DEF MainStep, OpenBegins, OpenRefused, OpenEnds, CloseEnds, SeekDispatched,
              Rewound, Started, TrackSet, Idle
<1>8. CASE SeekFinished
  BY <1>8 DEF SeekFinished, StartPlay, Idle
<1>9. CASE AudioStep
  BY <1>9 DEF AudioStep, CallbackBegins, TrackEnded, AsyncStop, CallbackEnds, RenderInto,
              BufferInv
<1>10. CASE HardwareStep \/ SeekStep
  BY <1>10 DEF HardwareStep, BufferPlayed, Drained, SeekStep, SeekBegins, SeekEnds
<1>11. CASE UNCHANGED vars
  BY <1>11 DEF vars
<1> QED
  BY <1>2, <1>3, <1>4, <1>5, <1>6, <1>7, <1>8, <1>9, <1>10, <1>11 DEF Next

LEMMA SilentAlways == Spec => []SilentInv
<1>1. Init => SilentInv
  BY DEF Init, SilentInv, Idle
<1> QED
  BY <1>1, SilentStep, BaseAlways, PTL DEF Spec

LEMMA HeardAlways == ASSUME Patient PROVE Spec => []HeardInv
<1>1. Init => HeardInv
  BY DEF Init, HeardInv
<1> QED
  BY <1>1, HeardStep, BaseAlways, TurnAlways, BufferAlways, PTL DEF Spec

-----------------------------------------------------------------------------
(* Step by step.                                                            *)

USE ConstantsAssumption, NoEmuAssumption, NoSongAssumption

PromiseInv ==
  BaseInv /\ SilentInv /\ (Patient => TurnInv /\ HeardInv)

Allowed == [Promised!Next]_(Promised!vars)

LEMMA SongOpen ==
  ASSUME BaseInv, emu # NoEmu
  PROVE  /\ SongOf(emu) = [file |-> emu.file, track |-> emu.track]
         /\ SongOf(emu) \in [file : Files, track : Tracks]
         /\ SongOf(emu) # NoEmu
BY DEF BaseInv, TypeOK, SongOf, Emus

\* Steps in which the client sees nothing.
LEMMA Unseen ==
  ASSUME SongOf(emu)' = SongOf(emu),
         UNCHANGED <<isPlaying, isStopped, isSeeking, mainQueue>>,
         StartingOf' = StartingOf,
         SeeksOf' = SeeksOf
  PROVE  Allowed
BY DEF Allowed, Promised!vars, SoundOf

\* The seeks are where they were when neither the queue nor the seek that is
\* about to be dispatched has changed.
LEMMA SeeksKept ==
  ASSUME seekQueue \in Seq(Seeks), UNCHANGED seekQueue,
         InMethod.at # "seek", InMethod'.at # "seek"
  PROVE  SeeksOf' = SeeksOf /\ SeeksOf = Resumes(seekQueue)
<1>1. SeeksOf = Resumes(seekQueue)
  BY SeeksCases
<1>2. Resumes(seekQueue) \in Seq(BOOLEAN)
  BY ResumesSeq
<1>3. SeeksOf' = Resumes(seekQueue)
  BY <1>2 DEF SeeksOf, Resumes
<1> QED
  BY <1>1, <1>3

\* A method that begins with stop: for the client the sound stops, and a seek
\* is asked for, at once.
LEMMA PromiseStopThen ==
  ASSUME PromiseInv, NEW rest \in AfterStop, StopThen(rest), rest.at # "seek"
  PROVE  Allowed
<1> USE DEF PromiseInv, BaseInv, TypeOK, engine, seeks, output
<1>1. main = Idle /\ InMethod.at = "idle" /\ ~StartingOf
  BY DEF StopThen, InMethod, StartingOf, Idle
<1>2. InMethod' = rest /\ ~StartingOf'
  BY AfterStopKinds DEF StopThen, InMethod, StartingOf
<1>3. SeeksOf' = SeeksOf
  BY <1>1, <1>2, SeeksKept DEF StopThen
<1>4. SoundOf(isPlaying, isStopped)' = "stopped"
  BY DEF StopThen, SoundOf
<1>5. SongOf(emu)' = SongOf(emu) /\ UNCHANGED <<isSeeking, mainQueue>>
  BY DEF StopThen
<1>6. StartingOf' = StartingOf
  BY <1>1, <1>2 DEF StartingOf
<1>7. Promised!Stop
  BY <1>1, <1>3, <1>4, <1>5, <1>6 DEF Promised!Stop, Promised!seeking
<1> QED
  BY <1>7 DEF Allowed, Promised!Next

LEMMA SoundOn ==
  ASSUME NEW p \in BOOLEAN, NEW q \in BOOLEAN
  PROVE  (SoundOf(p, q) \in {"playing", "ended"}) = p
<1>1. CASE p
  BY <1>1 DEF SoundOf
<1>2. CASE ~p
  BY <1>2 DEF SoundOf
<1> QED
  BY <1>1, <1>2

LEMMA NoSeekOutstanding ==
  ASSUME PromiseInv, InMethod.at # "seek"
  PROVE  Promised!Outstanding <=> Outstanding
BY SeeksCases, ResumesSeq
DEF Promised!Outstanding, Outstanding, PromiseInv, BaseInv, TypeOK

LEMMA PromiseSetPosition ==
  ASSUME PromiseInv, NEW p \in Position, setPosition(p)
  PROVE  Allowed
<1> USE DEF PromiseInv, BaseInv, TypeOK, engine, seeks, output
<1> DEFINE rest == [at |-> "seek", pos |-> p, resume |-> isPlaying]
<1>1. main = Idle /\ InMethod.at = "idle" /\ ~StartingOf /\ ~isSeeking
  BY DEF setPosition, StopThen, InMethod, StartingOf, Idle
<1>2. StopThen(rest) /\ rest \in AfterStop
  BY AfterStopIntro DEF setPosition
<1>3. InMethod' = rest /\ ~StartingOf'
  BY <1>2 DEF StopThen, InMethod, StartingOf
<1>4. SeeksOf = Resumes(seekQueue)
  BY <1>1, SeeksCases
<1>5. SeeksOf' = Append(Resumes(seekQueue), isPlaying)
  <2>1. Resumes(seekQueue)' = Resumes(seekQueue) /\ Resumes(seekQueue) \in Seq(BOOLEAN)
    BY SMTT(30), <1>2, ResumesSeq DEF StopThen, Resumes
  <2>2. SeeksOf' = Resumes(seekQueue) \o <<isPlaying>>
    BY <1>3, <2>1 DEF SeeksOf, Resumes
  <2> QED
    BY <2>1, <2>2
<1>6. SeeksOf' = Append(SeeksOf, SoundOf(isPlaying, isStopped) \in {"playing", "ended"})
  BY <1>4, <1>5, SoundOn
<1>7. SoundOf(isPlaying, isStopped)' = "stopped" /\ SongOf(emu)' = SongOf(emu)
  BY <1>2 DEF StopThen, SoundOf
<1>8. Patient => ~Promised!Outstanding
  BY <1>1, NoSeekOutstanding DEF setPosition, MaySeek
<1>9. StartingOf' = StartingOf
  BY <1>1, <1>3 DEF StartingOf
<1>10. UNCHANGED <<isSeeking, mainQueue>>
  BY <1>2 DEF StopThen
<1>11. Promised!Seek
  BY <1>1, <1>6, <1>7, <1>8, <1>9, <1>10 DEF Promised!Seek
<1> QED
  BY <1>11 DEF Allowed, Promised!Next

\* play, and the end of a seek that resumes it.
LEMMA StartPlaySeen ==
  ASSUME PromiseInv, main = Idle, StartPlay, UNCHANGED <<isPlaying, isStopped>>,
         UNCHANGED <<seekQueue, isSeeking>>
  PROVE  /\ ~StartingOf /\ StartingOf' = TRUE /\ ~isSeeking
         /\ SongOf(emu) # NoEmu /\ SongOf(emu)' = SongOf(emu)
         /\ SoundOf(isPlaying, isStopped)' = SoundOf(isPlaying, isStopped)
         /\ SeeksOf' = SeeksOf /\ InMethod.at # "seek"
<1>1. ~StartingOf /\ InMethod.at # "seek"
  BY DEF StartingOf, InMethod, Idle
<1>2. main'.at \in {"rewind", "arm"}
  BY DEF StartPlay
<1>3. InMethod'.at # "seek" /\ StartingOf'
  BY <1>2 DEF StartingOf, InMethod
<1>4. SeeksOf' = SeeksOf
  BY <1>1, <1>3, SeeksKept DEF PromiseInv, BaseInv, TypeOK
<1>5. emu' = emu /\ ~isSeeking /\ emu # NoEmu
  BY DEF StartPlay
<1> QED
  BY <1>1, <1>3, <1>4, <1>5, SongOpen DEF PromiseInv, SoundOf, StartingOf

LEMMA PromisePlay == ASSUME PromiseInv, play PROVE Allowed
<1>1. StartPlay /\ main = Idle /\ UNCHANGED <<isPlaying, isStopped, seekQueue, isSeeking, mainQueue>>
  BY DEF play, flags, seeks
<1>2. Patient => ~Promised!Outstanding
  BY <1>1, StartPlaySeen, NoSeekOutstanding DEF play, MayRender
<1>3. Promised!Play
  BY <1>1, <1>2, StartPlaySeen DEF Promised!Play, Promised!seeking
<1> QED
  BY <1>3 DEF Allowed, Promised!Next

LEMMA PromiseSeekFinished == ASSUME PromiseInv, SeekFinished PROVE Allowed
<1>1. /\ main = Idle /\ mainQueue # <<>> /\ mainQueue' = Tail(mainQueue)
      /\ UNCHANGED <<isPlaying, isStopped, seekQueue, isSeeking>>
  BY DEF SeekFinished, flags
<1>2. CASE Head(mainQueue) /\ StartPlay
  <2>1. Promised!SeekFinished
    BY <1>1, <1>2, StartPlaySeen DEF Promised!SeekFinished
  <2> QED
    BY <2>1 DEF Allowed, Promised!Next
<1>3. CASE UNCHANGED <<emu, main>>
  <2>1. ~StartingOf /\ StartingOf' = StartingOf /\ InMethod.at # "seek" /\ InMethod'.at # "seek"
    BY <1>1, <1>3 DEF StartingOf, InMethod, Idle
  <2>2. SeeksOf' = SeeksOf
    BY <1>1, <2>1, SeeksKept DEF PromiseInv, BaseInv, TypeOK
  <2>3. Promised!SeekFinished
    BY <1>1, <1>3, <2>1, <2>2 DEF Promised!SeekFinished, SoundOf, SongOf
  <2> QED
    BY <2>3 DEF Allowed, Promised!Next
<1> QED
  BY <1>2, <1>3 DEF SeekFinished, engine

LEMMA PromiseCalls == ASSUME PromiseInv, Call PROVE Allowed
<1> USE DEF PromiseInv, BaseInv, TypeOK, engine, flags, seeks, output
<1>1. ASSUME NEW f \in Files, NEW t \in Tracks, openFile(f, t) PROVE Allowed
  BY <1>1, PromiseStopThen, AfterStopIntro DEF openFile
<1>2. ASSUME NEW p \in Position, setPosition(p) PROVE Allowed
  BY <1>2, PromiseSetPosition
<1>3. CASE stop \/ close
  BY <1>3, PromiseStopThen, AfterStopIntro DEF stop, close, Idle
<1>4. CASE play
  BY <1>4, PromisePlay
<1>5. ASSUME NEW t \in Tracks, setCurrentTrack(t) PROVE Allowed
  <2>1. InMethod.at # "seek" /\ InMethod'.at # "seek" /\ ~StartingOf /\ ~StartingOf'
    BY <1>5 DEF setCurrentTrack, InMethod, StartingOf, Idle
  <2>2. SeeksOf' = SeeksOf /\ StartingOf' = StartingOf
    BY <1>5, <2>1, SeeksKept DEF setCurrentTrack, StartingOf
  <2> QED
    BY <1>5, <2>2, Unseen DEF setCurrentTrack
<1>6. CASE pause \/ pollIsPlaying
  <2>1. InMethod.at # "seek" /\ InMethod' = InMethod /\ ~StartingOf /\ StartingOf' = StartingOf
    BY <1>6 DEF pause, pollIsPlaying, InMethod, StartingOf, Idle
  <2>2. SeeksOf' = SeeksOf
    BY <1>6, <2>1, SeeksKept DEF pause, pollIsPlaying
  <2>3. SongOf(emu)' = SongOf(emu) /\ UNCHANGED <<isSeeking, mainQueue>>
    BY <1>6 DEF pause, pollIsPlaying
  <2>4. CASE pause
    <3>1. SoundOf(isPlaying, isStopped)' =
            IF SoundOf(isPlaying, isStopped) \in {"playing", "paused"} THEN "paused" ELSE "stopped"
      BY <2>4 DEF pause, SoundOf
    <3>2. Promised!Pause
      BY <2>1, <2>2, <2>3, <3>1 DEF Promised!Pause, Promised!seeking
    <3> QED
      BY <3>2 DEF Allowed, Promised!Next
  <2>5. CASE pollIsPlaying
    <3>1. SoundOf(isPlaying, isStopped) = "ended" /\ SoundOf(isPlaying, isStopped)' = "stopped"
      BY <2>5 DEF pollIsPlaying, SoundOf
    <3>2. Promised!Asked
      BY <2>1, <2>2, <2>3, <3>1 DEF Promised!Asked, Promised!seeking
    <3> QED
      BY <3>2 DEF Allowed, Promised!Next
  <2> QED
    BY <1>6, <2>4, <2>5
<1> QED
  BY <1>1, <1>2, <1>3, <1>4, <1>5, <1>6 DEF Call

\* The rest of a method that has called stop, step by step.
LEMMA PromiseAfterStop ==
  ASSUME PromiseInv,
         StopReturns \/ OpenBegins \/ OpenRefused \/ OpenEnds \/ CloseEnds \/ SeekDispatched
  PROVE  Allowed
<1> USE DEF PromiseInv, BaseInv, TypeOK, engine, flags, seeks, output
<1>1. CASE StopReturns
  <2>1. main.then.at \in {"idle", "open", "close", "seek"}
    BY <1>1, MainElim, AfterStopKinds DEF StopReturns
  <2>2. InMethod' = InMethod /\ StartingOf' = StartingOf
    BY <1>1, <2>1 DEF StopReturns, InMethod, StartingOf
  <2>3. SeeksOf' = SeeksOf
    BY <1>1, <2>2 DEF StopReturns, SeeksOf
  <2> QED
    BY <1>1, <2>2, <2>3, Unseen DEF StopReturns
<1>2. CASE SeekDispatched
  <2>1. main.resume \in BOOLEAN /\ main.pos \in Position /\ main.at = "seek"
    BY <1>2, MainElim DEF SeekDispatched
  <2> DEFINE s == [pos |-> main.pos, resume |-> main.resume]
  <2>2. InMethod = main /\ InMethod'.at # "seek" /\ StartingOf' = StartingOf
    BY <1>2, <2>1 DEF SeekDispatched, InMethod, StartingOf, Idle
  <2>3. seekQueue' = Append(seekQueue, s) /\ s \in Seeks /\ s.resume = main.resume
    BY <1>2, <2>1 DEF SeekDispatched, Seeks
  <2>4. SeeksOf = Append(Resumes(seekQueue), main.resume)
    BY <2>1, <2>2, SeeksCases
  <2>5. Resumes(seekQueue)' = Append(Resumes(seekQueue), main.resume)
    BY <2>3, ResumesAppend
  <2>6. SeeksOf' = Resumes(seekQueue)' \o <<>>
    BY <2>2 DEF SeeksOf, Resumes
  <2>7. Append(Resumes(seekQueue), main.resume) \in Seq(BOOLEAN)
    BY <2>1, ResumesSeq
  <2>8. SeeksOf' = SeeksOf
    BY <2>4, <2>5, <2>6, <2>7
  <2> QED
    BY <1>2, <2>2, <2>8, Unseen DEF SeekDispatched
<1>3. CASE OpenRefused
  <2>1. InMethod.at # "seek" /\ InMethod'.at # "seek" /\ StartingOf' = StartingOf
    BY <1>3 DEF OpenRefused, InMethod, StartingOf, Idle
  <2>2. SeeksOf' = SeeksOf
    BY <1>3, <2>1, SeeksKept DEF OpenRefused
  <2> QED
    BY <1>3, <2>1, <2>2, Unseen DEF OpenRefused
<1>4. CASE OpenBegins \/ OpenEnds \/ CloseEnds
  <2>1. main.at \in {"open", "opening", "close"} /\ main'.at \in {"opening", "idle"}
    BY <1>4 DEF OpenBegins, OpenEnds, CloseEnds, Idle
  <2>2. InMethod.at # "seek" /\ InMethod'.at # "seek" /\ ~StartingOf /\ StartingOf' = StartingOf
    BY <2>1 DEF InMethod, StartingOf
  <2>3. UNCHANGED <<isPlaying, isStopped, seekQueue, isSeeking, mainQueue>>
    BY <1>4 DEF OpenBegins, OpenEnds, CloseEnds
  <2>4. SeeksOf' = SeeksOf
    BY <2>2, <2>3, SeeksKept
  <2>5. SoundOf(isPlaying, isStopped) = "stopped" /\ UNCHANGED SoundOf(isPlaying, isStopped)
    BY <2>1, <2>3 DEF SilentInv, SoundOf
  <2>6. Patient => ~Promised!Outstanding
    BY <2>1, <2>2, NoSeekOutstanding DEF TurnInv
  <2>7. ASSUME NEW s, SongOf(emu)' = s PROVE Promised!Choose(s)
    BY <2>2, <2>3, <2>4, <2>5, <2>6, <2>7 DEF Promised!Choose, Promised!seeking
  <2>8. BaseInv'
    BY <1>4, BaseMain DEF MainStep
  <2>9. SongOf(emu)' \in [file : Files, track : Tracks] \cup {NoEmu}
    BY <2>8 DEF SongOf, Emus
  <2> QED
    BY <2>7, <2>9 DEF Allowed, Promised!Next
<1> QED
  BY <1>1, <1>2, <1>3, <1>4

\* Rendering moves about in the song that is open.
LEMMA SongMoved ==
  ASSUME NEW e \in Emus, NEW p \in Position
  PROVE  SongOf(Moved(e, p)) = SongOf(e) /\ SongOf(Advanced(e)) = SongOf(e)
<1>1. Moved(e, p).file = e.file /\ Moved(e, p).track = e.track
  BY DEF Moved, Emus
<1>2. Advanced(e).file = e.file /\ Advanced(e).track = e.track
  BY DEF Advanced, Moved, Emus
<1>3. e # NoEmu /\ Moved(e, p) # NoEmu /\ Advanced(e) # NoEmu
  BY MovedType, AdvancedType
<1> QED
  BY <1>1, <1>2, <1>3 DEF SongOf

LEMMA PromiseRender ==
  ASSUME PromiseInv, NEW t \in {"main", "audio"}, NEW b, RenderInto(t, b)
  PROVE  SongOf(emu)' = SongOf(emu)
<1>1. emu' = emu \/ (emu \in Emus /\ emu' = Advanced(emu))
  BY DEF RenderInto, PromiseInv, BaseInv, TypeOK
<1>2. 0 \in Position
  BY DEF Position
<1> QED
  BY <1>1, <1>2, SongMoved DEF SongOf

\* The end of a track, found by fillBuffers or by the callback.
LEMMA PromiseEnds ==
  ASSUME PromiseInv, ~isStopped, isStopped' = TRUE, TrackHasEnded,
         UNCHANGED <<emu, isPlaying, isSeeking, mainQueue>>,
         StartingOf' = StartingOf, SeeksOf' = SeeksOf
  PROVE  Allowed
<1>1. SongOf(emu) # NoEmu /\ SongOf(emu)' = SongOf(emu)
  BY SongOpen DEF TrackHasEnded, PromiseInv, SongOf
<1>2. \/ /\ SoundOf(isPlaying, isStopped) = "playing"
         /\ SoundOf(isPlaying, isStopped)' = "ended"
      \/ /\ SoundOf(isPlaying, isStopped) = "paused"
         /\ SoundOf(isPlaying, isStopped)' = "stopped"
  BY DEF SoundOf
<1>3. Promised!Ends
  BY <1>1, <1>2 DEF Promised!Ends, Promised!seeking
<1> QED
  BY <1>3 DEF Allowed, Promised!Next

LEMMA PromiseMain ==
  ASSUME PromiseInv,
         Rewound \/ Armed \/ FillBegins \/ FillEnds \/ Started \/ TrackSet
  PROVE  Allowed
<1> USE DEF PromiseInv, BaseInv, TypeOK, engine, flags, seeks, output
<1>1. /\ main.at \in {"rewind", "arm", "fill", "render", "start", "track"}
      /\ main'.at \in {"arm", "fill", "render", "start", "idle"}
      /\ UNCHANGED <<seekQueue, isSeeking, mainQueue>>
  BY DEF Rewound, Armed, FillBegins, FillEnds, Started, TrackSet, Idle
<1>2. SeeksOf' = SeeksOf /\ InMethod.at # "seek"
  BY <1>1, SeeksKept DEF InMethod
<1>3. emu # NoEmu /\ 0 \in Position
  BY <1>1 DEF Position
<1>4. CASE Rewound
  BY <1>2, <1>3, <1>4, SongMoved, Unseen DEF Rewound, StartingOf
<1>5. CASE Armed
  <2>1. StartingOf /\ ~StartingOf'
    BY <1>5 DEF Armed, StartingOf
  <2>2. SoundOf(isPlaying, isStopped)' = "playing" /\ SongOf(emu)' = SongOf(emu)
    BY <1>5 DEF Armed, SoundOf
  <2>3. Promised!Starts
    BY <1>1, <1>2, <2>1, <2>2 DEF Promised!Starts, Promised!seeking, StartingOf
  <2> QED
    BY <2>3 DEF Allowed, Promised!Next
<1>6. CASE FillBegins
  <2>1. StartingOf' = StartingOf
    BY <1>6 DEF FillBegins, StartingOf
  <2>2. CASE UNCHANGED isStopped
    BY <1>1, <1>2, <1>6, <2>1, <2>2, Unseen DEF FillBegins
  <2>3. CASE ~isStopped /\ TrackHasEnded /\ isStopped' = TRUE
    BY <1>1, <1>2, <1>6, <2>1, <2>3, PromiseEnds DEF FillBegins
  <2> QED
    BY <1>6, <2>2, <2>3 DEF FillBegins
<1>7. CASE FillEnds
  <2>1. StartingOf' = StartingOf /\ UNCHANGED <<isPlaying, isStopped>>
    BY <1>7 DEF FillEnds, StartingOf
  <2>2. SongOf(emu)' = SongOf(emu)
    BY <1>7, PromiseRender DEF FillEnds
  <2> QED
    BY <1>1, <1>2, <2>1, <2>2, Unseen
<1>8. CASE Started
  <2>1. StartingOf' = StartingOf
    BY <1>8 DEF Started, StartingOf, Idle
  <2> QED
    BY <1>1, <1>2, <1>8, <2>1, Unseen DEF Started
<1>9. CASE TrackSet
  <2> DEFINE s == [file |-> emu.file, track |-> main.track]
  <2>1. main.at = "track" /\ ~StartingOf /\ StartingOf' = StartingOf
    BY <1>9 DEF TrackSet, StartingOf, Idle
  <2>2. main.track \in Tracks /\ emu \in Emus /\ Moved(emu, 0) \in Emus
    BY <1>3, <1>9, <2>1, MainElim, MovedType
  <2>3. SongOf(emu)' = s /\ s \in [file : Files, track : Tracks]
    <3>1. emu' \in Emus /\ emu'.file = emu.file /\ emu'.track = main.track
      BY <1>9, <2>2 DEF TrackSet, Moved, Emus
    <3> QED
      BY <2>2, <3>1 DEF SongOf, Emus
  <2>4. SongOf(emu) # NoEmu /\ SongOf(emu).file = s.file
    BY <1>3, SongOpen
  <2>5. Patient => SoundOf(isPlaying, isStopped) # "playing" /\ ~Promised!Outstanding
    <3>1. Patient => ~Outstanding /\ (isStopped \/ ~isPlaying)
      BY <2>1 DEF TurnInv, HeardInv
    <3> QED
      BY <1>2, <3>1, NoSeekOutstanding DEF SoundOf
  <2>6. Promised!SetTrack(s)
    BY <1>1, <1>2, <1>9, <2>1, <2>3, <2>4, <2>5
    DEF Promised!SetTrack, Promised!seeking, TrackSet, SoundOf
  <2> QED
    BY <2>3, <2>6 DEF Allowed, Promised!Next
<1> QED
  BY <1>4, <1>5, <1>6, <1>7, <1>8, <1>9

\* The callback and the AudioQueue.
LEMMA PromiseAudio ==
  ASSUME PromiseInv, AudioStep \/ HardwareStep
  PROVE  Allowed
<1> USE DEF PromiseInv, BaseInv, TypeOK, engine, flags, seeks, output
<1>1. UNCHANGED <<isPlaying, seekQueue, isSeeking, mainQueue, main>>
  BY DEF AudioStep, HardwareStep, CallbackBegins, TrackEnded, CallbackEnds,
         BufferPlayed, Drained
<1>2. SeeksOf' = SeeksOf /\ StartingOf' = StartingOf
  BY <1>1 DEF SeeksOf, InMethod, StartingOf
<1>3. CASE CallbackBegins
  <2>1. CASE UNCHANGED isStopped
    BY <1>1, <1>2, <1>3, <2>1, Unseen DEF CallbackBegins
  <2>2. CASE ~isStopped /\ TrackHasEnded /\ isStopped' = TRUE
    BY <1>1, <1>2, <1>3, <2>2, PromiseEnds DEF CallbackBegins
  <2> QED
    BY <1>3, <2>1, <2>2 DEF CallbackBegins
<1>4. CASE CallbackEnds
  <2>1. SongOf(emu)' = SongOf(emu) /\ UNCHANGED isStopped
    BY <1>4, PromiseRender DEF CallbackEnds
  <2> QED
    BY <1>1, <1>2, <2>1, Unseen
<1>5. CASE TrackEnded \/ HardwareStep
  BY <1>1, <1>2, <1>5, Unseen DEF TrackEnded, HardwareStep, BufferPlayed, Drained
<1> QED
  BY <1>3, <1>4, <1>5 DEF AudioStep

LEMMA PromiseSeek == ASSUME PromiseInv, SeekStep PROVE Allowed
<1> USE DEF PromiseInv, BaseInv, TypeOK, engine, flags, seeks, output
<1>1. UNCHANGED <<isPlaying, isStopped, main>> /\ seekQueue # <<>>
  BY DEF SeekStep, SeekBegins, SeekEnds
<1>2. StartingOf' = StartingOf /\ InMethod' = InMethod
  BY <1>1 DEF StartingOf, InMethod
<1>3. InMethod.at = "seek" => InMethod.resume \in BOOLEAN
  BY MainElim DEF InMethod, MainStates, AfterStop
<1>4. SoundOf(isPlaying, isStopped)' = SoundOf(isPlaying, isStopped)
  BY <1>1
<1> DEFINE q == Resumes(seekQueue)
<1>5. q \in Seq(BOOLEAN) /\ q # <<>>
  BY <1>1, ResumesSeq
<1>6. SeeksOf # <<>> /\ Head(SeeksOf) = Head(q)
  <2>1. CASE InMethod.at # "seek"
    BY <1>5, <2>1, SeeksCases
  <2>2. CASE InMethod.at = "seek"
    <3>1. SeeksOf = Append(q, InMethod.resume)
      BY <1>3, <2>2, SeeksCases
    <3> QED
      BY SMTT(30), <1>3, <1>5, <2>2, <3>1
  <2> QED
    BY <2>1, <2>2
<1>7. CASE SeekBegins
  <2>1. SeeksOf' = SeeksOf
    BY <1>2, <1>7 DEF SeekBegins, SeeksOf
  <2>2. Promised!SeekBegins
    BY <1>2, <1>4, <1>6, <1>7, <2>1 DEF Promised!SeekBegins, SeekBegins
  <2> QED
    BY <2>2 DEF Allowed, Promised!Next
<1>8. CASE SeekEnds
  <2>1. Resumes(seekQueue)' = Tail(q) /\ Head(q) = Head(seekQueue).resume
    BY <1>1, <1>8, ResumesHeadTail DEF SeekEnds
  <2>2. SeeksOf' = Tail(SeeksOf)
    <3>1. CASE InMethod.at # "seek"
      <4>1. SeeksOf' = Tail(q) \o <<>> /\ SeeksOf = q
        BY <1>2, <2>1, <3>1, SeeksCases DEF SeeksOf, Resumes
      <4> QED
        BY <1>5, <4>1
    <3>2. CASE InMethod.at = "seek"
      <4>1. SeeksOf' = Tail(q) \o <<InMethod.resume>> /\ SeeksOf = Append(q, InMethod.resume)
        BY <1>2, <1>3, <2>1, <3>2, SeeksCases DEF SeeksOf, Resumes
      <4>2. Tail(q) \o <<InMethod.resume>> = Tail(Append(q, InMethod.resume))
        BY <1>3, <1>5, <3>2
      <4> QED
        BY <4>1, <4>2
    <3> QED
      BY <3>1, <3>2
  <2>3. SongOf(emu)' = SongOf(emu)
    <3>1. Head(seekQueue) \in Seeks
      BY <1>1
    <3>2. Head(seekQueue).pos \in Position
      BY <3>1 DEF Seeks
    <3>3. emu' = emu \/ (emu \in Emus /\ emu' = Moved(emu, Head(seekQueue).pos))
      BY <1>8 DEF SeekEnds
    <3> QED
      BY <3>2, <3>3, SongMoved
  <2>4. mainQueue' = Append(mainQueue, Head(SeeksOf))
    BY <1>6, <1>8, <2>1 DEF SeekEnds
  <2>5. Promised!SeekEnds
    BY <1>2, <1>4, <1>8, <2>2, <2>3, <2>4 DEF Promised!SeekEnds, SeekEnds
  <2> QED
    BY <2>5 DEF Allowed, Promised!Next
<1> QED
  BY <1>7, <1>8 DEF SeekStep

LEMMA PromiseStep == PromiseInv /\ [Next]_vars => [Promised!Next]_(Promised!vars)
<1>1. ASSUME PromiseInv, UNCHANGED vars PROVE Allowed
  <2>1. StartingOf' = StartingOf /\ SeeksOf' = SeeksOf
    BY <1>1 DEF vars, StartingOf, SeeksOf, InMethod
  <2> QED
    BY <1>1, <2>1, Unseen DEF vars
<1>2. ASSUME PromiseInv, Next PROVE Allowed
  BY <1>2, PromiseCalls, PromiseAfterStop, PromiseMain, PromiseSeekFinished,
     PromiseAudio, PromiseSeek
  DEF Next, MainStep
<1> QED
  BY <1>1, <1>2 DEF Allowed

LEMMA PromiseInit == Init => Promised!Init
<1> SUFFICES ASSUME Init PROVE Promised!Init
  OBVIOUS
<1>1. SongOf(emu) = NoEmu /\ SoundOf(isPlaying, isStopped) = "stopped"
  BY DEF Init, SongOf, SoundOf
<1>2. ~StartingOf /\ InMethod.at # "seek"
  BY DEF Init, StartingOf, InMethod, Idle
<1>3. seekQueue \in Seq(Seeks) /\ seekQueue = <<>>
  BY DEF Init
<1>4. SeeksOf = <<>>
  BY <1>2, <1>3, SeeksCases, ResumesSeq
<1> QED
  BY <1>1, <1>2, <1>4 DEF Promised!Init, Init, StartingOf

\* Whoever calls, every step of the engine is one the promise allows, or one
\* the client does not see; a Patient client finds the engine of the promise
\* to Patient clients.
THEOREM Implements == Spec => KeepsStepwise
<1>1. CASE Patient
  <2>1. BaseInv /\ SilentInv /\ TurnInv /\ HeardInv => PromiseInv
    BY DEF PromiseInv
  <2> QED
    BY <1>1, <2>1, PromiseInit, PromiseStep, BaseAlways, SilentAlways, TurnAlways,
       HeardAlways, PTL DEF Spec, KeepsStepwise
<1>2. CASE ~Patient
  <2>1. BaseInv /\ SilentInv => PromiseInv
    BY <1>2 DEF PromiseInv
  <2> QED
    BY <2>1, PromiseInit, PromiseStep, BaseAlways, SilentAlways, PTL
    DEF Spec, KeepsStepwise
<1> QED
  BY <1>1, <1>2
=============================================================================
