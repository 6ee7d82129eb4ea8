----------------------------- MODULE DataSources -----------------------------
(***************************************************************************)
(* Where a data source says it is, and where its emulator really is.  The  *)
(* seven classes behind GameMusicDataSource keep a position of their own   *)
(* and seek by rendering sound nobody hears, each in its own way:          *)
(*                                                                         *)
(*   Skipping   LazyUSF2, Vio2SF, SSEQPlayer: render the frames between    *)
(*              here and there, from the beginning if that is behind;      *)
(*   AOPSF      the same, with the distance in samples of all channels;    *)
(*   VioGSF     runs the machine, which writes into a ring in bursts, and  *)
(*              drops what the ring holds;                                 *)
(*   GameMusicEmu   asks the library to seek to a millisecond;             *)
(*   VGMStream      has the decoder's position for its own, and an end or  *)
(*                  a loop.                                                *)
(*                                                                         *)
(* The unit is a frame: one sample of each channel.  The engine lets one   *)
(* thread at a time in (EmuExclusive of TKRPlayer), so the methods follow  *)
(* each other.                                                             *)
(***************************************************************************)
EXTENDS Integers

CONSTANTS
  Classes,      \* the classes to look at
  Length,       \* frames of a song, where it has an end, and in trackLength
  LoopStart, LoopEnd,  \* of a looping VGMStream
  Size,         \* frames of one playIntoBuffer:
  bufferSize,   \* frames the seek loops render at a time
  Millisecond,  \* frames per millisecond
  BUFFER_SIZE,  \* bytes of VioGSF's ring
  Bursts,       \* frames CPULoop may write before it returns
  MaxPosition   \* bound on the frames played in a row and on where a seek is sent

Skipping == {"LazyUSF2", "Vio2SF", "SSEQPlayer"}
Channels == 2
FrameBytes == 2 * Channels
Quarter == BUFFER_SIZE \div 4

ASSUME ConstantsAssumption ==
  /\ Classes \subseteq Skipping \cup {"AOPSF", "VioGSF", "GameMusicEmu", "VGMStream"}
  /\ {Length, LoopEnd, Size, bufferSize, Millisecond, BUFFER_SIZE} \subseteq Nat \ {0}
  /\ LoopStart \in Nat /\ LoopStart < LoopEnd /\ LoopEnd <= Length
  /\ Bursts \subseteq Nat \ {0}
  /\ MaxPosition \in Nat /\ Length <= MaxPosition

\* The ring has room for what a buffer or a quarter of the ring needs, with
\* what a burst left there before and the burst that fills it up.
ASSUME RingAssumption ==
  \A b, c \in Bursts :
    /\ FrameBytes * (Size + b + c) <= BUFFER_SIZE
    /\ Quarter + FrameBytes * (b + c) <= BUFFER_SIZE

VARIABLES
  class,     \* class of the data source
  looped,    \* VGMStream: loop_flag
  position,  \* _position
  song,      \* where the emulator is in the song
  ring,      \* VioGSF: frames in the ring, the last ones before song
  lost,      \* VioGSF: has write dropped samples that did not fit?
  left,      \* seekSamples
  busy       \* the method that is running, and what it still has to do

vars == <<class, looped, position, song, ring, lost, left, busy>>
kind == <<class, looped>>

\* Where a seek may be sent, the end of the track and beyond included.
Positions == 0 .. MaxPosition

Methods == [at : {"idle", "render", "open", "track"}]
             \cup [at : {"skip", "drop"}, to : Positions, then : {"idle", "open"}]
             \cup [at : {"fill"}, to : Positions, then : {"idle", "open"}, upto : Nat]

Idle == [at |-> "idle"]

Least(a, b) == IF a < b THEN a ELSE b

\* VGMStream: n frames further.  A looping stream goes back to LoopStart when
\* it has to render on from LoopEnd.
Along(from, n) ==
  IF looped /\ from + n > LoopEnd
  THEN LoopStart + 1 + ((from + n - LoopEnd - 1) % (LoopEnd - LoopStart))
  ELSE from + n

\* What the property position answers.
Reported == IF class = "VGMStream" THEN song ELSE position

\* The place in the song of the next frame that playIntoBuffer: hands out.
Upcoming == song - ring

trackHasEnded ==
  /\ song >= Length
  /\ (class = "GameMusicEmu") \/ (class = "VGMStream" /\ ~looped)

-----------------------------------------------------------------------------
(* Slips that the properties are there to catch, each a wrong form of the  *)
(* action its name begins with.  No run uses them as they stand.           *)

\* openFile: of an object that is used again, without setPosition:0.
openFile_NoRewind ==
  /\ busy = Idle /\ busy' = [at |-> "open"]
  /\ UNCHANGED <<kind, position, song, ring, lost, left>>

\* A machine that has halted writes nothing.
CPULoop_Halted ==
  /\ busy.at \in {"render", "drop", "fill"}
  /\ FrameBytes * ring < (IF busy.at = "fill" THEN busy.upto
                          ELSE IF busy.at = "drop" THEN Quarter ELSE FrameBytes * Size)
  /\ UNCHANGED vars

\* The last round of a seek renders a whole buffer, too.
Skip_Whole ==
  /\ busy.at = "skip" /\ left > 0
  /\ left' = left - Least(left, bufferSize)
  /\ song' = Along(song, bufferSize)
  /\ UNCHANGED <<kind, position, ring, lost, busy>>

\* All that is left of the distance is put into the ring at once.
FillBegins_AtOnce ==
  /\ busy.at = "drop"
  /\ busy' = [at |-> "fill", to |-> busy.to, then |-> busy.then,
              upto |-> FrameBytes * ring + left]
  /\ left' = 0
  /\ UNCHANGED <<kind, position, song, ring, lost>>

-----------------------------------------------------------------------------
Init ==
  /\ class \in Classes /\ looped \in BOOLEAN
  /\ looped => class = "VGMStream"
  /\ position = 0 /\ song = 0 /\ ring = 0 /\ lost = FALSE
  /\ left = 0 /\ busy = Idle

\* playIntoBuffer:size: of all classes but VioGSF.  At the end of a track
\* VGMStream renders what is left, and GameMusicEmu nothing.
playIntoBuffer ==
  /\ busy = Idle /\ position + Size <= MaxPosition
  /\ \/ /\ class \notin {"VGMStream", "VioGSF"}
        /\ ~trackHasEnded
        /\ position' = position + Size /\ song' = song + Size
     \/ /\ class = "VGMStream"
        /\ song' = Along(song, IF looped THEN Size ELSE Least(Size, Length - song))
        /\ UNCHANGED position
  /\ UNCHANGED <<kind, ring, lost, left, busy>>

\* VioGSF: runs the machine until the ring holds a buffer.
RenderBegins ==
  /\ busy = Idle /\ class = "VioGSF" /\ position + Size <= MaxPosition
  /\ position' = position + Size
  /\ busy' = [at |-> "render"]
  /\ UNCHANGED <<kind, song, ring, lost, left>>

RenderEnds ==
  /\ busy.at = "render" /\ ring >= Size
  /\ ring' = ring - Size /\ busy' = Idle
  /\ UNCHANGED <<kind, position, song, lost, left>>

\* CPULoop, where a method needs more in the ring.  The machine calls write,
\* which drops what does not fit.
CPULoop ==
  /\ \/ busy.at = "render" /\ ring < Size
     \/ busy.at = "drop" /\ left > Quarter /\ FrameBytes * ring < Quarter
     \/ busy.at = "fill" /\ FrameBytes * ring < busy.upto
  /\ \E n \in Bursts :
       LET kept == Least(n, (BUFFER_SIZE \div FrameBytes) - ring)
       IN /\ ring' = ring + kept /\ song' = song + n
          /\ lost' = (lost \/ kept < n)
  /\ UNCHANGED <<kind, position, left, busy>>

-----------------------------------------------------------------------------
(* setPosition:, of the object itself or first thing in openFile: when the *)
(* object is used again, and in setCurrentTrack:.                          *)

\* The classes that keep a position seek forward from it, or else restart the
\* song.  AOPSF and VioGSF count what is left in samples of all channels.
SeekCounting(to) ==
  LET distance == IF to > position THEN to - position ELSE to
  IN /\ position' = to
     /\ left' = IF class \in {"AOPSF", "VioGSF"} THEN distance * Channels ELSE distance
     /\ song' = IF to > position THEN song ELSE 0

\* VGMStream starts again for a place behind it, and goes no further than the
\* end of the track.
Target(to) == IF class = "VGMStream" THEN Least(to, Length) ELSE to

SeekVGM(to) ==
  LET from == IF to < song THEN 0 ELSE song
      distance == Target(to) - from
  IN /\ song' = from
     /\ left' = IF distance > 0 THEN distance ELSE 0
     /\ UNCHANGED position

\* The library seeks to a time in whole milliseconds.
SeekGME(to) ==
  /\ position' = to /\ song' = (to \div Millisecond) * Millisecond
  /\ UNCHANGED left

Seek(to, then) ==
  /\ \/ /\ class = "GameMusicEmu" /\ SeekGME(to) /\ busy' = [at |-> then]
     \/ /\ class = "VGMStream" /\ SeekVGM(to)
        /\ busy' = [at |-> "skip", to |-> to, then |-> then]
     \/ /\ class \in Skipping \cup {"AOPSF"} /\ SeekCounting(to)
        /\ busy' = [at |-> "skip", to |-> to, then |-> then]
     \/ /\ class = "VioGSF" /\ SeekCounting(to)
        /\ busy' = [at |-> "drop", to |-> to, then |-> then]
  /\ UNCHANGED <<kind, ring, lost>>

setPosition(to) == busy = Idle /\ Seek(to, "idle")
openFile == busy = Idle /\ Seek(0, "open")

setTrackNo ==
  /\ busy = Idle /\ class = "GameMusicEmu"
  /\ song' = 0 /\ busy' = [at |-> "track"]
  /\ UNCHANGED <<kind, position, ring, lost, left>>
TrackRewinds == busy.at = "track" /\ Seek(0, "idle")

\* The song of the new file begins.  No class but VGMStream, whose stream is a
\* new one, that loops or does not, touches its position here.
Opened ==
  /\ busy.at = "open"
  /\ song' = 0 /\ busy' = Idle
  /\ looped' \in IF class = "VGMStream" THEN BOOLEAN ELSE {looped}
  /\ UNCHANGED <<class, position, ring, lost, left>>

\* One round of the loop that renders into a buffer nobody hears.
Skip ==
  /\ busy.at = "skip" /\ left > 0
  /\ LET n == Least(left, bufferSize)
     IN /\ left' = left - n
        /\ song' = Along(song, n)
  /\ UNCHANGED <<kind, position, ring, lost, busy>>

Skipped ==
  /\ busy.at = "skip" /\ left = 0
  /\ busy' = [at |-> busy.then]
  /\ UNCHANGED <<kind, position, song, ring, lost, left>>

\* VioGSF drops the ring, and counts a quarter of its size for it ...
Drop ==
  /\ busy.at = "drop" /\ left > Quarter /\ FrameBytes * ring >= Quarter
  /\ ring' = 0 /\ left' = left - Quarter
  /\ UNCHANGED <<kind, position, song, lost, busy>>

\* ... until less is left, which is added to the bytes in the ring.
FillBegins ==
  /\ busy.at = "drop" /\ left <= Quarter
  /\ busy' = [at |-> "fill", to |-> busy.to, then |-> busy.then,
              upto |-> FrameBytes * ring + left]
  /\ left' = 0
  /\ UNCHANGED <<kind, position, song, ring, lost>>

FillEnds ==
  /\ busy.at = "fill" /\ FrameBytes * ring >= busy.upto
  /\ ring' = 0 /\ busy' = [at |-> busy.then]
  /\ UNCHANGED <<kind, position, song, lost, left>>

-----------------------------------------------------------------------------
Call == \/ \E to \in Positions : setPosition(to)
        \/ playIntoBuffer \/ RenderBegins \/ openFile \/ setTrackNo

Step == \/ RenderEnds \/ CPULoop \/ Skip \/ Skipped \/ Drop \/ FillBegins \/ FillEnds
        \/ TrackRewinds \/ Opened

Next == Call \/ Step

\* A method that has been called runs on.
Spec == Init /\ [][Next]_vars /\ WF_vars(Step)

-----------------------------------------------------------------------------
(* Properties.                                                             *)

\* Every variable holds a value of its kind.
TypeOK ==
  /\ class \in Classes /\ looped \in BOOLEAN /\ lost \in BOOLEAN
  /\ position \in Nat /\ song \in Nat /\ ring \in Nat /\ left \in Nat
  /\ busy \in Methods

\* What GameMusicEmu rounds to, the others do not round.
Grain == IF class = "GameMusicEmu" THEN Millisecond ELSE 1

Near(place, p) == place <= p /\ p < place + Grain

\* GameMusicDataSource.h: "The current playing position in samples".  After any
\* sequence of playing, seeking, changing tracks and opening files the position
\* a class answers is the place of the next frame that will be heard.
PositionTrue ==
  busy = Idle /\ class \notin {"AOPSF", "VioGSF"} => Near(Upcoming, Reported)

\* The same said of the two classes that count in samples of all channels.
PositionTrueAOPSF == busy = Idle /\ class = "AOPSF" => Near(Upcoming, Reported)

\* However often the loops went round, wherever the song was and whatever was
\* opened before: a seek of the classes that skip in frames (LazyUSF2, Vio2SF,
\* SSEQPlayer, VGMStream) ends at the place asked for, which for VGMStream is the
\* end of the track at most.  Past the end of its loop a looping stream has no
\* such place, and where it ends then is left open.  Of AOPSF and VioGSF, which
\* count in samples, it is not true: PositionTrueAOPSF and PositionTrueVioGSF
\* say so of them.  GameMusicEmu hands the place to its library in one call.
SeekLands ==
  [][/\ busy.at = "skip" /\ busy'.at = "idle" /\ class # "AOPSF"
     /\ looped => Target(busy.to) <= LoopEnd
     => song = Target(busy.to)]_vars

\* VioGSF never asks the machine for more than the ring takes: no sample is
\* dropped because write found no room.
NothingDropped == ~lost

\* Every method returns: no loop of a seek, or for a buffer, runs for ever.
MethodsReturn == busy # Idle ~> busy = Idle
=============================================================================
