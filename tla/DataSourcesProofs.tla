-------------------------- MODULE DataSourcesProofs --------------------------
(* Proofs about the data sources, for any song, loop, buffer and ring size.  *)
EXTENDS DataSources, TLAPS

LEMMA Constants ==
  /\ Length \in Nat \ {0} /\ LoopEnd \in Nat \ {0} /\ Size \in Nat \ {0}
  /\ bufferSize \in Nat \ {0} /\ Millisecond \in Nat \ {0}
  /\ BUFFER_SIZE \in Nat \ {0} /\ LoopStart \in Nat
  /\ LoopStart < LoopEnd /\ LoopEnd <= Length
  /\ Bursts \subseteq Nat \ {0}
BY ConstantsAssumption

\* Rounding down to a multiple loses less than one.
LEMMA RoundDown ==
  ASSUME NEW a \in Nat, NEW m \in Nat \ {0}
  PROVE  /\ (a \div m) * m \in Nat
         /\ (a \div m) * m <= a /\ a < (a \div m) * m + m
<1>1. a = m * (a \div m) + (a % m) /\ a \div m \in Nat
  OBVIOUS
<1>2. a % m \in 0 .. m - 1
  OBVIOUS
<1>3. m * (a \div m) = (a \div m) * m /\ (a \div m) * m \in Nat
  BY <1>1
<1> QED
  BY <1>1, <1>2, <1>3

LEMMA AlongType ==
  ASSUME NEW from \in Nat, NEW n \in Nat
  PROVE  Along(from, n) \in Nat
<1>1. CASE looped /\ from + n > LoopEnd
  <2>1. (from + n - LoopEnd - 1) % (LoopEnd - LoopStart) \in 0 .. LoopEnd - LoopStart - 1
    BY <1>1, Constants
  <2> QED
    BY <1>1, <2>1, Constants DEF Along
<1>2. CASE ~(looped /\ from + n > LoopEnd)
  BY <1>2 DEF Along
<1> QED
  BY <1>1, <1>2

\* A stream that loops never comes past the end of its loop, one that does not
\* no further than it is told.
LEMMA AlongWithin ==
  ASSUME NEW from \in Nat, NEW n \in Nat, looped \/ from + n <= Length
  PROVE  Along(from, n) <= Length
<1>1. CASE looped /\ from + n > LoopEnd
  <2>1. (from + n - LoopEnd - 1) % (LoopEnd - LoopStart) \in 0 .. LoopEnd - LoopStart - 1
    BY <1>1, Constants
  <2> QED
    BY <1>1, <2>1, Constants DEF Along
<1>2. CASE ~(looped /\ from + n > LoopEnd)
  BY <1>2, Constants DEF Along
<1> QED
  BY <1>1, <1>2

LEMMA LeastType ==
  ASSUME NEW a \in Nat, NEW b \in Nat
  PROVE  /\ Least(a, b) \in Nat /\ Least(a, b) <= a /\ Least(a, b) <= b
         /\ a <= b => Least(a, b) = a
BY DEF Least

\* What a method needs to know of its record.
LEMMA MethodsIntro ==
  /\ \A a \in {"idle", "render", "open", "track"} : [at |-> a] \in Methods
  /\ \A a \in {"skip", "drop"}, to \in Positions, then \in {"idle", "open"} :
       [at |-> a, to |-> to, then |-> then] \in Methods
  /\ \A to \in Positions, then \in {"idle", "open"}, upto \in Nat :
       [at |-> "fill", to |-> to, then |-> then, upto |-> upto] \in Methods
BY DEF Methods

LEMMA MethodsElim ==
  ASSUME NEW b \in Methods
  PROVE  /\ b.at \in {"idle", "render", "open", "track", "skip", "drop", "fill"}
         /\ b.at \in {"skip", "drop", "fill"}
              => b.to \in Positions /\ b.then \in {"idle", "open"}
         /\ b.at = "fill" => b.upto \in Nat
         /\ b.at \in {"idle", "render", "open", "track"} => b = [at |-> b.at]
         /\ b = Idle <=> b.at = "idle"
BY DEF Methods, Idle

LEMMA Zero == 0 \in Positions /\ Positions \subseteq Nat
BY ConstantsAssumption DEF Positions

\* Where a seek ends.
LEMMA TargetType ==
  ASSUME NEW to \in Positions
  PROVE  /\ Target(to) \in Nat
         /\ class \in Skipping => Target(to) = to
BY Zero, Constants, LeastType DEF Target, Skipping

-----------------------------------------------------------------------------
(* Type correctness.                                                        *)

LEMMA SeekCountingType ==
  ASSUME TypeOK, NEW to \in Positions, SeekCounting(to)
  PROVE  position' \in Nat /\ left' \in Nat /\ song' \in Nat
<1> DEFINE distance == IF to > position THEN to - position ELSE to
<1>1. to \in Nat /\ position \in Nat /\ song \in Nat
  BY Zero DEF TypeOK
<1>2. distance \in Nat
  BY <1>1
<1>3. left' \in Nat
  BY <1>2 DEF SeekCounting, Channels
<1> QED
  BY <1>1, <1>3 DEF SeekCounting

LEMMA SeekType ==
  ASSUME TypeOK, NEW to \in Positions, NEW then \in {"idle", "open"}, Seek(to, then)
  PROVE  TypeOK'
<1>1. to \in Nat /\ position \in Nat /\ song \in Nat /\ left \in Nat
  BY Zero DEF TypeOK
<1>2. UNCHANGED <<class, looped, lost, ring>>
  BY DEF Seek, kind
<1>3. CASE class = "GameMusicEmu" /\ SeekGME(to) /\ busy' = [at |-> then]
  <2>1. song' \in Nat
    BY <1>1, <1>3, RoundDown, Constants DEF SeekGME
  <2>2. busy' \in Methods
    BY <1>3, MethodsIntro
  <2> QED
    BY <1>1, <1>2, <1>3, <2>1, <2>2 DEF SeekGME, TypeOK
<1>4. CASE /\ class = "VGMStream" /\ SeekVGM(to)
           /\ busy' = [at |-> "skip", to |-> to, then |-> then]
  <2>1. song' \in Nat /\ left' \in Nat /\ position' = position
    BY <1>1, <1>4, TargetType DEF SeekVGM
  <2>2. busy' \in Methods
    BY <1>4, MethodsIntro
  <2> QED
    BY <1>1, <1>2, <2>1, <2>2 DEF TypeOK
<1>5. CASE /\ SeekCounting(to)
           /\ \/ busy' = [at |-> "skip", to |-> to, then |-> then]
              \/ busy' = [at |-> "drop", to |-> to, then |-> then]
  <2>1. busy' \in Methods
    BY <1>5, MethodsIntro
  <2> QED
    BY <1>2, <1>5, <2>1, SeekCountingType DEF TypeOK
<1> QED
  BY <1>3, <1>4, <1>5 DEF Seek

LEMMA TypeInit == Init => TypeOK
<1> SUFFICES ASSUME Init PROVE TypeOK
  OBVIOUS
<1>1. Idle \in Methods
  BY MethodsIntro DEF Idle
<1>2. busy \in Methods
  BY <1>1 DEF Init
<1>3. lost \in BOOLEAN /\ looped \in BOOLEAN
  BY DEF Init
<1> QED
  BY <1>2, <1>3 DEF Init, TypeOK

LEMMA CPULoopType ==
  ASSUME TypeOK, CPULoop
  PROVE  TypeOK'
<1>1. PICK n \in Bursts :
        LET kept == Least(n, (BUFFER_SIZE \div FrameBytes) - ring)
        IN /\ ring' = ring + kept /\ song' = song + n
           /\ lost' = (lost \/ kept < n)
  BY DEF CPULoop
<1> DEFINE kept == Least(n, (BUFFER_SIZE \div FrameBytes) - ring)
<1>2. n \in Nat /\ song \in Nat /\ ring \in Nat
  BY Constants DEF TypeOK
<1>3. ring + kept \in Nat
  <2>1. BUFFER_SIZE \div FrameBytes \in Nat
    BY Constants DEF FrameBytes, Channels
  <2> QED
    BY <1>2, <2>1 DEF Least
<1>4. lost' \in BOOLEAN
  <2>1. lost' = (lost \/ kept < n)
    BY <1>1
  <2>2. (kept < n) \in BOOLEAN /\ lost \in BOOLEAN
    BY DEF TypeOK
  <2> QED
    BY <2>1, <2>2
<1>5. song' \in Nat /\ ring' \in Nat
  BY <1>1, <1>2, <1>3
<1> QED
  BY <1>4, <1>5 DEF CPULoop, kind, TypeOK

LEMMA TypeStep == TypeOK /\ [Next]_vars => TypeOK'
<1> SUFFICES ASSUME TypeOK, [Next]_vars PROVE TypeOK'
  OBVIOUS
<1> USE Zero, MethodsIntro
<1>1. ASSUME NEW to \in Positions, setPosition(to) PROVE TypeOK'
  BY <1>1, SeekType DEF setPosition
<1>2. CASE playIntoBuffer
  <2>1. CASE class \notin {"VGMStream", "VioGSF"}
    BY <1>2, <2>1, Constants DEF playIntoBuffer, TypeOK, kind
  <2>2. CASE class \in {"VGMStream", "VioGSF"}
    <3>1. song \in Nat /\ Size \in Nat /\ Length \in Nat
      BY Constants DEF TypeOK
    <3>2. song' \in Nat
      <4>1. CASE looped
        BY <1>2, <2>2, <3>1, <4>1, AlongType DEF playIntoBuffer
      <4>2. CASE ~looped
        <5>1. song' = song + Least(Size, Length - song)
          BY <1>2, <2>2, <4>2 DEF playIntoBuffer, Along
        <5> QED
          BY <3>1, <5>1 DEF Least
      <4> QED
        BY <4>1, <4>2
    <3> QED
      BY <1>2, <2>2, <3>2 DEF playIntoBuffer, TypeOK, kind
  <2> QED
    BY <2>1, <2>2
<1>3. CASE RenderBegins
  BY <1>3, Constants DEF RenderBegins, TypeOK, kind
<1>4. CASE openFile
  BY <1>4, SeekType DEF openFile
<1>5. CASE setTrackNo
  BY <1>5 DEF setTrackNo, TypeOK, kind
<1>6. CASE RenderEnds
  BY <1>6, Constants DEF RenderEnds, TypeOK, kind, Idle
<1>7. CASE CPULoop
  BY <1>7, CPULoopType
<1>8. CASE Skip
  <2> DEFINE n == Least(left, bufferSize)
  <2>1. n \in Nat /\ n <= left /\ left \in Nat /\ song \in Nat
    BY Constants, LeastType DEF TypeOK
  <2>2. left' = left - n /\ song' = Along(song, n)
    BY <1>8 DEF Skip
  <2> HIDE DEF n
  <2>3. left' \in Nat
    BY <2>1, <2>2
  <2>4. song' \in Nat
    BY <2>1, <2>2, AlongType
  <2> QED
    BY <1>8, <2>3, <2>4 DEF Skip, TypeOK, kind
<1>9. CASE Skipped
  BY <1>9, MethodsElim DEF Skipped, TypeOK, kind
<1>10. CASE Drop
  <2>1. left - Quarter \in Nat
    BY <1>10, Constants DEF Drop, TypeOK, Quarter
  <2> QED
    BY <1>10, <2>1 DEF Drop, TypeOK, kind
<1>11. CASE FillBegins
  <2>1. FrameBytes * ring + left \in Nat
    BY DEF TypeOK, FrameBytes, Channels
  <2>2. busy.to \in Positions /\ busy.then \in {"idle", "open"}
    BY <1>11, MethodsElim DEF FillBegins, TypeOK
  <2>3. busy' \in Methods
    BY <1>11, <2>1, <2>2 DEF FillBegins
  <2> QED
    BY <1>11, <2>3 DEF FillBegins, TypeOK, kind
<1>12. CASE FillEnds
  BY <1>12, MethodsElim DEF FillEnds, TypeOK, kind
<1>13. CASE TrackRewinds
  BY <1>13, SeekType DEF TrackRewinds
<1>14. CASE Opened
  BY <1>14 DEF Opened, TypeOK, kind, Idle
<1>15. CASE UNCHANGED vars
  BY <1>15 DEF vars, TypeOK
<1> QED
  BY <1>1, <1>2, <1>3, <1>4, <1>5, <1>6, <1>7, <1>8, <1>9, <1>10, <1>11, <1>12,
     <1>13, <1>14, <1>15 DEF Next, Call, Step

\* Every variable holds a value of its kind.
THEOREM SourcesTyped == Spec => []TypeOK
<1> QED
  BY TypeInit, TypeStep, PTL DEF Spec

-----------------------------------------------------------------------------
(* The position, and where a seek ends.                                     *)

\* Which class runs which method.
MethodInv ==
  /\ class # "VioGSF" => ring = 0
  /\ busy.at \in {"render", "drop", "fill"} => class = "VioGSF"
  /\ busy.at = "skip" => class \in Skipping \cup {"AOPSF", "VGMStream"}
  /\ busy.at = "track" => class = "GameMusicEmu"

\* Only streams loop, and a stream is nowhere past its end.
LoopInv == /\ looped => class = "VGMStream"
           /\ class = "VGMStream" => song <= Length

\* A file is opened at its beginning.
OpenInv ==
  class # "VGMStream" =>
    /\ busy.at = "open" => position = 0
    /\ busy.at \in {"skip", "drop", "fill"} =>
         position = busy.to /\ (busy.then = "open" => busy.to = 0)

\* What a seek has left is what is missing to the place asked for.
SkipInv ==
  busy.at = "skip" =>
    /\ class \in Skipping => song + left = busy.to
    /\ class = "VGMStream" /\ (looped => Target(busy.to) <= LoopEnd)
         => song + left = Target(busy.to)

\* Between methods the position is the emulator's.
RestInv ==
  busy.at = "idle" =>
    /\ class \in Skipping => song = position
    /\ class = "GameMusicEmu" => song <= position /\ position < song + Millisecond

PlaceInv == TypeOK /\ MethodInv /\ LoopInv /\ OpenInv /\ SkipInv /\ RestInv

LEMMA PlaceInit == Init => PlaceInv
<1> SUFFICES ASSUME Init PROVE PlaceInv
  OBVIOUS
<1>1. TypeOK
  BY TypeInit
<1>2. busy.at = "idle" /\ position = 0 /\ song = 0 /\ ring = 0
  BY DEF Init, Idle
<1>3. MethodInv /\ LoopInv /\ OpenInv /\ SkipInv
  BY <1>2, Constants DEF Init, MethodInv, LoopInv, OpenInv, SkipInv
<1>4. RestInv
  BY <1>2, Constants DEF RestInv
<1> QED
  BY <1>1, <1>3, <1>4 DEF PlaceInv

\* A seek that begins, in the object itself or in openFile and setCurrentTrack.
LEMMA PlaceSeek ==
  ASSUME PlaceInv, busy.at \in {"idle", "track"},
         NEW to \in Positions, NEW then \in {"idle", "open"}, Seek(to, then),
         then = "open" => to = 0
  PROVE  PlaceInv'
<1>1. TypeOK'
  BY SeekType DEF PlaceInv
<1>2. /\ to \in Nat /\ position \in Nat /\ song \in Nat
      /\ class' = class /\ looped' = looped /\ ring' = ring
      /\ class # "VioGSF" => ring = 0
      /\ busy.at = "idle" /\ class \in Skipping => song = position
  BY Zero DEF PlaceInv, TypeOK, MethodInv, RestInv, Seek, kind
<1>3. CASE class = "GameMusicEmu" /\ SeekGME(to) /\ busy' = [at |-> then]
  <2>1. busy'.at = then /\ position' = to
    BY <1>3 DEF SeekGME
  <2>2. song' <= to /\ to < song' + Millisecond
    BY <1>2, <1>3, RoundDown, Constants DEF SeekGME
  <2> QED
    BY <1>1, <1>2, <1>3, <2>1, <2>2
       DEF PlaceInv, MethodInv, LoopInv, OpenInv, SkipInv, RestInv, Skipping
<1>4. CASE /\ class = "VGMStream" /\ SeekVGM(to)
           /\ busy' = [at |-> "skip", to |-> to, then |-> then]
  <2>1. busy'.at = "skip" /\ busy'.to = to /\ busy'.then = then
    BY <1>4
  <2>2. song' + left' = Target(to) /\ song' <= Length /\ Target(to)' = Target(to)
    <3>1. Target(to) = Least(to, Length) /\ song <= Length
      BY <1>4 DEF Target, PlaceInv, LoopInv
    <3> QED
      BY <1>2, <1>4, <3>1, Constants DEF SeekVGM, Least, Target
  <2> QED
    BY <1>1, <1>2, <1>4, <2>1, <2>2
       DEF PlaceInv, MethodInv, LoopInv, OpenInv, SkipInv, RestInv, Skipping
<1>5. CASE /\ class \in Skipping \cup {"AOPSF"} /\ SeekCounting(to)
           /\ busy' = [at |-> "skip", to |-> to, then |-> then]
  <2>1. /\ busy'.at = "skip" /\ busy'.to = to /\ busy'.then = then
        /\ position' = to
    BY <1>5 DEF SeekCounting
  <2>2. busy.at = "idle"
    BY <1>5 DEF PlaceInv, MethodInv, Skipping
  <2>3. class \in Skipping => song' + left' = to
    BY <1>2, <1>5, <2>2 DEF SeekCounting, Skipping
  <2>4. class \notin {"VGMStream", "VioGSF"}
    BY <1>5 DEF Skipping
  <2> QED
    BY <1>1, <1>2, <1>5, <2>1, <2>3, <2>4
       DEF PlaceInv, MethodInv, LoopInv, OpenInv, SkipInv, RestInv
<1>6. CASE /\ class = "VioGSF" /\ SeekCounting(to)
           /\ busy' = [at |-> "drop", to |-> to, then |-> then]
  <2>1. /\ busy'.at = "drop" /\ busy'.to = to /\ busy'.then = then
        /\ position' = to
    BY <1>6 DEF SeekCounting
  <2> QED
    BY <1>1, <1>2, <1>6, <2>1
       DEF PlaceInv, MethodInv, LoopInv, OpenInv, SkipInv, RestInv
<1> QED
  BY <1>3, <1>4, <1>5, <1>6 DEF Seek

LEMMA PlaceSkip ==
  ASSUME PlaceInv, Skip
  PROVE  PlaceInv'
<1> DEFINE n == Least(left, bufferSize)
<1>1. TypeOK'
  BY TypeStep DEF PlaceInv, Next, Step
<1>2. /\ left' = left - n /\ song' = Along(song, n)
      /\ busy.at = "skip" /\ UNCHANGED <<class, looped, position, ring, busy>>
  BY DEF Skip, kind
<1>3. n \in Nat /\ n <= left /\ left \in Nat /\ song \in Nat
  BY Constants, LeastType DEF PlaceInv, TypeOK
<1> HIDE DEF n
<1>4. ~looped => song' = song + n
  BY <1>2 DEF Along
<1>5. class \in Skipping => ~looped
  BY DEF PlaceInv, LoopInv, Skipping
<1>t. busy.to \in Positions
  BY <1>2, MethodsElim DEF PlaceInv, TypeOK
<1>u. Target(busy.to) \in Nat /\ Target(busy.to)' = Target(busy.to)
  BY <1>2, <1>t, TargetType DEF Target
<1>6. ASSUME class = "VGMStream", looped => Target(busy.to) <= LoopEnd
      PROVE  song' = song + n
  <2>1. song + left = Target(busy.to)
    BY <1>2, <1>6 DEF PlaceInv, SkipInv
  <2>2. CASE looped
    <3>1. song + n <= LoopEnd
      BY <1>3, <1>6, <1>u, <2>1, <2>2, Constants
    <3> QED
      BY <1>2, <1>3, <3>1, Constants DEF Along
  <2> QED
    BY <1>4, <2>2
<1>7. SkipInv'
  <2>1. song' = song + n => song' + left' = song + left
    BY <1>2, <1>3
  <2>2. class \in Skipping => song' + left' = busy'.to
    BY <1>2, <1>4, <1>5, <2>1 DEF PlaceInv, SkipInv
  <2>3. class = "VGMStream" /\ (looped => Target(busy.to) <= LoopEnd)
          => song' + left' = Target(busy.to)
    BY <1>2, <1>6, <2>1 DEF PlaceInv, SkipInv
  <2> QED
    BY <1>2, <1>u, <2>2, <2>3 DEF SkipInv
<1>8. LoopInv'
  <2>1. CASE class = "VGMStream"
    <3>1. ~looped => song + left = Target(busy.to)
      BY <1>2, <2>1 DEF PlaceInv, SkipInv
    <3>2. Target(busy.to) <= Length
      BY <1>t, <2>1, Zero, Constants, LeastType DEF Target
    <3>3. looped \/ song + n <= Length
      BY <1>3, <1>u, <3>1, <3>2, Constants
    <3>4. song' <= Length
      BY <1>2, <1>3, <3>3, AlongWithin
    <3> QED
      BY <1>2, <2>1, <3>4 DEF LoopInv
  <2> QED
    BY <1>2, <2>1 DEF PlaceInv, LoopInv
<1> QED
  BY <1>1, <1>2, <1>7, <1>8 DEF PlaceInv, MethodInv, OpenInv, RestInv

LEMMA PlaceStep == PlaceInv /\ [Next]_vars => PlaceInv'
<1> SUFFICES ASSUME PlaceInv, [Next]_vars PROVE PlaceInv'
  OBVIOUS
<1>t. TypeOK /\ TypeOK'
  BY TypeStep DEF PlaceInv
<1>b. busy \in Methods
  BY <1>t DEF TypeOK
<1>i. busy = Idle <=> busy.at = "idle"
  BY <1>b, MethodsElim
<1>1. ASSUME NEW to \in Positions, setPosition(to) PROVE PlaceInv'
  BY <1>1, <1>i, PlaceSeek DEF setPosition
<1>2. CASE playIntoBuffer
  <2>1. busy' = busy /\ busy.at = "idle" /\ class' = class /\ ring' = ring /\ looped' = looped
    BY <1>2, <1>i DEF playIntoBuffer, kind
  <2>2. MethodInv' /\ OpenInv' /\ SkipInv'
    BY <2>1 DEF PlaceInv, MethodInv, OpenInv, SkipInv
  <2>l. LoopInv'
    <3>1. CASE class = "VGMStream"
      <4> DEFINE n == IF looped THEN Size ELSE Least(Size, Length - song)
      <4>1. song \in Nat /\ song <= Length /\ song' = Along(song, n)
        BY <1>2, <1>t, <3>1 DEF playIntoBuffer, TypeOK, PlaceInv, LoopInv
      <4>2. n \in Nat /\ (looped \/ song + n <= Length)
        BY <4>1, Constants, LeastType
      <4>3. song' <= Length
        BY <4>1, <4>2, AlongWithin
      <4> QED
        BY <2>1, <3>1, <4>3 DEF PlaceInv, LoopInv
    <3> QED
      BY <2>1, <3>1 DEF PlaceInv, LoopInv
  <2>3. RestInv'
    <3>1. CASE class \in Skipping \cup {"GameMusicEmu"}
      <4>1. position' = position + Size /\ song' = song + Size
        BY <1>2, <3>1 DEF playIntoBuffer, Skipping
      <4>2. position \in Nat /\ song \in Nat /\ Size \in Nat /\ Millisecond \in Nat
        BY <1>t, Constants DEF TypeOK
      <4> QED
        BY <2>1, <4>1, <4>2 DEF PlaceInv, RestInv
    <3>2. CASE class \notin Skipping \cup {"GameMusicEmu"}
      BY <2>1, <3>2 DEF RestInv
    <3> QED
      BY <3>1, <3>2
  <2> QED
    BY <1>t, <2>2, <2>l, <2>3 DEF PlaceInv
<1>3. CASE RenderBegins
  <2>1. /\ class = "VioGSF" /\ class' = class /\ looped' = looped
        /\ busy'.at = "render"
    BY <1>3 DEF RenderBegins, kind
  <2> QED
    BY <1>t, <2>1 DEF PlaceInv, MethodInv, LoopInv, OpenInv, SkipInv, RestInv
<1>4. CASE openFile
  BY <1>4, <1>i, Zero, PlaceSeek DEF openFile
<1>5. CASE setTrackNo
  <2>1. /\ class = "GameMusicEmu" /\ class' = class /\ looped' = looped /\ ring' = ring
        /\ busy'.at = "track"
    BY <1>5 DEF setTrackNo, kind
  <2> QED
    BY <1>t, <2>1 DEF PlaceInv, MethodInv, LoopInv, OpenInv, SkipInv, RestInv
<1>6. CASE RenderEnds \/ FillEnds
  <2>1. /\ class = "VioGSF" /\ class' = class /\ looped' = looped /\ position' = position
        /\ busy'.at = "idle" \/ (busy.at = "fill" /\ busy'.at = "open" /\ busy.then = "open")
    BY <1>6, <1>b, MethodsElim
       DEF RenderEnds, FillEnds, kind, PlaceInv, MethodInv, Idle
  <2>2. busy'.at = "open" => position' = 0
    BY <2>1 DEF PlaceInv, OpenInv
  <2> QED
    BY <1>t, <2>1, <2>2
       DEF PlaceInv, MethodInv, LoopInv, OpenInv, SkipInv, RestInv, Skipping
<1>7. CASE CPULoop \/ Drop
  <2>1. /\ class = "VioGSF" /\ class' = class /\ looped' = looped /\ position' = position
        /\ busy' = busy /\ busy.at \in {"render", "drop", "fill"}
    BY <1>7 DEF CPULoop, Drop, kind, PlaceInv, MethodInv
  <2> QED
    BY <1>t, <2>1 DEF PlaceInv, MethodInv, LoopInv, OpenInv, SkipInv, RestInv
<1>8. CASE FillBegins
  <2>1. /\ class = "VioGSF" /\ class' = class /\ looped' = looped /\ position' = position
        /\ busy.at = "drop" /\ busy'.at = "fill"
        /\ busy'.to = busy.to /\ busy'.then = busy.then
    BY <1>8 DEF FillBegins, kind, PlaceInv, MethodInv
  <2> QED
    BY <1>t, <2>1 DEF PlaceInv, MethodInv, LoopInv, OpenInv, SkipInv, RestInv
<1>9. CASE Skip
  BY <1>9, PlaceSkip
<1>10. CASE Skipped
  <2>1. /\ busy.at = "skip" /\ left = 0 /\ UNCHANGED <<class, looped, position, song, ring>>
        /\ busy'.at = busy.then /\ busy.then \in {"idle", "open"}
    BY <1>10, <1>b, MethodsElim DEF Skipped, kind
  <2>2. /\ class \in Skipping \cup {"AOPSF", "VGMStream"}
        /\ class # "VGMStream" =>
             position = busy.to /\ (busy.then = "open" => position = 0)
        /\ class \in Skipping => song = busy.to
    <3>1. song + 0 = song
      BY <1>t DEF TypeOK
    <3> QED
      BY <2>1, <3>1 DEF PlaceInv, MethodInv, OpenInv, SkipInv
  <2>3. class # "GameMusicEmu" /\ class # "VioGSF"
    BY <2>2 DEF Skipping
  <2>4. class \in Skipping => class # "VGMStream"
    BY DEF Skipping
  <2>5. RestInv'
    BY <2>1, <2>2, <2>3, <2>4 DEF RestInv
  <2> QED
    BY <1>t, <2>1, <2>2, <2>3, <2>5 DEF PlaceInv, MethodInv, LoopInv, OpenInv, SkipInv
<1>11. CASE TrackRewinds
  BY <1>11, Zero, PlaceSeek DEF TrackRewinds
<1>12. CASE Opened
  <2>1. /\ busy.at = "open" /\ song' = 0 /\ UNCHANGED <<class, position, ring>>
        /\ busy'.at = "idle"
    BY <1>12 DEF Opened, Idle
  <2>l. LoopInv'
    BY <1>12, <2>1, Constants DEF Opened, PlaceInv, LoopInv
  <2>2. class # "VGMStream" => position = 0
    BY <2>1 DEF PlaceInv, OpenInv
  <2>3. RestInv'
    BY <2>1, <2>2, Constants DEF RestInv, Skipping
  <2> QED
    BY <1>t, <2>1, <2>l, <2>3 DEF PlaceInv, MethodInv, OpenInv, SkipInv
<1>13. CASE UNCHANGED vars
  BY <1>13 DEF vars, PlaceInv, TypeOK, MethodInv, LoopInv, OpenInv, SkipInv, RestInv,
               Target
<1> QED
  BY <1>1, <1>2, <1>3, <1>4, <1>5, <1>6, <1>7, <1>8, <1>9, <1>10, <1>11, <1>12,
     <1>13 DEF Next, Call, Step

\* GameMusicDataSource.h: "The current playing position in samples".  For any
\* song, loop and buffer, and after any sequence of calls, the five classes that
\* count in frames answer the place of the next frame that will be heard.
THEOREM PositionIsTrue == Spec => []PositionTrue
<1>1. PlaceInv => PositionTrue
  <2> SUFFICES ASSUME PlaceInv, busy = Idle, class \notin {"AOPSF", "VioGSF"}
               PROVE  Near(Upcoming, Reported)
    BY DEF PositionTrue
  <2>1. song \in Nat /\ position \in Nat /\ Upcoming = song
    BY DEF PlaceInv, TypeOK, MethodInv, Upcoming
  <2>2. busy.at = "idle"
    BY DEF Idle
  <2>3. class \in Skipping \cup {"GameMusicEmu", "VGMStream"}
    BY ConstantsAssumption DEF PlaceInv, TypeOK
  <2>4. CASE class = "VGMStream"
    BY <2>1, <2>4 DEF Near, Reported, Grain
  <2>5. CASE class = "GameMusicEmu"
    BY <2>1, <2>2, <2>5 DEF Near, Reported, Grain, PlaceInv, RestInv
  <2>6. CASE class \in Skipping
    <3>1. song = position /\ class # "VGMStream" /\ class # "GameMusicEmu"
      BY <2>2, <2>6 DEF PlaceInv, RestInv, Skipping
    <3> QED
      BY <2>1, <3>1 DEF Near, Reported, Grain
  <2> QED
    BY <2>3, <2>4, <2>5, <2>6
<1> QED
  BY PlaceInit, PlaceStep, <1>1, PTL DEF Spec

\* For any song, loop and buffer, a seek of a class that skips in frames, all but
\* AOPSF, VioGSF and GameMusicEmu, ends at the place it was asked for, or at the
\* end of the stream.  A seek past the loop of a stream is left out.
THEOREM SeeksLand == Spec => SeekLands
<1> DEFINE Lands ==
      /\ busy.at = "skip" /\ busy'.at = "idle" /\ class # "AOPSF"
      /\ looped => Target(busy.to) <= LoopEnd
      => song = Target(busy.to)
<1>1. PlaceInv /\ [Next]_vars => [Lands]_vars
  <2> SUFFICES ASSUME PlaceInv, Next, busy.at = "skip", busy'.at = "idle",
                      class # "AOPSF", looped => Target(busy.to) <= LoopEnd
               PROVE  song = Target(busy.to)
    OBVIOUS
  <2>1. Skipped
    BY DEF Next, Call, Step, setPosition, playIntoBuffer, RenderBegins, openFile,
           setTrackNo, RenderEnds, CPULoop, Skip, Drop, FillBegins, FillEnds,
           TrackRewinds, Opened, Idle
  <2>2. left = 0 /\ song \in Nat
    BY <2>1 DEF Skipped, PlaceInv, TypeOK
  <2>3. busy.to \in Positions
    BY MethodsElim DEF PlaceInv, TypeOK
  <2>4. song + left = Target(busy.to)
    BY <2>3, TargetType DEF PlaceInv, MethodInv, SkipInv
  <2> QED
    BY <2>2, <2>4
<1> QED
  BY PlaceInit, PlaceStep, <1>1, PTL DEF Spec, SeekLands

-----------------------------------------------------------------------------
(* The ring of VioGSF.                                                      *)

\* VioGSF: what a burst left in the ring, and how much is asked for.
Leftover(r) == r = 0 \/ \E b \in Bursts : r <= b

RingInv ==
  /\ ~lost
  /\ busy.at \in {"idle", "open", "track", "skip"} => Leftover(ring)
  /\ busy.at = "render" => (Leftover(ring) \/ \E b \in Bursts : ring <= Size + b)
  /\ busy.at = "drop" /\ left <= Quarter => Leftover(ring)
  /\ busy.at = "fill" =>
       \/ busy.upto <= Quarter
       \/ \E b \in Bursts : busy.upto <= Quarter + FrameBytes * b

LEMMA RingBytes ==
  /\ BUFFER_SIZE \in Nat /\ Quarter \in Nat /\ FrameBytes = 4
  /\ \A r \in Nat : 4 * r <= BUFFER_SIZE => r <= BUFFER_SIZE \div FrameBytes
BY Constants DEF Quarter, FrameBytes, Channels

LEMMA RingInit == Init => RingInv
BY DEF Init, RingInv, Leftover, Idle

\* A seek finds no more in the ring than a burst left there.
LEMMA RingSeek ==
  ASSUME RingInv, busy.at \in {"idle", "track"},
         NEW to \in Positions, NEW then \in {"idle", "open"}, Seek(to, then)
  PROVE  RingInv'
<1>1. UNCHANGED <<ring, lost>> /\ Leftover(ring) /\ ~lost
  BY DEF Seek, RingInv
<1>2. busy'.at \in {"idle", "open", "skip", "drop"}
  BY DEF Seek
<1> QED
  BY <1>1, <1>2 DEF RingInv, Leftover

\* Whenever the machine is asked for more, a burst fits.
LEMMA RingRoom ==
  ASSUME TypeOK, RingInv, CPULoop, NEW n \in Bursts
  PROVE  ring + n <= BUFFER_SIZE \div FrameBytes
<1>1. n \in Nat /\ ring \in Nat /\ Size \in Nat /\ Quarter \in Nat /\ BUFFER_SIZE \in Nat
  BY Constants, RingBytes DEF TypeOK
<1>2. SUFFICES 4 * (ring + n) <= BUFFER_SIZE
  BY <1>1, RingBytes
<1>3. CASE busy.at = "render" /\ ring < Size
  <2>1. 4 * (Size + n + n) <= BUFFER_SIZE
    BY RingAssumption, RingBytes
  <2> QED
    BY <1>1, <1>3, <2>1
<1>4. CASE busy.at = "drop" /\ FrameBytes * ring < Quarter
  <2>1. Quarter + 4 * (n + n) <= BUFFER_SIZE
    BY RingAssumption, RingBytes
  <2>2. 4 * ring < Quarter
    BY <1>4, RingBytes
  <2> QED
    BY <1>1, <2>1, <2>2
<1>5. CASE busy.at = "fill" /\ FrameBytes * ring < busy.upto
  <2>1. busy.upto \in Nat /\ 4 * ring < busy.upto
    BY <1>5, MethodsElim, RingBytes DEF TypeOK
  <2>2. CASE busy.upto <= Quarter
    <3>1. Quarter + 4 * (n + n) <= BUFFER_SIZE
      BY RingAssumption, RingBytes
    <3> QED
      BY <1>1, <2>1, <2>2, <3>1
  <2>3. ASSUME NEW b \in Bursts, busy.upto <= Quarter + FrameBytes * b
        PROVE  4 * (ring + n) <= BUFFER_SIZE
    <3>1. Quarter + 4 * (b + n) <= BUFFER_SIZE
      BY RingAssumption, RingBytes
    <3>2. b \in Nat /\ busy.upto <= Quarter + 4 * b
      BY <2>3, Constants, RingBytes
    <3> QED
      BY <1>1, <2>1, <3>1, <3>2
  <2> QED
    BY <1>5, <2>2, <2>3 DEF RingInv
<1> QED
  BY <1>3, <1>4, <1>5 DEF CPULoop

LEMMA RingStep == TypeOK /\ RingInv /\ [Next]_vars => RingInv'
<1> SUFFICES ASSUME TypeOK, RingInv, [Next]_vars PROVE RingInv'
  OBVIOUS
<1>i. busy \in Methods /\ (busy = Idle <=> busy.at = "idle")
  BY MethodsElim DEF TypeOK
<1>n. ring \in Nat /\ left \in Nat /\ Size \in Nat /\ Quarter \in Nat /\ FrameBytes = 4
  BY Constants, RingBytes DEF TypeOK
<1>1. ASSUME NEW to \in Positions, setPosition(to) PROVE RingInv'
  BY <1>1, <1>i, RingSeek DEF setPosition
<1>2. CASE playIntoBuffer
  BY <1>2 DEF playIntoBuffer, RingInv, Leftover, Idle
<1>3. CASE RenderBegins
  <2>1. busy.at = "idle" /\ busy'.at = "render" /\ ring' = ring /\ lost' = lost
    BY <1>3 DEF RenderBegins, Idle
  <2> QED
    BY <2>1 DEF RingInv, Leftover
<1>4. CASE openFile
  BY <1>4, <1>i, Zero, RingSeek DEF openFile
<1>5. CASE setTrackNo
  <2>1. busy.at = "idle" /\ busy'.at = "track" /\ ring' = ring /\ lost' = lost
    BY <1>5 DEF setTrackNo, Idle
  <2> QED
    BY <2>1 DEF RingInv, Leftover
<1>6. CASE RenderEnds
  <2>1. /\ busy.at = "render" /\ busy'.at = "idle" /\ lost' = lost
        /\ ring >= Size /\ ring' = ring - Size
    BY <1>6 DEF RenderEnds, Idle
  <2>2. CASE ring = 0
    <3>1. ring' = 0
      BY <1>n, <2>1, <2>2
    <3> QED
      BY <2>1, <3>1 DEF RingInv, Leftover
  <2>3. CASE ring # 0
    <3>1. PICK b \in Bursts : ring <= b \/ ring <= Size + b
      BY <2>1, <2>3 DEF RingInv, Leftover
    <3>2. ring' <= b
      BY <1>n, <2>1, <3>1, Constants
    <3> QED
      BY <2>1, <3>2 DEF RingInv, Leftover
  <2> QED
    BY <2>2, <2>3
<1>7. CASE CPULoop
  <2>1. PICK n \in Bursts :
          LET kept == Least(n, (BUFFER_SIZE \div FrameBytes) - ring)
          IN ring' = ring + kept /\ lost' = (lost \/ kept < n)
    BY <1>7 DEF CPULoop
  <2>2. n \in Nat /\ BUFFER_SIZE \div FrameBytes \in Int
    BY Constants, RingBytes
  <2>3. Least(n, (BUFFER_SIZE \div FrameBytes) - ring) = n
    BY <1>7, <1>n, <2>2, RingRoom DEF Least
  <2>4. ring' = ring + n /\ ~lost'
    <3>1. ~(n < n) /\ ~lost
      BY <2>2 DEF RingInv
    <3> QED
      BY <2>1, <2>3, <3>1
  <2>5. busy' = busy /\ left' = left
    BY <1>7 DEF CPULoop
  <2>6. CASE busy.at = "render"
    <3>1. ring' <= Size + n
      BY <1>7, <1>n, <2>2, <2>4, <2>6 DEF CPULoop
    <3> QED
      BY <2>4, <2>5, <2>6, <3>1 DEF RingInv
  <2>7. CASE busy.at = "drop"
    <3>1. ~(left' <= Quarter)
      BY <1>7, <1>n, <2>5, <2>7 DEF CPULoop
    <3> QED
      BY <2>4, <2>5, <2>7, <3>1 DEF RingInv
  <2>8. CASE busy.at = "fill"
    BY <2>4, <2>5, <2>8 DEF RingInv
  <2> QED
    BY <1>7, <2>6, <2>7, <2>8 DEF CPULoop
<1>8. CASE Skip
  BY <1>8 DEF Skip, RingInv, Leftover
<1>9. CASE Skipped
  <2>1. /\ busy.at = "skip" /\ busy'.at = busy.then /\ busy.then \in {"idle", "open"}
        /\ ring' = ring /\ lost' = lost
    BY <1>9, <1>i, MethodsElim DEF Skipped
  <2> QED
    BY <2>1 DEF RingInv, Leftover
<1>10. CASE Drop
  <2>1. busy.at = "drop" /\ busy' = busy /\ ring' = 0 /\ lost' = lost
    BY <1>10 DEF Drop
  <2> QED
    BY <2>1 DEF RingInv, Leftover
<1>11. CASE FillBegins
  <2>1. /\ busy.at = "drop" /\ left <= Quarter /\ lost' = lost
        /\ busy'.at = "fill" /\ busy'.upto = FrameBytes * ring + left
    BY <1>11 DEF FillBegins
  <2>2. \/ busy'.upto <= Quarter
        \/ \E b \in Bursts : busy'.upto <= Quarter + FrameBytes * b
    <3>1. CASE ring = 0
      BY <1>n, <2>1, <3>1
    <3>2. CASE ring # 0
      <4>1. PICK b \in Bursts : ring <= b
        BY <2>1, <3>2 DEF RingInv, Leftover
      <4>2. busy'.upto <= Quarter + FrameBytes * b
        BY <1>n, <2>1, <4>1, Constants
      <4> QED
        BY <4>2
    <3> QED
      BY <3>1, <3>2
  <2> QED
    BY <2>1, <2>2 DEF RingInv
<1>12. CASE FillEnds
  <2>1. /\ busy.at = "fill" /\ busy'.at = busy.then /\ busy.then \in {"idle", "open"}
        /\ ring' = 0 /\ lost' = lost
    BY <1>12, <1>i, MethodsElim DEF FillEnds
  <2> QED
    BY <2>1 DEF RingInv, Leftover
<1>13. CASE TrackRewinds
  BY <1>13, Zero, RingSeek DEF TrackRewinds
<1>14. CASE Opened
  <2>1. busy.at = "open" /\ busy'.at = "idle" /\ ring' = ring /\ lost' = lost
    BY <1>14 DEF Opened, Idle
  <2> QED
    BY <2>1 DEF RingInv, Leftover
<1>15. CASE UNCHANGED vars
  BY <1>15 DEF vars, RingInv, Leftover
<1> QED
  BY <1>1, <1>2, <1>3, <1>4, <1>5, <1>6, <1>7, <1>8, <1>9, <1>10, <1>11, <1>12,
     <1>13, <1>14, <1>15 DEF Next, Call, Step

\* Whatever number of samples a run of the machine writes, as long as two of
\* them and a buffer, or a quarter of the ring, fit into the ring, VioGSF's write
\* finds room for all it is given.
THEOREM RingNeverFull == Spec => []NothingDropped
<1>1. RingInv => NothingDropped
  BY DEF RingInv, NothingDropped
<1> QED
  BY TypeInit, TypeStep, RingInit, RingStep, <1>1, PTL DEF Spec
=============================================================================
