--------------------------- MODULE SequencerProofs ---------------------------
(***************************************************************************)
(* The sequencer's invariants, for every set of songs that do not run off  *)
(* their data and for any number of files that one object opens, those     *)
(* that find no free track and those that leave room for none included.    *)
(***************************************************************************)
EXTENDS Sequencer, SequenceLemmas

-----------------------------------------------------------------------------
(* Tracks, allocated and free.                                              *)

Allocated == {t \in Tracks : track[t].alloc}

\* A track is free as long as not all of them are allocated, and TrackAlloc
\* finds it.
LEMMA TrackAllocFinds ==
  ASSUME \E t \in Tracks : ~track[t].alloc
  PROVE  TrackAlloc \in Tracks /\ ~track[TrackAlloc].alloc
<1> DEFINE free == {t \in Tracks : ~track[t].alloc}
<1>1. Tracks \subseteq Nat
  BY SongsAssumption DEF Tracks
<1>2. \E t \in free : \A u \in free : t <= u
  BY <1>1, LeastExists
<1>3. TrackAlloc = CHOOSE t \in free : \A u \in free : t <= u
  BY <1>2 DEF TrackAlloc
<1> QED
  BY <1>2, <1>3

LEMMA TrackAllocKinds ==
  (TrackAlloc \in Tracks /\ ~track[TrackAlloc].alloc) \/ TrackAlloc = NoTrack
<1>1. CASE \E t \in Tracks : ~track[t].alloc
  BY <1>1, TrackAllocFinds
<1>2. CASE ~ \E t \in Tracks : ~track[t].alloc
  BY <1>2 DEF TrackAlloc
<1> QED
  BY <1>1, <1>2

LEMMA TracksFinite ==
  /\ IsFiniteSet(Tracks) /\ Cardinality(Tracks) = FSS_MAXTRACKS
  /\ \A S \in SUBSET Tracks : IsFiniteSet(S) /\ Cardinality(S) \in Nat
<1>1. IsFiniteSet(Tracks) /\ Cardinality(Tracks) = FSS_MAXTRACKS
  BY FS_Interval, SongsAssumption DEF Tracks
<1> QED
  BY <1>1, FS_Subset, FS_CardinalityType

\* A table without repetitions has as many tracks as places.
LEMMA TableSize ==
  ASSUME NEW q \in Seq(Tracks), \A i, j \in 1 .. Len(q) : q[i] = q[j] => i = j
  PROVE  Cardinality(Range(q)) = Len(q) /\ Range(q) \in SUBSET Tracks
<1>1. Len(q) \in Nat /\ DOMAIN q = 1 .. Len(q) /\ \A i \in 1 .. Len(q) : q[i] \in Tracks
  OBVIOUS
<1>2. q \in [1 .. Len(q) -> Range(q)]
  BY <1>1 DEF Range
<1>3. q \in Injection(1 .. Len(q), Range(q))
  BY <1>2, <1>1 DEF Injection, IsInjective
<1>4. q \in Surjection(1 .. Len(q), Range(q))
  <2>1. ASSUME NEW t \in Range(q) PROVE \E s \in 1 .. Len(q) : q[s] = t
    BY <1>1 DEF Range
  <2>2. \A t \in Range(q) : \E s \in 1 .. Len(q) : q[s] = t
    BY <2>1
  <2> QED
    BY <1>2, <2>2, Zenon DEF Surjection
<1>5. IsFiniteSet(1 .. Len(q)) /\ Cardinality(1 .. Len(q)) = Len(q)
  <2>1. ASSUME NEW n \in Nat PROVE IsFiniteSet(1 .. n) /\ Cardinality(1 .. n) = n
    BY FS_Interval
  <2> QED
    BY <1>1, <2>1
<1>6. ExistsBijection(1 .. Len(q), Range(q))
  BY <1>3, <1>4 DEF ExistsBijection, Bijection
<1> QED
  BY <1>1, <1>5, <1>6, FS_Bijection DEF Range

-----------------------------------------------------------------------------
(* The invariant.  A track that is allocated, and whose song was not       *)
(* freed, stands on a command of the song or has ended, its stack leads to *)
(* commands of the song, each loop in it has as many passes to go as it    *)
(* asks for, and what RANDOM put together is one of the song's commands.   *)

Places(s) == 1 .. Len(Data[s])

Counted(loop) ==
  IF loop.asked = 0 THEN loop.loopCount = 0
  ELSE loop.passes \in 1 .. loop.asked /\ loop.loopCount = loop.asked - loop.passes + 1

\* What is on the stack of a track of song s.
Frames(s) == {e \in Entries : e.dest \in Places(s) /\ (e.type = "loop" => Counted(e))}

Whole(t) ==
  /\ t \in TrackStates /\ Len(t.stack) <= FSS_TRACKSTACKSIZE
  /\ ~t.alloc => t = Zero
  /\ t.alloc /\ t.song # None =>
       /\ t.song \in Songs /\ t.stack \in Seq(Frames(t.song))
       /\ t.end \/ t.pos \in Places(t.song)
       /\ t.overriding = <<>> \/ t.overriding[1] \in Commands(t.song)

\* The tracks outside of the table when n files have been opened.
Lost(n) == IF n = 0 THEN 0 ELSE (IF n <= FSS_MAXTRACKS THEN n ELSE FSS_MAXTRACKS) - 1

\* A file that is about to be opened has the player to itself: one track, or
\* none at first, and no sound.  It is opened before the tracks have a tick,
\* and the tempo is the one that Stop has left.
OpeningInv ==
  /\ IF opens = 0 THEN trackIds = <<>> /\ run.at = "open"
     ELSE nTracks >= 1 /\ sseq \in Songs
  /\ run.at = "open" => opening # None
  /\ opening # None =>
       /\ opens < MaxOpens /\ nTracks <= 1
       /\ run.at \in {"timer", "clock", "open"}
       /\ run.at # "open" => tempoCount = 0
       /\ opens # 0 => tempo = 120 /\ tempoCount <= 120
       /\ \A c \in Channels : channel[c].state = "none"

\* A track whose command is due has not ended.
CommandInv == run.at = "cmd" => ~track[trackIds[run.i]].end

BaseInv ==
  /\ TypeOK /\ TracksAccounted /\ VoicesOwned
  /\ \A t \in Tracks : Whole(track[t])
  /\ OpeningInv /\ CommandInv


-----------------------------------------------------------------------------
(* Commands.                                                                *)

LEMMA BaseTypes ==
  ASSUME TypeOK
  PROVE  /\ opens \in Nat /\ opens <= MaxOpens /\ MaxOpens \in Nat
         /\ trackIds \in Seq(Tracks) /\ nTracks \in Nat
         /\ \A i \in 1 .. nTracks : trackIds[i] \in Tracks
         /\ tempo \in Nat /\ tempoCount \in Nat
         /\ Tracks \subseteq Nat /\ NoTrack \notin Tracks
<1>1. /\ opens \in 0 .. MaxOpens /\ trackIds \in Seq(Tracks)
      /\ tempo \in Nat /\ tempoCount \in Nat /\ tempoCount < 65536
  BY DEF TypeOK
<1>2. MaxOpens \in Nat /\ FSS_MAXTRACKS \in Nat
  BY SongsAssumption
<1>3. Tracks \subseteq Nat /\ NoTrack \notin Tracks
  BY <1>2 DEF Tracks, NoTrack
<1> QED
  BY <1>1, <1>2, <1>3 DEF nTracks

LEMMA RunKinds ==
  ASSUME TypeOK
  PROVE  /\ run.at = "cmd" => run.i \in 1 .. nTracks /\ run = Command(run.i)
         /\ run.at = "turn" => run.i \in 1 .. nTracks + 1 /\ run = Turn(run.i)
<1>1. \/ \E p \in {"open", "idle", "timer", "clock", "undefined"} : run = At(p)
      \/ \E i \in 1 .. nTracks + 1 : run = Turn(i)
      \/ \E i \in 1 .. nTracks : run = Command(i)
  BY DEF TypeOK, Stages
<1>2. ASSUME NEW p \in {"open", "idle", "timer", "clock", "undefined"} PROVE At(p).at \notin {"cmd", "turn"}
  BY DEF At
<1>3. \A i : Turn(i).at = "turn" /\ Turn(i).i = i /\ Command(i).at = "cmd" /\ Command(i).i = i
  BY DEF Turn, Command
<1> QED
  BY <1>1, <1>2, <1>3

LEMMA SongData ==
  ASSUME NEW s \in Songs
  PROVE  /\ Len(Data[s]) \in Nat \ {0} /\ 1 \in Places(s)
         /\ \A p \in Places(s) :
              /\ Data[s][p] \in Ops(Len(Data[s]))
              /\ Data[s][p].cmd \notin {"goto", "end"} => p + 1 \in Places(s)
              /\ Data[s][p].cmd = "if" => p + 2 \in Places(s)
<1>1. Data[s] \in Seq(Ops(Len(Data[s]))) /\ Len(Data[s]) > 0
  BY SongsWhole
<1>2. Len(Data[s]) \in Nat \ {0}
  BY <1>1
<1>3. \A p \in 1 .. Len(Data[s]) : Data[s][p] \in Ops(Len(Data[s]))
  BY <1>1
<1> QED
  BY <1>2, <1>3, SongsWhole DEF Places

\* What the data holds is a command of the song, and so is what RANDOM makes.
LEMMA SongCommands ==
  ASSUME NEW s \in Songs
  PROVE  /\ \A p \in Places(s) : Data[s][p] \in Commands(s)
         /\ \A op \in Commands(s) : op.cmd = "random" =>
              \A v \in op.values : [op.of EXCEPT !.n = v] \in Commands(s)
<1> DEFINE own == Range(Data[s])
<1>1. Data[s] \in Seq(Ops(Len(Data[s])))
  BY SongsWhole
<1>2. own \subseteq Ops(Len(Data[s])) /\ \A p \in Places(s) : Data[s][p] \in own
  BY <1>1 DEF Range, Places
<1> HIDE DEF own
<1>3. Commands(s) =
        own \cup UNION {{[op.of EXCEPT !.n = n] : n \in op.values} : op \in {o \in own : o.cmd = "random"}}
  BY DEF Commands, own
<1>4. ASSUME NEW o \in own, o.cmd = "random", NEW n \in o.values
      PROVE  [o.of EXCEPT !.n = n].cmd # "random" /\ [o.of EXCEPT !.n = n] \in Commands(s)
  <2>1. o.of \in Numbered
    BY <1>2, <1>4 DEF Ops, Numbered
  <2>2. [o.of EXCEPT !.n = n].cmd = o.of.cmd /\ o.of.cmd # "random"
    BY <2>1 DEF Numbered
  <2> QED
    BY <1>3, <1>4, <2>2
<1>5. ASSUME NEW op \in Commands(s), op.cmd = "random" PROVE op \in own
  <2>1. SUFFICES ASSUME op \notin own PROVE FALSE
    OBVIOUS
  <2>2. PICK o \in {o \in own : o.cmd = "random"} : op \in {[o.of EXCEPT !.n = n] : n \in o.values}
    BY <1>3, <2>1
  <2>3. PICK n \in o.values : op = [o.of EXCEPT !.n = n]
    BY <2>2
  <2> QED
    BY <1>4, <1>5, <2>3
<1> QED
  BY <1>2, <1>3, <1>4, <1>5

\* What a track is like when it is past the command op that it carries out.
Ready(p, op) ==
  /\ p \in TrackStates /\ p.alloc /\ ~p.end /\ p.song \in Songs
  /\ p.stack \in Seq(Frames(p.song)) /\ Len(p.stack) <= FSS_TRACKSTACKSIZE
  /\ p.overriding = <<>> /\ op \in Commands(p.song) /\ op \in Ops(Len(Data[p.song]))
  /\ op.cmd \notin {"goto", "end"} => p.pos \in Places(p.song)
  /\ op.cmd = "if" => p.pos + 1 \in Places(p.song)

SameBut(p, t) ==
  /\ p.alloc = t.alloc /\ p.end = t.end /\ p.song = t.song /\ p.stack = t.stack
  /\ p.tie = t.tie /\ p.prio = t.prio /\ p.notewait = t.notewait

LEMMA PastKeeps ==
  ASSUME NEW t \in TrackStates
  PROVE  /\ Past(t) \in TrackStates /\ SameBut(Past(t), t) /\ Past(t).overriding = <<>>
         /\ Past(t).pos = IF t.overriding # <<>> THEN t.pos ELSE t.pos + 1
<1>1. t.pos \in Nat /\ t.pos + 1 \in Nat /\ <<>> \in Seq(Numbered)
  BY DEF TrackStates
<1>2. CASE t.overriding # <<>>
  BY <1>1, <1>2 DEF Past, TrackStates, SameBut
<1>3. CASE t.overriding = <<>>
  BY <1>1, <1>3 DEF Past, TrackStates, SameBut
<1> QED
  BY <1>2, <1>3

LEMMA DueCommand ==
  ASSUME BaseInv, NEW i, Due(i)
  PROVE  /\ run = Command(i) /\ i \in 1 .. nTracks /\ trackIds[i] \in Tracks
         /\ track[trackIds[i]] \in TrackStates /\ track[trackIds[i]].alloc
         /\ track[trackIds[i]].song = sseq /\ sseq \in Songs
         /\ opening = None /\ opens >= 1
         /\ Ready(Past(track[trackIds[i]]), Fetched(track[trackIds[i]]))
         /\ SameBut(Past(track[trackIds[i]]), track[trackIds[i]])
<1> DEFINE t == track[trackIds[i]]
<1>0. run = Command(i) /\ t.song # None
  BY DEF Due
<1>1. run.at = "cmd" /\ run.i = i
  BY <1>0 DEF Command
<1>2. i \in 1 .. nTracks /\ trackIds[i] \in Tracks /\ nTracks \in Nat
  <2>1. TypeOK
    BY DEF BaseInv
  <2>3. trackIds \in Seq(Tracks)
    BY <2>1 DEF TypeOK
  <2>2. i \in 1 .. nTracks
    BY <1>1, <2>1, RunKinds
  <2> QED
    BY <2>2, <2>3 DEF nTracks
<1>3. t.alloc /\ t.song = sseq /\ t.song # None /\ Whole(t) /\ ~t.end
  BY <1>0, <1>1, <1>2 DEF BaseInv, TracksAccounted, CommandInv
<1>4. opening = None /\ sseq \in Songs /\ opens >= 1
  <2>0. TypeOK /\ OpeningInv
    BY DEF BaseInv
  <2>1. opens \in Nat
    BY <2>0, BaseTypes
  <2> QED
    BY <1>1, <2>0, <2>1 DEF OpeningInv
<1>5. /\ t \in TrackStates /\ t.stack \in Seq(Frames(sseq)) /\ t.pos \in Places(sseq)
      /\ t.overriding = <<>> \/ t.overriding[1] \in Commands(sseq)
      /\ Len(t.stack) <= FSS_TRACKSTACKSIZE
  BY <1>3 DEF Whole
<1>6. t.overriding \in Seq(Numbered) /\ t.pos \in Nat
  BY <1>5 DEF TrackStates
<1>7. /\ Past(t) \in TrackStates /\ SameBut(Past(t), t) /\ Past(t).overriding = <<>>
      /\ Past(t).pos = IF t.overriding # <<>> THEN t.pos ELSE t.pos + 1
  BY <1>5, PastKeeps
<1>8. /\ Fetched(t) \in Ops(Len(Data[sseq])) /\ Fetched(t) \in Commands(sseq)
      /\ Fetched(t).cmd \notin {"goto", "end"} => Past(t).pos \in Places(sseq)
      /\ Fetched(t).cmd = "if" => Past(t).pos + 1 \in Places(sseq)
  <2>1. CASE t.overriding # <<>>
    <3>1. Fetched(t) \in Numbered /\ Fetched(t) \in Commands(sseq)
      BY <1>5, <1>6, <2>1 DEF Fetched
    <3>2. Fetched(t).cmd \in {"note", "rest", "loopstart"}
      BY <3>1 DEF Numbered
    <3> QED
      BY <1>5, <1>7, <2>1, <3>1, <3>2 DEF Ops
  <2>2. CASE t.overriding = <<>>
    <3>1. Fetched(t) = Data[sseq][t.pos]
      BY <1>3, <2>2 DEF Fetched
    <3>2. Data[sseq][t.pos] \in Commands(sseq)
      BY <1>4, <1>5, SongCommands
    <3> QED
      BY <1>4, <1>5, <1>6, <1>7, <2>2, <3>1, <3>2, SongData
  <2> QED
    BY <2>1, <2>2
<1>9. Ready(Past(t), Fetched(t))
  BY <1>3, <1>4, <1>5, <1>7, <1>8 DEF Ready, SameBut
<1> QED
  BY <1>0, <1>2, <1>3, <1>4, <1>5, <1>7, <1>9

-----------------------------------------------------------------------------
(* What a command makes of its own track.                                   *)

LEMMA OpFields ==
  ASSUME NEW n \in Nat, NEW op \in Ops(n)
  PROVE  /\ op.cmd \in {"note", "rest", "loopstart"} => op.n \in Int
         /\ op.cmd \in {"prio", "tempo"} => op.n \in Nat
         /\ op.cmd \in {"goto", "call", "opentrack"} => op.to \in 1 .. n
         /\ op.cmd \in {"tie", "notewait"} => op.on \in BOOLEAN
         /\ op.cmd = "random" =>
              op.values \subseteq Int /\ \A v \in op.values : [op.of EXCEPT !.n = v] \in Numbered
         /\ op.cmd = "note" => op.kind \in Kinds \cup {None}
<1>1. ASSUME op.cmd = "random"
      PROVE  op.of \in Numbered /\ op.values \subseteq Int
  <2>1. op.of \in Numbered /\ op.values \in SUBSET Int16
    BY <1>1 DEF Ops, Numbered
  <2>2. Int16 \subseteq Int
    BY DEF Int16
  <2> QED
    BY <2>1, <2>2
<1>2. \A o \in Numbered, v \in Int : [o EXCEPT !.n = v] \in Numbered
  BY DEF Numbered
<1>3. op.cmd = "note" => op \in Numbered
  BY DEF Ops
<1> QED
  BY <1>1, <1>2, <1>3 DEF Ops, Numbered

\* A loop that goes on keeps its count.
LEMMA AgainCounted ==
  ASSUME NEW s, NEW e \in Frames(s), e.type = "loop", e.loopCount # 1
  PROVE  Again(e) \in Frames(s)
<1>1. /\ e \in [type : {"loop"}, dest : Nat, loopCount : Nat, asked : Nat, passes : Nat]
      /\ Counted(e) /\ e.dest \in Places(s)
  BY DEF Frames, Entries
<1>2. /\ Again(e) \in [type : {"loop"}, dest : Nat, loopCount : Nat, asked : Nat, passes : Nat]
      /\ Again(e).asked = e.asked /\ Again(e).dest = e.dest /\ Again(e).type = "loop"
      /\ Again(e).loopCount = (IF e.loopCount = 0 THEN 0 ELSE e.loopCount - 1)
      /\ Again(e).passes = (IF e.asked = 0 \/ e.passes > e.asked THEN e.passes ELSE e.passes + 1)
  <2>1. e.loopCount \in Nat /\ e.asked \in Nat /\ e.passes \in Nat /\ e.dest \in Nat
    BY <1>1
  <2> DEFINE l == IF e.loopCount = 0 THEN 0 ELSE e.loopCount - 1
             n == IF e.asked = 0 \/ e.passes > e.asked THEN e.passes ELSE e.passes + 1
  <2>2. l \in Nat /\ n \in Nat
    BY <2>1
  <2>3. Again(e) = [e EXCEPT !.loopCount = l, !.passes = n]
    BY <1>1 DEF Again
  <2> HIDE DEF l, n
  <2>4. /\ Again(e) \in [type : {"loop"}, dest : Nat, loopCount : Nat, asked : Nat, passes : Nat]
        /\ Again(e).asked = e.asked /\ Again(e).dest = e.dest /\ Again(e).type = "loop"
        /\ Again(e).loopCount = l /\ Again(e).passes = n
    BY <1>1, <2>2, <2>3
  <2> QED
    BY <2>4 DEF l, n
<1>3. Counted(Again(e))
  BY <1>1, <1>2 DEF Counted
<1> QED
  BY <1>1, <1>2, <1>3 DEF Frames, Entries

\* The commands that use the stack.
LEMMA StackCommands ==
  ASSUME NEW p, NEW op, Ready(p, op),
         NEW new, \/ op.cmd = "call" /\ new = Call(p, op)
                  \/ op.cmd = "ret" /\ new = Ret(p)
                  \/ op.cmd = "loopstart" /\ new = LoopStart(p, op)
                  \/ op.cmd = "loopend" /\ new = LoopEnd(p)
  PROVE  /\ new \in TrackStates
         /\ new.alloc /\ ~new.end /\ new.song = p.song /\ new.tie = p.tie
         /\ new.stack \in Seq(Frames(p.song)) /\ Len(new.stack) <= FSS_TRACKSTACKSIZE
         /\ new.pos \in Places(p.song) /\ new.overriding = p.overriding
<1> DEFINE F == Frames(p.song)
<1>1. /\ p \in TrackStates /\ p.alloc /\ ~p.end /\ p.song \in Songs /\ p.stack \in Seq(F)
      /\ Len(p.stack) <= FSS_TRACKSTACKSIZE /\ p.pos \in Places(p.song)
      /\ op \in Ops(Len(Data[p.song]))
  BY DEF Ready
<1>2. Places(p.song) \subseteq Nat /\ Len(Data[p.song]) \in Nat /\ F \subseteq Entries
  BY <1>1, SongData DEF Places, Frames
<1>3. Seq(F) \subseteq Seq(Entries) /\ FSS_TRACKSTACKSIZE \in Nat /\ Len(p.stack) \in Nat
  BY <1>1, <1>2, SongsAssumption
<1>4. ASSUME new = p
      PROVE  new \in TrackStates /\ new.stack \in Seq(F)
  BY <1>1, <1>4
<1>5. ASSUME NEW stack \in Seq(F), NEW pos \in Places(p.song)
      PROVE  LET t == [p EXCEPT !.stack = stack, !.pos = pos]
             IN  /\ t \in TrackStates /\ t.stack = stack /\ t.pos = pos
                 /\ t.alloc = p.alloc /\ t.end = p.end /\ t.song = p.song /\ t.tie = p.tie
                 /\ t.overriding = p.overriding
  BY <1>1, <1>2, <1>3 DEF TrackStates
<1>5a. ASSUME NEW stack \in Seq(F), NEW pos \in Places(p.song), Len(stack) <= FSS_TRACKSTACKSIZE,
               new = [p EXCEPT !.stack = stack, !.pos = pos]
        PROVE  /\ new \in TrackStates
               /\ new.alloc /\ ~new.end /\ new.song = p.song /\ new.tie = p.tie
               /\ new.stack \in Seq(F) /\ Len(new.stack) <= FSS_TRACKSTACKSIZE
               /\ new.pos \in Places(p.song) /\ new.overriding = p.overriding
  BY <1>1, <1>5, <1>5a
<1>6. [p EXCEPT !.stack = p.stack] = p /\ [p EXCEPT !.pos = p.pos] = p
  BY <1>1 DEF TrackStates
<1>7. CASE op.cmd = "call"
  <2>1. op.to \in Places(p.song)
    BY <1>1, <1>2, <1>7, OpFields DEF Places
  <2>2. [type |-> "call", dest |-> p.pos] \in F
    BY <1>1, <1>2 DEF Frames, Entries
  <2>3. CASE Full(p)
    BY <1>1, <1>7, <2>3 DEF Call
  <2>4. CASE ~Full(p)
    <3> DEFINE stack == Append(p.stack, [type |-> "call", dest |-> p.pos])
    <3>1. stack \in Seq(F) /\ Len(stack) <= FSS_TRACKSTACKSIZE
      BY <1>1, <1>3, <2>2, <2>4 DEF Full
    <3>2. new = [p EXCEPT !.stack = stack, !.pos = op.to]
      BY <1>7, <2>4 DEF Call
    <3> HIDE DEF stack
    <3> QED
      BY <1>1, <1>5a, <2>1, <3>1, <3>2
  <2> QED
    BY <2>3, <2>4
<1>8. CASE op.cmd = "ret"
  <2>1. CASE ~TopIs(p, "call")
    BY <1>1, <1>8, <2>1 DEF Ret
  <2>2. CASE TopIs(p, "call")
    <3>1. Last(p.stack) \in F /\ Front(p.stack) \in Seq(F) /\ Len(Front(p.stack)) = Len(p.stack) - 1
      BY <1>1, <2>2, FrontLast DEF TopIs
    <3>2. Last(p.stack).dest \in Places(p.song)
      BY <3>1 DEF Frames
    <3>3. new = [p EXCEPT !.stack = Front(p.stack), !.pos = Last(p.stack).dest]
      BY <1>1, <1>8, <2>2 DEF Ret, TrackStates
    <3> DEFINE stack == Front(p.stack)
    <3>4. stack \in Seq(F) /\ Len(stack) <= FSS_TRACKSTACKSIZE
      BY <1>1, <1>3, <3>1
    <3>5. new = [p EXCEPT !.stack = stack, !.pos = Last(p.stack).dest]
      BY <3>3
    <3> HIDE DEF stack
    <3> QED
      BY <1>1, <1>5a, <3>2, <3>4, <3>5
  <2> QED
    BY <2>1, <2>2
<1>9. CASE op.cmd = "loopstart"
  <2>1. CASE Full(p)
    BY <1>1, <1>9, <2>1 DEF LoopStart
  <2>2. CASE ~Full(p)
    <3> DEFINE n == op.n % 256
               e == [type |-> "loop", dest |-> p.pos, loopCount |-> n, asked |-> n, passes |-> 1]
               stack == Append(p.stack, e)
    <3>1. n \in Nat
      BY <1>1, <1>2, <1>9, OpFields
    <3>4. new = [p EXCEPT !.stack = stack]
      BY <1>9, <2>2 DEF LoopStart
    <3> HIDE DEF n
    <3>2. e \in F
      BY <1>1, <1>2, <3>1 DEF Frames, Entries, Counted
    <3>3. stack \in Seq(F) /\ Len(stack) <= FSS_TRACKSTACKSIZE
      BY <1>1, <1>3, <2>2, <3>2 DEF Full
    <3>5. new = [p EXCEPT !.stack = stack, !.pos = p.pos]
      BY <1>1, <3>4 DEF TrackStates
    <3> HIDE DEF stack
    <3> QED
      BY <1>1, <1>5a, <3>3, <3>5
  <2> QED
    BY <2>1, <2>2
<1>10. CASE op.cmd = "loopend"
  <2> DEFINE loop == Last(p.stack)
  <2>1. CASE ~TopIs(p, "loop")
    BY <1>1, <1>10, <2>1 DEF LoopEnd
  <2>2. CASE TopIs(p, "loop")
    <3>1. /\ loop \in F /\ loop.type = "loop" /\ Front(p.stack) \in Seq(F)
          /\ Len(Front(p.stack)) = Len(p.stack) - 1 /\ loop.dest \in Places(p.song)
      BY <1>1, <2>2, FrontLast DEF TopIs, Frames
    <3>2. CASE loop.loopCount = 1
      <4>1. new = [p EXCEPT !.stack = Front(p.stack), !.pos = p.pos]
        BY <1>1, <1>10, <2>2, <3>2 DEF LoopEnd, TrackStates
      <4> DEFINE stack == Front(p.stack)
      <4>2. stack \in Seq(F) /\ Len(stack) <= FSS_TRACKSTACKSIZE
        BY <1>1, <1>3, <3>1
      <4>3. new = [p EXCEPT !.stack = stack, !.pos = p.pos]
        BY <4>1
      <4> HIDE DEF stack
      <4> QED
        BY <1>1, <1>5a, <4>2, <4>3
    <3>3. CASE loop.loopCount # 1
      <4> DEFINE stack == [p.stack EXCEPT ![Len(p.stack)] = Again(loop)]
      <4>1. Again(loop) \in F
        BY <3>1, <3>3, AgainCounted
      <4>2. stack \in Seq(F) /\ Len(stack) = Len(p.stack)
        BY <1>1, <2>2, <4>1, FrontLast DEF TopIs
      <4>3. new = [p EXCEPT !.stack = stack, !.pos = loop.dest]
        BY <1>1, <1>10, <2>2, <3>3 DEF LoopEnd, TrackStates
      <4> HIDE DEF stack
      <4> QED
        BY <1>1, <1>3, <1>5a, <3>1, <4>2, <4>3
    <3> QED
      BY <3>2, <3>3
  <2> QED
    BY <2>1, <2>2
<1> QED
  BY <1>7, <1>8, <1>9, <1>10

LEMMA TicksKinds == ASSUME NEW n \in Int PROVE Ticks(n) \in Nat \cup {Endless}
  BY DEF Ticks

\* The commands that set a field of the track.
LEMMA FieldCommands ==
  ASSUME NEW p, NEW op, Ready(p, op),
         NEW new, \/ new = p /\ op.cmd \notin {"goto", "end"}
                  \/ \E n \in Nat \cup {Endless} : new = [p EXCEPT !.wait = n] /\ op.cmd \in {"note", "rest"}
                  \/ \E n \in Nat : new = [p EXCEPT !.prio = n] /\ op.cmd = "prio"
                  \/ \E b \in BOOLEAN : new = [p EXCEPT !.notewait = b] /\ op.cmd = "notewait"
                  \/ \E b \in BOOLEAN : new = [p EXCEPT !.tie = b] /\ op.cmd = "tie"
                  \/ \E b \in BOOLEAN :
                       new = [p EXCEPT !.lastComparisonResult = b] /\ op.cmd = "compare"
                  \/ \E o \in Numbered \cap Commands(p.song) :
                       new = [p EXCEPT !.overriding = <<o>>] /\ op.cmd = "random"
                  \/ \E to \in Places(p.song) : new = [p EXCEPT !.pos = to]
                  \/ new = [p EXCEPT !.end = TRUE]
  PROVE  Whole(new) /\ new.alloc /\ new.song = p.song /\ new.stack = p.stack
<1>1. /\ p \in TrackStates /\ p.alloc /\ ~p.end /\ p.song \in Songs
      /\ p.stack \in Seq(Frames(p.song)) /\ Len(p.stack) <= FSS_TRACKSTACKSIZE
      /\ op.cmd \notin {"goto", "end"} => p.pos \in Places(p.song)
      /\ p.overriding = <<>>
  BY DEF Ready
<1>2. Places(p.song) \subseteq Nat
  BY <1>1, SongData DEF Places
<1>3. \A o \in Numbered : <<o>> \in Seq(Numbered) /\ <<o>>[1] = o
  OBVIOUS
<1>4. /\ new \in TrackStates /\ new.alloc /\ new.song = p.song /\ new.stack = p.stack
      /\ new.end \/ new.pos \in Places(p.song)
      /\ new.overriding = <<>> \/ new.overriding[1] \in Commands(p.song)
  <2>1. CASE new = p /\ op.cmd \notin {"goto", "end"}
    BY <1>1, <2>1
  <2>2. CASE \E n \in Nat \cup {Endless} : new = [p EXCEPT !.wait = n] /\ op.cmd \in {"note", "rest"}
    BY <1>1, <2>2 DEF TrackStates
  <2>3. CASE \E n \in Nat : new = [p EXCEPT !.prio = n] /\ op.cmd = "prio"
    BY <1>1, <2>3 DEF TrackStates
  <2>4. CASE \E b \in BOOLEAN : new = [p EXCEPT !.notewait = b] /\ op.cmd = "notewait"
    BY <1>1, <2>4 DEF TrackStates
  <2>5. CASE \E b \in BOOLEAN : new = [p EXCEPT !.tie = b] /\ op.cmd = "tie"
    BY <1>1, <2>5 DEF TrackStates
  <2>6. CASE \E b \in BOOLEAN : new = [p EXCEPT !.lastComparisonResult = b] /\ op.cmd = "compare"
    BY <1>1, <2>6 DEF TrackStates
  <2>7. CASE \E o \in Numbered \cap Commands(p.song) : new = [p EXCEPT !.overriding = <<o>>] /\ op.cmd = "random"
    <3>1. PICK o \in Numbered \cap Commands(p.song) : new = [p EXCEPT !.overriding = <<o>>]
      BY <2>7
    <3> DEFINE over == <<o>>
    <3>2. over \in Seq(Numbered) /\ over[1] \in Commands(p.song) /\ new = [p EXCEPT !.overriding = over]
      BY <1>3, <3>1
    <3> HIDE DEF over
    <3>3. new \in TrackStates /\ new.overriding = over
      BY <1>1, <3>2 DEF TrackStates
    <3>4. new.alloc /\ new.song = p.song /\ new.stack = p.stack /\ new.pos = p.pos
      BY <1>1, <3>2 DEF TrackStates
    <3> QED
      BY <1>1, <2>7, <3>2, <3>3, <3>4
  <2>8. CASE \E to \in Places(p.song) : new = [p EXCEPT !.pos = to]
    BY <1>1, <1>2, <2>8 DEF TrackStates
  <2>9. CASE new = [p EXCEPT !.end = TRUE]
    BY <1>1, <2>9 DEF TrackStates
  <2> QED
    BY <2>1, <2>2, <2>3, <2>4, <2>5, <2>6, <2>7, <2>8, <2>9
<1> QED
  BY <1>1, <1>4 DEF Whole

LEMMA AfterWhole ==
  ASSUME NEW p, NEW op, Ready(p, op), op.cmd \notin {"note", "tie", "opentrack", "tempo"},
         NEW new \in After(p, op)
  PROVE  Whole(new) /\ new.alloc /\ new.song = p.song /\ new.tie = p.tie
<1>1. /\ p \in TrackStates /\ p.alloc /\ ~p.end /\ p.song \in Songs
      /\ op \in Ops(Len(Data[p.song])) /\ Len(Data[p.song]) \in Nat /\ p.overriding = <<>>
  BY SongData DEF Ready
<1>2. CASE op.cmd \in {"call", "ret", "loopstart", "loopend"}
  <2>1. \/ op.cmd = "call" /\ new = Call(p, op)
        \/ op.cmd = "ret" /\ new = Ret(p)
        \/ op.cmd = "loopstart" /\ new = LoopStart(p, op)
        \/ op.cmd = "loopend" /\ new = LoopEnd(p)
    BY <1>2 DEF After
  <2> QED
    BY <1>1, <2>1, StackCommands DEF Whole
<1>3. ASSUME op.cmd = "rest" PROVE Ticks(op.n) \in Nat \cup {Endless} /\ new = [p EXCEPT !.wait = Ticks(op.n)]
  BY <1>1, <1>3, OpFields, TicksKinds DEF After
<1>4. ASSUME op.cmd = "goto" PROVE op.to \in Places(p.song) /\ new = [p EXCEPT !.pos = op.to]
  BY <1>1, <1>4, OpFields DEF After, Places
<1>5. ASSUME op.cmd = "prio" PROVE op.n \in Nat /\ new = [p EXCEPT !.prio = op.n]
  BY <1>1, <1>5, OpFields DEF After
<1>6. ASSUME op.cmd = "notewait" PROVE op.on \in BOOLEAN /\ new = [p EXCEPT !.notewait = op.on]
  BY <1>1, <1>6, OpFields DEF After
<1>7. ASSUME op.cmd = "end" PROVE new = [p EXCEPT !.end = TRUE]
  BY <1>7 DEF After
<1>8. ASSUME op.cmd = "random"
      PROVE  \E o \in Numbered \cap Commands(p.song) : new = [p EXCEPT !.overriding = <<o>>]
  <2>1. PICK n \in op.values : new = [p EXCEPT !.overriding = <<[op.of EXCEPT !.n = n]>>]
    BY <1>8 DEF After
  <2>2. [op.of EXCEPT !.n = n] \in Numbered /\ [op.of EXCEPT !.n = n] \in Commands(p.song)
    BY <1>1, <1>8, OpFields, SongCommands DEF Ready
  <2> QED
    BY <2>1, <2>2
<1>9. ASSUME op.cmd = "compare" PROVE \E b \in BOOLEAN : new = [p EXCEPT !.lastComparisonResult = b]
  BY <1>9 DEF After
<1>10. ASSUME op.cmd = "if" PROVE new = p \/ \E to \in Places(p.song) : new = [p EXCEPT !.pos = to]
  <2>1. p.pos + 1 \in Places(p.song)
    BY <1>10 DEF Ready
  <2>2. new = If(p)
    BY <1>10 DEF After
  <2>3. If(p) = p \/ If(p) = [p EXCEPT !.pos = p.pos + 1]
    BY DEF If
  <2> QED
    BY <2>1, <2>2, <2>3
<1>11. CASE op.cmd \notin {"call", "ret", "loopstart", "loopend"}
  <2>1. CASE op.cmd \notin {"rest", "goto", "prio", "notewait", "end", "random", "compare", "if"}
    <3>1. new = p
      BY <1>11, <2>1 DEF After
    <3>2. op.cmd \notin {"goto", "end"}
      BY <2>1
    <3> QED
      BY <3>1, <3>2, FieldCommands
  <2>2. CASE op.cmd = "random"
    <3>1. new.tie = p.tie
      BY <1>1, <1>8, <2>2 DEF TrackStates
    <3> QED
      BY <1>8, <2>2, <3>1, FieldCommands
  <2>3. CASE op.cmd \in {"rest", "goto", "prio", "notewait", "end", "compare", "if"}
    <3>1. new.tie = p.tie
      BY <1>1, <1>3, <1>4, <1>5, <1>6, <1>7, <1>9, <1>10, <2>3 DEF TrackStates
    <3>2. op.cmd = "if" => op.cmd \notin {"goto", "end"}
      OBVIOUS
    <3> QED
      BY <1>3, <1>4, <1>5, <1>6, <1>7, <1>9, <1>10, <2>3, <3>1, <3>2, FieldCommands
  <2> QED
    BY <2>1, <2>2, <2>3
<1> QED
  BY <1>2, <1>11

-----------------------------------------------------------------------------
(* What an operation makes of the channels.                                 *)

Voices == channel \in [Channels -> ChannelStates]

\* A channel takes the note of the track t.
Takes(c, t, len) ==
  /\ channel'[c].state = "start" /\ channel'[c].trackId = t
  /\ channel'[c].noteLength = len /\ channel'[c].len = len /\ channel'[c].age = 0

LEMMA NoteOnEffect ==
  ASSUME Voices, NEW t \in Tracks, track[t].prio \in Nat, NEW k \in Kinds \cup {None},
         NEW n \in Int, NoteOn(t, k, n)
  PROVE  /\ Voices'
         /\ \/ channel' = channel
            \/ \E c \in Channels :
                 Takes(c, t, Ticks(n)) /\ \A d \in Channels \ {c} : channel'[d] = channel[d]
<1> DEFINE c == IF k \in Kinds THEN ChannelAlloc(k, track[t].prio) ELSE NoChannel
           len == Ticks(n)
<1>3. len \in Nat \cup {Endless}
  BY TicksKinds
<1>1. CASE c = NoChannel
  BY <1>1 DEF NoteOn, Voices
<1>2. CASE c # NoChannel
  <2> DEFINE ch == [channel[c] EXCEPT !.state = "start", !.trackId = t, !.prio = track[t].prio,
                      !.vol = LoudestVol, !.noteLength = len, !.kind = k, !.moving = FALSE,
                      !.len = len, !.age = 0]
  <2>1. channel' = [channel EXCEPT ![c] = ch]
    BY <1>2 DEF NoteOn
  <2> HIDE DEF c, len
  <2>2. CASE c \in Channels
    <3>1. channel[c] \in ChannelStates
      BY <2>2 DEF Voices
    <3>2. /\ ch \in ChannelStates /\ ch.state = "start" /\ ch.trackId = t
          /\ ch.noteLength = len /\ ch.len = len /\ ch.age = 0
      <4>1. "start" \in Sounding /\ LoudestVol \in 0 .. LoudestVol /\ 0 \in Nat
        BY DEF Sounding, Unreleased, LoudestVol
      <4> QED
        BY <1>3, <3>1, <4>1 DEF ChannelStates
    <3> HIDE DEF ch
    <3>3. Voices' /\ channel'[c] = ch /\ \A d \in Channels \ {c} : channel'[d] = channel[d]
      BY <2>1, <2>2, <3>2 DEF Voices
    <3> QED
      BY <2>2, <3>2, <3>3 DEF Takes, len
  <2>3. CASE c \notin Channels
    BY <2>1, <2>3 DEF Voices
  <2> QED
    BY <2>2, <2>3
<1> QED
  BY <1>1, <1>2

\* A tied note takes a channel only if its track holds none.
LEMMA NoteOnTieEffect ==
  ASSUME Voices, NEW t \in Tracks, track[t].prio \in Nat, NEW k \in Kinds \cup {None},
         NoteOnTie(t, k)
  PROVE  /\ Voices'
         /\ \/ \A d \in Channels : \A f \in {"state", "trackId", "noteLength", "len", "age"} :
                 channel'[d][f] = channel[d][f]
            \/ /\ \A d \in Channels : ~(channel[d].trackId = t /\ channel[d].state \in Unreleased)
               /\ \E c \in Channels :
                    Takes(c, t, Endless) /\ \A d \in Channels \ {c} : channel'[d] = channel[d]
<1> DEFINE tied == {c \in Channels : channel[c].trackId = t /\ channel[c].state \in Unreleased}
<1>1. CASE tied = {}
  <2>1. NoteOn(t, k, Endless) /\ Endless \in Int /\ Ticks(Endless) = Endless
    BY <1>1 DEF NoteOnTie, Ticks, Endless
  <2> QED
    BY <1>1, <2>1, NoteOnEffect
<1>2. CASE tied # {}
  <2>1. PICK c : channel' = [channel EXCEPT ![c].prio = track[t].prio]
    BY <1>2 DEF NoteOnTie
  <2>2. ASSUME NEW d \in Channels
        PROVE  /\ channel'[d] \in ChannelStates
               /\ \A f \in {"state", "trackId", "noteLength", "len", "age"} :
                    channel'[d][f] = channel[d][f]
    <3>1. channel[d] \in ChannelStates
      BY DEF Voices
    <3>2. channel'[d] = IF d = c THEN [channel[d] EXCEPT !.prio = track[t].prio] ELSE channel[d]
      BY <2>1 DEF Voices
    <3> QED
      BY <3>1, <3>2 DEF ChannelStates
  <2>3. Voices'
    BY <2>1, <2>2 DEF Voices
  <2> QED
    BY <2>2, <2>3
<1> QED
  BY <1>1, <1>2

LEMMA ReleasedKeeps ==
  ASSUME NEW ch \in ChannelStates
  PROVE  /\ Released(ch) \in ChannelStates /\ Released(ch).state = "release"
         /\ Released(ch).trackId = ch.trackId /\ Released(ch).len = 0
  BY DEF Released, ChannelStates, Sounding, Endless

LEMMA KilledIs == Killed \in ChannelStates /\ Killed.state = "none" /\ Killed.len = 0
  BY DEF Killed, ChannelStates, LoudestVol, NoTrack, Endless

LEMMA ReleaseAllNotesEffect ==
  ASSUME Voices, NEW t \in Tracks, ReleaseAllNotes(t)
  PROVE  /\ Voices'
         /\ \A c \in Channels : ~(channel'[c].trackId = t /\ channel'[c].state \in Unreleased)
         /\ \A c \in Channels : channel'[c] = channel[c] \/ channel'[c] = Released(channel[c])
         /\ \A c \in Channels : channel'[c].trackId = channel[c].trackId
<1>1. ASSUME NEW c \in Channels
      PROVE  /\ channel'[c] \in ChannelStates /\ channel'[c].trackId = channel[c].trackId
             /\ channel'[c] = channel[c] \/ channel'[c] = Released(channel[c])
             /\ ~(channel'[c].trackId = t /\ channel'[c].state \in Unreleased)
  <2>1. channel[c] \in ChannelStates
    BY DEF Voices
  <2>2. channel'[c] = IF channel[c].trackId = t /\ channel[c].state \in Unreleased
                      THEN Released(channel[c]) ELSE channel[c]
    BY DEF ReleaseAllNotes
  <2>3. "release" \notin Unreleased
    BY DEF Unreleased, Held
  <2> QED
    BY <2>1, <2>2, <2>3, ReleasedKeeps
<1> QED
  BY <1>1 DEF ReleaseAllNotes, Voices

LEMMA AgesEffect ==
  ASSUME Voices, NEW t \in Tracks, channel' = Ages(t)
  PROVE  /\ Voices'
         /\ \A c \in Channels :
              channel'[c] = IF channel[c].trackId = t /\ channel[c].len > 0
                            THEN [channel[c] EXCEPT !.age = channel[c].age + 1] ELSE channel[c]
         /\ \A c \in Channels :
              channel'[c].state = channel[c].state /\ channel'[c].trackId = channel[c].trackId
<1>1. ASSUME NEW c \in Channels
      PROVE  /\ channel'[c] = IF channel[c].trackId = t /\ channel[c].len > 0
                            THEN [channel[c] EXCEPT !.age = channel[c].age + 1] ELSE channel[c]
             /\ channel'[c] \in ChannelStates
             /\ channel'[c].state = channel[c].state /\ channel'[c].trackId = channel[c].trackId
  <2>1. channel[c] \in ChannelStates
    BY DEF Voices
  <2>2. channel'[c] = IF channel[c].trackId = t /\ channel[c].len > 0
                      THEN [channel[c] EXCEPT !.age = channel[c].age + 1] ELSE channel[c]
    BY DEF Ages
  <2> QED
    BY <2>1, <2>2 DEF ChannelStates
<1> QED
  BY <1>1 DEF Ages, Voices

\* A channel that UpdateTrack and Update have seen.
LEMMA UpdateEffect ==
  ASSUME NEW ch \in ChannelStates, NEW stageEnds \in BOOLEAN, NEW vol \in 0 .. LoudestVol
  PROVE  LET u == UpdateTrack(ch)
             new == Update(u, stageEnds, vol)
         IN  /\ u \in ChannelStates /\ u.trackId = ch.trackId
             /\ ch.state = "none" => u = ch /\ new = ch
             /\ new \in ChannelStates
             /\ \/ new = Killed
                \/ new.state = "none" /\ ch.state = "none"
                \/ /\ new.trackId = ch.trackId /\ new.noteLength = u.noteLength
                   /\ new.len = u.len /\ new.age = u.age
                   /\ new.state \in Sounding /\ ch.state \in Sounding
                   /\ new.state \in Unreleased => u.state \in Unreleased /\ new.state # "start"
<1> DEFINE u == UpdateTrack(ch)
           new == Update(u, stageEnds, vol)
<1>1. u \in ChannelStates /\ u.trackId = ch.trackId /\ (ch.state = "none" => u = ch)
      /\ (u.state = "none" => ch.state = "none")
  <2>1. CASE ch.trackId \in beats /\ ch.state \in Held /\ ch.noteLength = 1
    BY <2>1, ReleasedKeeps DEF UpdateTrack, Held
  <2>2. CASE ch.trackId \in beats /\ ch.state \in Held /\ ch.noteLength # 1
    <3> DEFINE n == IF ch.noteLength > 0 THEN ch.noteLength - 1 ELSE Endless
    <3>1. n \in Nat \cup {Endless}
      BY DEF ChannelStates, Endless
    <3>2. u = [ch EXCEPT !.noteLength = n]
      BY <2>2 DEF UpdateTrack
    <3> HIDE DEF n, u
    <3> QED
      BY <2>2, <3>1, <3>2 DEF ChannelStates, Held
  <2>3. CASE ~(ch.trackId \in beats /\ ch.state \in Held)
    BY <2>3 DEF UpdateTrack
  <2> QED
    BY <2>1, <2>2, <2>3
<1> HIDE DEF u
<1>2. CASE u.state = "none"
  <2>1. new = u
    BY <1>2 DEF Update
  <2> HIDE DEF new
  <2> QED
    BY <1>1, <1>2, <2>1 DEF new, u
<1>3. CASE new = Killed
  BY <1>1, <1>3, KilledIs DEF Update, u
<1>4. CASE u.state # "none" /\ new # Killed
  <2> DEFINE next == CASE u.state = "start"   -> IF stageEnds THEN "decay" ELSE "attack"
                       [] u.state = "attack"  -> IF stageEnds THEN "decay" ELSE "attack"
                       [] u.state = "decay"   -> IF stageEnds THEN "sustain" ELSE "decay"
                       [] OTHER                -> u.state
             moving == u.moving \/ u.state = "start"
  <2>1. new = [u EXCEPT !.state = next, !.enable = TRUE, !.vol = vol, !.moving = moving]
    BY <1>4 DEF Update
  <2>2. /\ next \in Sounding /\ u.state \in Sounding
        /\ next \in Unreleased => u.state \in Unreleased /\ next # "start"
    BY <1>1, <1>4 DEF ChannelStates, Sounding, Unreleased, Held
  <2> HIDE DEF next, new
  <2>3. moving \in BOOLEAN
    OBVIOUS
  <2> HIDE DEF moving
  <2>4. /\ new \in ChannelStates /\ new.state = next /\ new.trackId = u.trackId
        /\ new.noteLength = u.noteLength /\ new.len = u.len /\ new.age = u.age
    BY <1>1, <2>1, <2>2, <2>3 DEF ChannelStates
  <2>5. ch.state \in Sounding
    BY <1>1, <1>4 DEF ChannelStates, Sounding
  <2> QED
    BY <1>1, <1>4, <2>2, <2>4, <2>5 DEF new, u
<1> QED
  BY <1>2, <1>3, <1>4

-----------------------------------------------------------------------------
(* Each step keeps the invariant.  The commands that leave the table alone  *)
(* first: what they do is known by what becomes of their track, the         *)
(* channels and the tempo.                                                  *)

LEMMA CommandStep ==
  ASSUME BaseInv, NEW i, Due(i),
         NEW new, Whole(new), new.alloc, new.song = sseq, Becomes(i, new),
         UNCHANGED <<sseq, trackIds, beats, tempoCount, opening, opens>>,
         tempo' \in Nat, Voices', VoicesOwned'
  PROVE  BaseInv'
<1> DEFINE t == trackIds[i]
<1>1. /\ run = Command(i) /\ i \in 1 .. nTracks /\ t \in Tracks
      /\ track[t].alloc /\ track[t].song = sseq
      /\ opening = None /\ opens >= 1 /\ sseq \in Songs
  BY DueCommand
<1>2. /\ TypeOK /\ TracksAccounted /\ OpeningInv /\ \A u \in Tracks : Whole(track[u])
      /\ new \in TrackStates /\ Len(new.stack) <= FSS_TRACKSTACKSIZE
  BY DEF BaseInv, Whole
<1>3. track \in [Tracks -> TrackStates] /\ track' = [track EXCEPT ![t] = new]
  BY <1>2 DEF TypeOK, Becomes
<1>4. \A u \in Tracks : /\ track'[u] = IF u = t THEN new ELSE track[u]
                        /\ track'[u].alloc = track[u].alloc /\ track'[u].song = track[u].song
  BY <1>1, <1>3
<1>5. track' \in [Tracks -> TrackStates] /\ \A u \in Tracks : Whole(track'[u])
  BY <1>2, <1>3, <1>4
<1>6. \/ run' = Command(i) /\ ~new.end
      \/ run' = Turn(i + 1)
  BY DEF Becomes
<1>7. nTracks \in Nat /\ trackIds \in Seq(Tracks)
  BY <1>2, BaseTypes
<1>8. run' \in Stages'
  BY <1>1, <1>6, <1>7 DEF Stages, nTracks
<1>9. TypeOK'
  BY <1>2, <1>5, <1>8 DEF TypeOK, Voices, Whole, nTracks
<1>10. TracksAccounted'
  <2>1. {u \in Tracks : track'[u].alloc} = {u \in Tracks : track[u].alloc}
    BY <1>4
  <2>2. \A j \in 1 .. nTracks : trackIds[j] \in Tracks
    BY <1>2, BaseTypes
  <2> QED
    BY <1>2, <1>4, <2>1, <2>2 DEF TracksAccounted, nTracks
<1>11. OpeningInv'
  <2>1. run'.at \notin {"open"}
    BY <1>6 DEF Turn, Command
  <2> QED
    BY <1>1, <1>2, <2>1 DEF OpeningInv, nTracks
<1>12. CommandInv'
  BY <1>1, <1>4, <1>6 DEF CommandInv, Turn, Command
<1>13. (\A u \in Tracks : Whole(track[u]))'
  BY <1>5 DEF Whole, TrackStates, Zero
<1> QED
  BY <1>9, <1>10, <1>11, <1>12, <1>13 DEF BaseInv

\* The track whose command is due, and what is past the command.
LEMMA DueVoices ==
  ASSUME BaseInv, NEW i, Due(i)
  PROVE  /\ Voices /\ trackIds[i] \in Range(trackIds) /\ tempo \in Nat
         /\ track[trackIds[i]].prio \in Nat
<1>1. i \in 1 .. nTracks /\ TypeOK /\ track[trackIds[i]] \in TrackStates
  BY DueCommand DEF BaseInv
<1>2. trackIds \in Seq(Tracks) /\ tempo \in Nat
  BY <1>1, BaseTypes
<1>3. Voices
  BY <1>1 DEF TypeOK, Voices
<1>4. trackIds[i] \in Range(trackIds)
  BY <1>1, <1>2 DEF Range, nTracks
<1> QED
  BY <1>1, <1>2, <1>3, <1>4 DEF TrackStates

LEMMA NoteBase == ASSUME BaseInv, NEW i, Note(i) PROVE BaseInv'
<1> DEFINE t == trackIds[i]
           op == Fetched(track[t])
           p == Past(track[t])
           new == [p EXCEPT !.wait = IF track[t].notewait THEN Ticks(op.n) ELSE @]
<1>1. Due(i) /\ op.cmd = "note" /\ Becomes(i, new)
      /\ UNCHANGED <<sseq, trackIds, beats, tempo, tempoCount, opening, opens>>
  BY DEF Note, Reads, Due, player
<1>2. /\ t \in Tracks /\ sseq \in Songs /\ Ready(p, op)
      /\ SameBut(p, track[t]) /\ track[t].song = sseq
  BY <1>1, DueCommand
<1>3. /\ Voices /\ VoicesOwned /\ t \in Range(trackIds) /\ tempo \in Nat /\ track[t].prio \in Nat
  BY <1>1, DueVoices DEF BaseInv
<1>4. op.n \in Int /\ op.kind \in Kinds \cup {None}
  BY <1>1, <1>2, OpFields, SongData DEF Ready
<1>5. Whole(new) /\ new.alloc /\ new.song = sseq
  <2>1. \E n \in Nat \cup {Endless} : new = [p EXCEPT !.wait = n]
    BY <1>2, <1>4, TicksKinds DEF Ready, TrackStates
  <2> HIDE DEF new, p, op
  <2>2. Whole(new) /\ new.alloc /\ new.song = p.song
    BY <1>1, <1>2, <2>1, FieldCommands
  <2> QED
    BY <1>2, <2>2 DEF SameBut
<1>6. /\ Voices'
      /\ \A d \in Channels : \/ channel'[d].trackId = t
                             \/ /\ channel'[d].state = channel[d].state
                                /\ channel'[d].trackId = channel[d].trackId
  <2>1. CASE track[t].tie
    <3>1. NoteOnTie(t, op.kind)
      BY <2>1 DEF Note
    <3> QED
      BY <1>2, <1>3, <1>4, <3>1, NoteOnTieEffect DEF Takes
  <2>2. CASE ~track[t].tie
    <3>1. NoteOn(t, op.kind, op.n)
      BY <2>2 DEF Note
    <3> QED
      BY <1>2, <1>3, <1>4, <3>1, NoteOnEffect DEF Takes
  <2> QED
    BY <2>1, <2>2
<1>7. VoicesOwned'
  BY <1>1, <1>3, <1>6 DEF VoicesOwned
<1> HIDE DEF new
<1> QED
  BY <1>1, <1>3, <1>5, <1>6, <1>7, CommandStep

LEMMA TieBase == ASSUME BaseInv, NEW i, Tie(i) PROVE BaseInv'
<1> DEFINE t == trackIds[i]
           op == Fetched(track[t])
           p == Past(track[t])
           new == [p EXCEPT !.tie = op.on]
<1>1. Due(i) /\ op.cmd = "tie" /\ Becomes(i, new) /\ ReleaseAllNotes(t)
      /\ UNCHANGED <<sseq, trackIds, beats, tempo, tempoCount, opening, opens>>
  BY DEF Tie, Reads, Due, player
<1>2. /\ t \in Tracks /\ sseq \in Songs /\ Ready(p, op)
      /\ SameBut(p, track[t]) /\ track[t].song = sseq
  BY <1>1, DueCommand
<1>3. /\ Voices /\ VoicesOwned /\ t \in Range(trackIds) /\ tempo \in Nat
  BY <1>1, DueVoices DEF BaseInv
<1>4. op.on \in BOOLEAN
  BY <1>1, <1>2, OpFields, SongData DEF Ready
<1>5. Whole(new) /\ new.alloc /\ new.song = sseq
  <2>1. \E b \in BOOLEAN : new = [p EXCEPT !.tie = b]
    BY <1>4
  <2> HIDE DEF new, p, op
  <2>2. Whole(new) /\ new.alloc /\ new.song = p.song
    BY <1>1, <1>2, <2>1, FieldCommands
  <2> QED
    BY <1>2, <2>2 DEF SameBut
<1>6. /\ Voices'
      /\ \A d \in Channels : /\ channel'[d].trackId = channel[d].trackId
                             /\ channel'[d].state # "none" => channel[d].state # "none"
  <2>1. /\ Voices'
        /\ \A c \in Channels : channel'[c] = channel[c] \/ channel'[c] = Released(channel[c])
        /\ \A c \in Channels : channel'[c].trackId = channel[c].trackId
    BY <1>1, <1>2, <1>3, ReleaseAllNotesEffect
  <2>2. ASSUME NEW c \in Channels, channel'[c] # channel[c]
        PROVE  channel[c].state \in Unreleased
    BY <1>1, <2>2 DEF ReleaseAllNotes
  <2>3. "none" \notin Unreleased
    BY DEF Unreleased, Held
  <2> QED
    BY <2>1, <2>2, <2>3
<1>7. VoicesOwned'
  BY <1>1, <1>3, <1>6 DEF VoicesOwned
<1> HIDE DEF new
<1> QED
  BY <1>1, <1>3, <1>5, <1>6, <1>7, CommandStep

LEMMA OwnTrackBase == ASSUME BaseInv, NEW i, OwnTrack(i) PROVE BaseInv'
<1> DEFINE t == trackIds[i]
           op == Fetched(track[t])
           p == Past(track[t])
<1>1. /\ Due(i) /\ op.cmd \notin {"note", "tie", "opentrack", "tempo"}
      /\ UNCHANGED <<sseq, trackIds, beats, channel, tempo, tempoCount, opening, opens>>
      /\ \E new \in After(p, op) : Becomes(i, new)
  BY DEF OwnTrack, Due, player
<1>2. PICK new \in After(p, op) : Becomes(i, new)
  BY <1>1
<1>3. Ready(p, op) /\ SameBut(p, track[t]) /\ track[t].song = sseq
  BY <1>1, DueCommand
<1>4. Whole(new) /\ new.alloc /\ new.song = sseq
  BY <1>1, <1>2, <1>3, AfterWhole DEF SameBut
<1>5. /\ Voices /\ VoicesOwned /\ tempo \in Nat
  BY <1>1, DueVoices DEF BaseInv
<1>6. Voices' /\ VoicesOwned'
  BY <1>1, <1>5 DEF Voices, VoicesOwned
<1> QED
  BY <1>1, <1>2, <1>4, <1>5, <1>6, CommandStep

LEMMA TempoBase == ASSUME BaseInv, NEW i, Tempo(i) PROVE BaseInv'
<1> DEFINE t == trackIds[i]
           op == Fetched(track[t])
           p == Past(track[t])
<1>1. /\ Due(i) /\ op.cmd = "tempo" /\ Becomes(i, p) /\ tempo' = op.n
      /\ UNCHANGED <<sseq, trackIds, beats, channel, tempoCount, opening, opens>>
  BY DEF Tempo, Reads, Due
<1>2. Ready(p, op) /\ SameBut(p, track[t]) /\ track[t].song = sseq /\ sseq \in Songs
  BY <1>1, DueCommand
<1>3. op.n \in Nat
  BY <1>1, <1>2, OpFields, SongData DEF Ready
<1>4. Whole(p) /\ p.alloc /\ p.song = sseq
  <2> HIDE DEF p, op
  <2>1. Whole(p) /\ p.alloc
    BY <1>1, <1>2, FieldCommands
  <2> QED
    BY <1>2, <2>1 DEF SameBut
<1>5. /\ Voices /\ VoicesOwned
  BY <1>1, DueVoices DEF BaseInv
<1>6. Voices' /\ VoicesOwned'
  BY <1>1, <1>5 DEF Voices, VoicesOwned
<1> QED
  BY <1>1, <1>3, <1>4, <1>6, CommandStep

LEMMA TrackInitWhole ==
  ASSUME NEW s \in Songs, NEW pos \in Places(s)
  PROVE  /\ Whole(TrackInit(s, pos)) /\ TrackInit(s, pos).alloc /\ ~TrackInit(s, pos).end
         /\ TrackInit(s, pos).song = s /\ TrackInit(s, pos).stack = <<>> /\ ~TrackInit(s, pos).tie
<1>1. pos \in Nat
  BY SongData DEF Places
<1>2. Zero \in TrackStates
  BY DEF Zero, TrackStates
<1>3. /\ TrackInit(s, pos) \in TrackStates
      /\ TrackInit(s, pos).alloc /\ ~TrackInit(s, pos).end /\ ~TrackInit(s, pos).tie
      /\ TrackInit(s, pos).song = s /\ TrackInit(s, pos).stack = <<>>
      /\ TrackInit(s, pos).pos = pos /\ TrackInit(s, pos).overriding = <<>>
  BY <1>1, <1>2 DEF TrackInit, TrackStates, Zero
<1>4. <<>> \in Seq(Frames(s)) /\ Len(<<>>) = 0 /\ 0 <= FSS_TRACKSTACKSIZE
  BY SongsAssumption
<1> QED
  BY <1>3, <1>4 DEF Whole

LEMMA ZeroWhole == Whole(Zero) /\ ~Zero.alloc /\ Zero.stack = <<>> /\ ~Zero.tie
<1>1. Zero \in TrackStates
  BY DEF Zero, TrackStates
<1>2. <<>> \in Seq(Entries) /\ Len(<<>>) = 0 /\ 0 <= FSS_TRACKSTACKSIZE
  BY SongsAssumption
<1> QED
  BY <1>1, <1>2 DEF Whole, Zero

LEMMA WholePrimed ==
  ASSUME \A u \in Tracks : Whole(track'[u])
  PROVE  (\A u \in Tracks : Whole(track[u]))'
  OBVIOUS

\* The steps that leave the tracks alone.
LEMMA TimerStep ==
  ASSUME BaseInv,
         UNCHANGED <<sseq, track, trackIds, opening, opens>>,
         beats' \subseteq Tracks, tempo' \in Nat, tempoCount' \in Nat, tempoCount' < 65536,
         Voices',
         \A c \in Channels : channel'[c].state # "none" =>
           channel[c].state # "none" /\ channel'[c].trackId = channel[c].trackId,
         run' \in Stages', run'.at # "cmd",
         run'.at = "open" => opening # None,
         opening # None => /\ run'.at \in {"timer", "clock", "open"}
                           /\ run'.at # "open" => tempoCount' = 0
                           /\ tempo' = 120 /\ tempoCount' <= 120,
         opens # 0
  PROVE  BaseInv'
<1>1. /\ TypeOK /\ TracksAccounted /\ VoicesOwned /\ OpeningInv /\ \A u \in Tracks : Whole(track[u])
  BY DEF BaseInv
<1>2. TypeOK'
  BY <1>1 DEF TypeOK, Voices, nTracks
<1>3. TracksAccounted'
  BY <1>1 DEF TracksAccounted, nTracks
<1>4. VoicesOwned'
  BY <1>1 DEF VoicesOwned
<1>5. OpeningInv'
  BY <1>1 DEF OpeningInv, nTracks
<1>6. CommandInv'
  BY DEF CommandInv
<1>7. (\A u \in Tracks : Whole(track[u]))'
  <2>1. \A u \in Tracks : Whole(track'[u])
    BY <1>1
  <2> QED
    BY <2>1, WholePrimed
<1> QED
  BY <1>2, <1>3, <1>4, <1>5, <1>6, <1>7 DEF BaseInv

\* What follows an access that is undefined is left open: the run stops.
LEMMA UndefinedStep ==
  ASSUME BaseInv, NEW i, run = Command(i), run' = At("undefined"),
         UNCHANGED <<sseq, track, trackIds, beats, channel, tempo, tempoCount, opening, opens>>
  PROVE  BaseInv'
<1>1. run.at = "cmd" /\ run'.at = "undefined" /\ run' \in Stages'
  BY DEF Command, At, Stages
<1>2. TypeOK /\ OpeningInv /\ tempo \in Nat /\ tempoCount \in Nat
  BY BaseTypes DEF BaseInv
<1>3. Voices' /\ beats' \subseteq Tracks /\ tempoCount < 65536
  BY <1>2 DEF TypeOK, Voices
<1>4. opening = None /\ opens # 0
  BY <1>1, <1>2 DEF OpeningInv
<1> QED
  BY <1>1, <1>2, <1>3, <1>4, TimerStep

LEMMA FreedBase == ASSUME BaseInv, NEW i, ReadsFreed(i) PROVE BaseInv'
  BY UndefinedStep DEF ReadsFreed

LEMMA OpenTrackBase == ASSUME BaseInv, NEW i, OpenTrack(i) PROVE BaseInv'
<1> DEFINE t == trackIds[i]
           op == Fetched(track[t])
           p == Past(track[t])
           new == TrackAlloc
           fresh == TrackInit(sseq, op.to)
<1>1. /\ Due(i) /\ op.cmd = "opentrack"
      /\ UNCHANGED <<sseq, channel, tempo, tempoCount, opening, opens>>
  BY DEF OpenTrack, Reads, Due
<1>2. /\ Ready(p, op) /\ SameBut(p, track[t]) /\ track[t].song = sseq /\ track[t].alloc
      /\ sseq \in Songs /\ t \in Tracks /\ i \in 1 .. nTracks /\ opening = None /\ opens >= 1
      /\ run = Command(i)
  BY <1>1, DueCommand
<1>3. op.to \in Places(sseq)
  BY <1>1, <1>2, OpFields, SongData DEF Ready, Places, SameBut
<1>4. /\ Voices /\ VoicesOwned /\ tempo \in Nat /\ Voices'
  BY <1>1, DueVoices DEF BaseInv, Voices
<1>5. Whole(p) /\ p.alloc /\ p.song = sseq /\ ~p.end
  <2> HIDE DEF p, op
  <2>1. Whole(p) /\ p.alloc
    BY <1>1, <1>2, FieldCommands
  <2> QED
    BY <1>2, <2>1 DEF SameBut, Ready
<1>6. /\ TypeOK /\ TracksAccounted /\ OpeningInv /\ \A u \in Tracks : Whole(track[u])
      /\ trackIds \in Seq(Tracks) /\ nTracks \in Nat
      /\ \A j \in 1 .. nTracks : trackIds[j] \in Tracks
  BY BaseTypes DEF BaseInv
<1>7. CASE new = NoTrack
  <2>1. Becomes(i, p) /\ UNCHANGED <<trackIds, beats>>
    BY <1>7 DEF OpenTrack
  <2>2. VoicesOwned'
    BY <1>1, <1>4, <2>1 DEF VoicesOwned
  <2> HIDE DEF p
  <2> QED
    BY <1>1, <1>4, <1>5, <2>1, <2>2, CommandStep
<1>9. CASE new # NoTrack /\ nTracks = FSS_TRACKCOUNT
  <2>1. run' = At("undefined") /\ UNCHANGED <<track, trackIds, beats>>
    BY <1>9 DEF OpenTrack
  <2> QED
    BY <1>1, <1>2, <2>1, UndefinedStep
<1>8. CASE new # NoTrack /\ nTracks # FSS_TRACKCOUNT
  <2>1. /\ track' = [track EXCEPT ![t] = p, ![new] = fresh]
        /\ trackIds' = Append(trackIds, new) /\ beats' = beats \ {new} /\ run' = run
    BY <1>8 DEF OpenTrack
  <2>2. new \in Tracks /\ ~track[new].alloc /\ new # t
    BY <1>2, <1>8, TrackAllocKinds
  <2>3. /\ Whole(fresh) /\ fresh.alloc /\ fresh.song = sseq /\ ~fresh.end
        /\ fresh \in TrackStates /\ p \in TrackStates
    BY <1>2, <1>3, <1>5, TrackInitWhole DEF Whole
  <2> HIDE DEF p, op, new, fresh
  <2>4. track \in [Tracks -> TrackStates]
    BY <1>6 DEF TypeOK
  <2>5. \A u \in Tracks : track'[u] = IF u = new THEN fresh ELSE IF u = t THEN p ELSE track[u]
    BY <1>2, <2>1, <2>2, <2>4
  <2>6. track' \in [Tracks -> TrackStates] /\ \A u \in Tracks : Whole(track'[u])
    BY <1>5, <1>6, <2>1, <2>3, <2>4, <2>5
  <2>7. /\ trackIds' \in Seq(Tracks) /\ nTracks' = nTracks + 1 /\ trackIds'[nTracks + 1] = new
        /\ \A j \in 1 .. nTracks : trackIds'[j] = trackIds[j]
    BY <1>6, <2>1, <2>2 DEF nTracks
  <2>8. run' \in Stages' /\ nTracks' <= FSS_TRACKCOUNT
    <3>1. nTracks <= FSS_TRACKCOUNT /\ FSS_TRACKCOUNT \in Nat
      BY <1>6, SongsAssumption DEF TypeOK
    <3> QED
      BY <1>1, <1>2, <1>6, <1>8, <2>1, <2>7, <3>1 DEF Stages
  <2>9. TypeOK'
    <3>1. /\ sseq' \in Songs \cup {None} /\ opening' \in Songs \cup {None} /\ opens' \in 0 .. MaxOpens
          /\ tempo' \in Nat /\ tempoCount' \in Nat /\ tempoCount' < 65536
      BY <1>1, <1>6 DEF TypeOK
    <3>2. beats' \subseteq Tracks
      BY <1>6, <2>1 DEF TypeOK
    <3>3. \A u \in Tracks : Len(track'[u].stack) <= FSS_TRACKSTACKSIZE
      BY <2>6 DEF Whole
    <3> QED
      BY <1>4, <2>6, <2>7, <2>8, <3>1, <3>2, <3>3 DEF TypeOK, Voices
  <2>10. TracksAccounted'
    <3>1. \A u \in Tracks : track[u].alloc => track'[u].alloc /\ track'[u].song = track[u].song
      BY <1>2, <1>5, <2>2, <2>5
    <3> DEFINE Seated(u) ==
                 u.alloc /\ (u.song = sseq \/ (u.song = None /\ opens > FSS_MAXTRACKS))
    <3>2. \A j \in 1 .. nTracks : track[trackIds[j]].alloc /\ Seated(track[trackIds[j]])
      BY <1>6 DEF TracksAccounted
    <3>10. /\ \A u \in Tracks : track[u].alloc /\ Seated(track[u]) => Seated(track'[u])
           /\ Seated(track'[new])
      BY <2>2, <2>3, <2>5, <3>1
    <3> HIDE DEF Seated
    <3>3. \A j \in 1 .. nTracks' : Seated(track'[trackIds'[j]])
      BY SMTT(30), <1>6, <2>7, <3>2, <3>10
    <3>4. \A j, k \in 1 .. nTracks' : trackIds'[j] = trackIds'[k] => j = k
      <4>1. \A j \in 1 .. nTracks : trackIds[j] # new
        BY <2>2, <3>2
      <4>2. \A j, k \in 1 .. nTracks : trackIds[j] = trackIds[k] => j = k
        BY <1>6 DEF TracksAccounted
      <4> QED
        BY <1>6, <2>7, <4>1, <4>2
    <3>5. Allocated' = Allocated \cup {new} /\ new \notin Allocated
      BY <1>2, <1>5, <2>2, <2>3, <2>5 DEF Allocated
    <3>6. IsFiniteSet(Allocated) /\ Cardinality(Allocated) \in Nat
      BY TracksFinite DEF Allocated
    <3>7. Cardinality(Allocated') = Cardinality(Allocated) + 1
      BY <3>5, <3>6, FS_AddElement
    <3>8. Cardinality(Allocated) = nTracks + Lost(opens)
      BY <1>6 DEF TracksAccounted, Allocated, Lost
    <3>11. Lost(opens) \in Int
      BY <1>6, BaseTypes, SongsAssumption DEF Lost
    <3> HIDE DEF Allocated
    <3>9. Cardinality(Allocated') = nTracks' + Lost(opens')
      BY <1>1, <1>6, <2>7, <3>6, <3>7, <3>8, <3>11
    <3> QED
      BY <1>1, <3>3, <3>4, <3>9 DEF TracksAccounted, Allocated, Lost, Seated
  <2>11. VoicesOwned'
    <3>1. Range(trackIds) \subseteq Range(trackIds')
      BY <1>6, <2>7 DEF Range, nTracks
    <3> QED
      BY <1>1, <1>4, <3>1 DEF VoicesOwned
  <2>12. OpeningInv'
    BY <1>1, <1>2, <1>6, <2>1, <2>7 DEF OpeningInv, Command
  <2>13. CommandInv'
    <3>1. run'.i = i /\ trackIds'[i] = t
      BY <1>1, <1>2, <2>1, <2>7 DEF Command
    <3>2. ~track'[t].end
      BY <1>2, <1>5, <2>2, <2>5
    <3> QED
      BY <3>1, <3>2 DEF CommandInv
  <2> QED
    BY <2>6, <2>9, <2>10, <2>11, <2>12, <2>13 DEF BaseInv, Whole, Zero, TrackStates
<1> QED
  BY <1>7, <1>8, <1>9

LEMMA TurnBase == ASSUME BaseInv, NEW i, TrackTurn(i) PROVE BaseInv'
<1> DEFINE t == trackIds[i]
           wait == IF ~track[t].end /\ track[t].wait > 0 THEN track[t].wait - 1 ELSE track[t].wait
           new == [track[t] EXCEPT !.wait = wait]
<1>1. /\ run = Turn(i) /\ i <= nTracks /\ beats' = beats \cup {t} /\ channel' = Ages(t)
      /\ track' = [track EXCEPT ![t].wait = IF ~track[t].end /\ @ > 0 THEN @ - 1 ELSE @]
      /\ run' = IF ~track[t].end /\ track[t].wait \in {0, 1} THEN Command(i) ELSE Turn(i + 1)
      /\ UNCHANGED <<sseq, trackIds, tempo, tempoCount, opening, opens>>
  BY DEF TrackTurn
<1>2. /\ TypeOK /\ TracksAccounted /\ VoicesOwned /\ OpeningInv /\ \A u \in Tracks : Whole(track[u])
      /\ trackIds \in Seq(Tracks) /\ nTracks \in Nat
      /\ \A j \in 1 .. nTracks : trackIds[j] \in Tracks
  BY BaseTypes DEF BaseInv
<1>3. i \in 1 .. nTracks
  <2>1. run.at = "turn" /\ run.i = i
    BY <1>1 DEF Turn
  <2>2. i \in 1 .. nTracks + 1
    BY <1>2, <2>1, RunKinds
  <2> QED
    BY <1>1, <1>2, <2>2
<1>4. t \in Tracks /\ track \in [Tracks -> TrackStates] /\ t \in Range(trackIds) /\ Voices
  BY <1>2, <1>3 DEF TypeOK, Range, nTracks, Voices
<1>5. /\ new \in TrackStates /\ Whole(track[t]) /\ track[t].alloc
      /\ track' = [track EXCEPT ![t] = new]
      /\ new.alloc = track[t].alloc /\ new.end = track[t].end /\ new.pos = track[t].pos
      /\ new.song = track[t].song /\ new.stack = track[t].stack
      /\ new.overriding = track[t].overriding
  <2>1. track[t] \in TrackStates /\ Whole(track[t]) /\ track[t].alloc
    BY <1>2, <1>3, <1>4 DEF TracksAccounted
  <2>2. wait \in Nat \cup {Endless}
    BY <2>1 DEF TrackStates, Endless
  <2>3. track' = [track EXCEPT ![t] = new]
    BY <1>1, <1>4
  <2> HIDE DEF wait
  <2> QED
    BY <2>1, <2>2, <2>3 DEF TrackStates
<1> HIDE DEF new
<1>6. Whole(new)
  BY <1>5 DEF Whole
<1>7. \A u \in Tracks : /\ track'[u] = IF u = t THEN new ELSE track[u]
                        /\ track'[u].alloc = track[u].alloc /\ track'[u].song = track[u].song
                        /\ track'[u].end = track[u].end
  BY <1>4, <1>5
<1>8. track' \in [Tracks -> TrackStates] /\ \A u \in Tracks : Whole(track'[u])
  BY <1>2, <1>4, <1>5, <1>6, <1>7
<1>9. /\ Voices'
      /\ \A c \in Channels :
              channel'[c].state = channel[c].state /\ channel'[c].trackId = channel[c].trackId
  BY <1>1, <1>4, AgesEffect
<1>10. run' \in Stages'
  BY <1>1, <1>2, <1>3 DEF Stages, nTracks
<1>11. TypeOK'
  BY <1>1, <1>2, <1>4, <1>8, <1>9, <1>10 DEF TypeOK, Voices, Whole, nTracks
<1>12. TracksAccounted'
  <2>1. {u \in Tracks : track'[u].alloc} = {u \in Tracks : track[u].alloc}
    BY <1>7
  <2> QED
    BY ZenonT(40), <1>1, <1>2, <1>7, <2>1 DEF TracksAccounted, nTracks
<1>13. VoicesOwned'
  BY <1>1, <1>2, <1>9 DEF VoicesOwned
<1>14. OpeningInv'
  BY <1>1, <1>2 DEF OpeningInv, nTracks, Turn, Command
<1>15. CommandInv'
  BY <1>1, <1>4, <1>7 DEF CommandInv, Turn, Command
<1> QED
  BY <1>8, <1>11, <1>12, <1>13, <1>14, <1>15 DEF BaseInv, Whole, Zero, TrackStates

LEMMA TickBase == ASSUME BaseInv, Tick PROVE BaseInv'
<1>1. /\ run = At("clock") /\ tempoCount > 240 /\ tempoCount' = tempoCount - 240 /\ run' = Turn(1)
      /\ UNCHANGED <<sseq, track, trackIds, beats, channel, tempo, opening, opens>>
  BY DEF Tick
<1>2. TypeOK /\ OpeningInv /\ tempo \in Nat /\ tempoCount \in Nat /\ nTracks \in Nat
  BY BaseTypes DEF BaseInv
<1>3. Voices' /\ beats' \subseteq Tracks /\ tempoCount < 65536
  BY <1>1, <1>2 DEF TypeOK, Voices
<1>4. run' \in Stages' /\ run'.at = "turn" /\ run.at = "clock"
  BY <1>1, <1>2 DEF Stages, nTracks, Turn, At
<1>5. opening = None /\ opens # 0
  BY <1>1, <1>2, <1>4 DEF OpeningInv
<1> QED
  BY <1>1, <1>2, <1>3, <1>4, <1>5, TimerStep

LEMMA RunReturnsBase == ASSUME BaseInv, RunReturns PROVE BaseInv'
<1>1. /\ run = At("clock") /\ tempoCount' = (tempoCount + tempo) % 65536
      /\ run' = At(IF opening = None THEN "idle" ELSE "open")
      /\ UNCHANGED <<sseq, track, trackIds, beats, channel, tempo, opening, opens>>
  BY DEF RunReturns
<1>2. TypeOK /\ OpeningInv /\ tempo \in Nat /\ tempoCount \in Nat
  BY BaseTypes DEF BaseInv
<1>3. Voices' /\ beats' \subseteq Tracks
  BY <1>1, <1>2 DEF TypeOK, Voices
<1>4. tempoCount' \in Nat /\ tempoCount' < 65536
  BY <1>1, <1>2
<1>5. /\ run' \in Stages' /\ run.at = "clock" /\ run'.at \in {"idle", "open"}
      /\ run'.at = "open" <=> opening # None
  BY <1>1 DEF Stages, At
<1>6. opens # 0 /\ (opening # None => tempo' = 120 /\ tempoCount' <= 120)
  BY <1>1, <1>2, <1>5 DEF OpeningInv
<1> QED
  BY <1>1, <1>2, <1>3, <1>4, <1>5, <1>6, TimerStep

LEMMA LastTurnBase == ASSUME BaseInv, LastTurn PROVE BaseInv'
<1>1. /\ run.at = "turn" /\ run' = At("clock")
      /\ UNCHANGED <<sseq, track, trackIds, beats, channel, tempo, tempoCount, opening, opens>>
  BY DEF LastTurn
<1>2. TypeOK /\ OpeningInv /\ tempo \in Nat /\ tempoCount \in Nat
  BY BaseTypes DEF BaseInv
<1>3. Voices' /\ beats' \subseteq Tracks /\ tempoCount < 65536
  BY <1>1, <1>2 DEF TypeOK, Voices
<1>4. run' \in Stages' /\ run'.at = "clock"
  BY <1>1 DEF Stages, At
<1>5. opening = None /\ opens # 0
  BY <1>1, <1>2 DEF OpeningInv
<1> QED
  BY <1>1, <1>2, <1>3, <1>4, <1>5, TimerStep

LEMMA SampleBase == ASSUME BaseInv, NEW s \in Channels, IncrementSample(s) PROVE BaseInv'
<1>1. /\ run = At("idle") /\ channel' = [channel EXCEPT ![s] = Killed]
      /\ UNCHANGED <<sseq, track, trackIds, beats, tempo, tempoCount, run, opening, opens>>
  BY DEF IncrementSample
<1>2. TypeOK /\ OpeningInv /\ tempo \in Nat /\ tempoCount \in Nat
  BY BaseTypes DEF BaseInv
<1>3. Voices /\ beats' \subseteq Tracks /\ tempoCount < 65536
  BY <1>1, <1>2 DEF TypeOK, Voices
<1>4. /\ Voices'
      /\ \A c \in Channels : channel'[c] = IF c = s THEN Killed ELSE channel[c]
  BY <1>1, <1>3, KilledIs DEF Voices
<1>5. run' \in Stages' /\ run'.at = "idle" /\ run.at = "idle"
  BY <1>1 DEF Stages, At
<1>6. opening = None /\ opens # 0
  BY <1>2, <1>5 DEF OpeningInv
<1> QED
  BY <1>1, <1>2, <1>3, <1>4, <1>5, <1>6, KilledIs, TimerStep

\* What Timer does with a channel.
LEMMA TimerVoices ==
  ASSUME Voices, Timer
  PROVE  /\ Voices'
         /\ \A c \in Channels : \E stageEnds \in BOOLEAN, vol \in 0 .. LoudestVol :
              channel'[c] = Update(UpdateTrack(channel[c]), stageEnds, vol)
<1>1. PICK ending \in SUBSET {c \in Channels : channel[c].state # "none"},
           loud \in SUBSET {c \in Channels : channel[c].state # "none"} :
             channel' = [c \in Channels |-> Update(UpdateTrack(channel[c]), c \in ending,
                                             IF c \in loud THEN 1 ELSE 0)]
  BY DEF Timer
<1>2. ASSUME NEW c \in Channels
      PROVE  /\ channel'[c] \in ChannelStates
             /\ \E stageEnds \in BOOLEAN, vol \in 0 .. LoudestVol :
                  channel'[c] = Update(UpdateTrack(channel[c]), stageEnds, vol)
  <2> DEFINE stageEnds == c \in ending
             vol == IF c \in loud THEN 1 ELSE 0
  <2>1. channel'[c] = Update(UpdateTrack(channel[c]), stageEnds, vol)
    BY <1>1
  <2>2. stageEnds \in BOOLEAN /\ vol \in 0 .. LoudestVol /\ channel[c] \in ChannelStates
    BY DEF LoudestVol, Voices
  <2> HIDE DEF stageEnds, vol
  <2> QED
    BY <2>1, <2>2, UpdateEffect
<1> QED
  BY <1>1, <1>2 DEF Voices

LEMMA TimerBase == ASSUME BaseInv, Timer PROVE BaseInv'
<1>1. /\ run \in {At("idle"), At("timer")} /\ beats' = {} /\ run' = At("clock")
      /\ UNCHANGED <<sseq, track, trackIds, tempo, tempoCount, opening, opens>>
  BY DEF Timer
<1>2. TypeOK /\ OpeningInv /\ tempo \in Nat /\ tempoCount \in Nat
  BY BaseTypes DEF BaseInv
<1>3. Voices /\ tempoCount < 65536
  BY <1>2 DEF TypeOK, Voices
<1>4. /\ Voices'
      /\ \A c \in Channels : channel'[c].state # "none" =>
           channel[c].state # "none" /\ channel'[c].trackId = channel[c].trackId
  <2>1. ASSUME NEW c \in Channels, channel'[c].state # "none"
        PROVE  channel[c].state # "none" /\ channel'[c].trackId = channel[c].trackId
    <3>1. channel[c] \in ChannelStates /\ "none" \notin Sounding
      BY <1>3 DEF Voices, Sounding, Unreleased, Held
    <3> QED
      BY <1>3, <2>1, <3>1, TimerVoices, UpdateEffect, KilledIs
  <2> QED
    BY <1>3, <2>1, TimerVoices
<1>5. run' \in Stages' /\ run'.at = "clock" /\ run.at \in {"idle", "timer"}
  BY <1>1 DEF Stages, At
<1>6. opens # 0 /\ (opening # None => tempoCount = 0 /\ tempo = 120)
  BY <1>2, <1>5 DEF OpeningInv
<1> QED
  BY <1>1, <1>2, <1>3, <1>4, <1>5, <1>6, TimerStep

-----------------------------------------------------------------------------
(* The table is set up anew.                                                *)

\* StopAndSetup finds a track and frees the others of the table.
LEMMA StopAndSetupEffect ==
  ASSUME BaseInv, opens # 0, StopAndSetup, sseq' = sseq, opens' = opens
  PROVE  /\ trackIds' \in Seq(Tracks) /\ nTracks' = 1 /\ beats' \subseteq Tracks
         /\ track' \in [Tracks -> TrackStates] /\ \A u \in Tracks : Whole(track'[u])
         /\ Voices' /\ TracksAccounted'
         /\ \A c \in Channels : channel'[c].state = "none"
         /\ tempo' = 120 /\ tempoCount' = 0
         /\ \A u \in Tracks : \/ track'[u].stack = <<>> /\ ~track'[u].tie
                              \/ track'[u] = track[u] /\ u \notin Range(trackIds)
<1> DEFINE mine == Range(trackIds)
           free == mine \cup {u \in Tracks : ~track[u].alloc}
           t == CHOOSE t \in free : \A u \in free : t <= u
           fresh == TrackInit(sseq, 1)
<1>1. /\ channel' = [c \in Channels |->
                       IF channel[c].state # "none" /\ channel[c].trackId \in mine
                       THEN Killed ELSE channel[c]]
      /\ track' = [u \in Tracks |-> IF u = t THEN fresh ELSE IF u \in mine THEN Zero ELSE track[u]]
      /\ trackIds' = <<t>> /\ beats' = beats \ (mine \cup {t})
      /\ tempo' = 120 /\ tempoCount' = 0
  BY DEF StopAndSetup
<1>2. /\ TypeOK /\ TracksAccounted /\ VoicesOwned /\ OpeningInv /\ \A u \in Tracks : Whole(track[u])
      /\ trackIds \in Seq(Tracks) /\ nTracks \in Nat /\ Tracks \subseteq Nat /\ opens \in Nat
      /\ \A j \in 1 .. nTracks : trackIds[j] \in Tracks
  BY BaseTypes DEF BaseInv
<1>3. /\ Cardinality(mine) = nTracks /\ mine \in SUBSET Tracks
      /\ \A u \in mine : track[u].alloc
  <2>1. /\ \A i, j \in 1 .. nTracks : trackIds[i] = trackIds[j] => i = j
        /\ \A i \in 1 .. nTracks : track[trackIds[i]].alloc
    BY <1>2 DEF TracksAccounted
  <2>2. Cardinality(mine) = nTracks /\ mine \in SUBSET Tracks
    BY <1>2, <2>1, TableSize DEF nTracks
  <2>3. \A u \in mine : track[u].alloc
    BY <1>2, <2>1 DEF Range, nTracks
  <2> QED
    BY <2>2, <2>3
<1>4. nTracks >= 1 /\ sseq \in Songs
  BY <1>2 DEF OpeningInv
<1>5. t \in free /\ t \in Tracks
  <2>1. trackIds[1] \in mine
    BY <1>2, <1>4 DEF Range, nTracks
  <2>2. free \in SUBSET Nat /\ free # {} /\ free \subseteq Tracks
    BY <1>2, <1>3, <2>1
  <2> HIDE DEF free
  <2>3. \E x \in free : \A u \in free : x <= u
    BY <2>2, LeastExists
  <2> QED
    BY <2>2, <2>3
<1>6. /\ Whole(fresh) /\ fresh.alloc /\ fresh.song = sseq /\ fresh.stack = <<>> /\ ~fresh.tie
      /\ Whole(Zero) /\ ~Zero.alloc /\ Zero.stack = <<>> /\ ~Zero.tie
      /\ fresh \in TrackStates /\ Zero \in TrackStates
  BY <1>4, SongData, TrackInitWhole, ZeroWhole DEF Whole
<1> HIDE DEF t, fresh
<1>7. track' \in [Tracks -> TrackStates] /\ \A u \in Tracks : Whole(track'[u])
  BY <1>1, <1>2, <1>6 DEF TypeOK
<1>8. ASSUME NEW c \in Channels PROVE channel'[c] \in ChannelStates /\ channel'[c].state = "none"
  <2>1. channel[c] \in ChannelStates
    BY <1>2 DEF TypeOK
  <2>2. channel[c].state # "none" => channel[c].trackId \in mine
    BY <1>2 DEF VoicesOwned
  <2> QED
    BY <1>1, <2>1, <2>2, KilledIs
<1>9. Voices'
  BY <1>1, <1>8 DEF Voices
<1>10. /\ trackIds' \in Seq(Tracks) /\ nTracks' = 1 /\ trackIds'[1] = t /\ beats' \subseteq Tracks
  <2>1. trackIds' \in Seq(Tracks) /\ Len(trackIds') = 1 /\ trackIds'[1] = t
    BY <1>1, <1>5
  <2>2. beats \subseteq Tracks
    BY <1>2 DEF TypeOK
  <2> QED
    BY <1>1, <2>1, <2>2 DEF nTracks
<1>11. Cardinality(Allocated') = nTracks' + Lost(opens)
  <2>1. Allocated' = (Allocated \ mine) \cup {t}
    BY <1>1, <1>3, <1>5, <1>6 DEF Allocated
  <2>2. t \notin Allocated \ mine
    BY <1>5 DEF Allocated
  <2>3. /\ IsFiniteSet(Allocated) /\ IsFiniteSet(Allocated \ mine)
        /\ Cardinality(Allocated) \in Nat /\ Cardinality(Allocated \ mine) \in Nat
    BY TracksFinite DEF Allocated
  <2>4. Allocated \cap mine = mine
    BY <1>3 DEF Allocated
  <2>5. Cardinality(Allocated \ mine) = Cardinality(Allocated) - nTracks
    BY ZenonT(40), <1>3, <2>3, <2>4, FS_Difference
  <2>6. Cardinality(Allocated') = Cardinality(Allocated \ mine) + 1
    BY <2>1, <2>2, <2>3, FS_AddElement
  <2>7. Cardinality(Allocated) = nTracks + Lost(opens) /\ Lost(opens) \in Int
    BY <1>2, SongsAssumption DEF TracksAccounted, Allocated, Lost
  <2> QED
    BY <1>2, <1>10, <2>3, <2>5, <2>6, <2>7
<1>12. TracksAccounted'
  <2>1. track'[t].alloc /\ track'[t].song = sseq
    BY <1>1, <1>5, <1>6
  <2>2. \A i \in 1 .. nTracks' : track'[trackIds'[i]].alloc /\ track'[trackIds'[i]].song = sseq'
    BY <1>10, <2>1
  <2>3. \A i, j \in 1 .. nTracks' : trackIds'[i] = trackIds'[j] => i = j
    BY <1>10
  <2> QED
    BY <1>11, <2>2, <2>3 DEF TracksAccounted, Allocated, Lost
<1>13. \A u \in Tracks : \/ track'[u].stack = <<>> /\ ~track'[u].tie
                         \/ track'[u] = track[u] /\ u \notin mine
  <2>1. \A u \in Tracks : track'[u] = IF u = t THEN fresh ELSE IF u \in mine THEN Zero ELSE track[u]
    BY <1>1
  <2> HIDE DEF mine
  <2>2. ASSUME NEW u \in Tracks
        PROVE  \/ track'[u].stack = <<>> /\ ~track'[u].tie
               \/ track'[u] = track[u] /\ u \notin mine
    <3>1. track'[u] = fresh \/ track'[u] = Zero \/ (track'[u] = track[u] /\ u \notin mine)
      BY <2>1
    <3>2. CASE track'[u] = fresh
      BY <1>6, <3>2
    <3>3. CASE track'[u] = Zero
      BY <1>6, <3>3
    <3> QED
      BY <3>1, <3>2, <3>3
  <2> QED
    BY <2>2
<1> QED
  BY <1>1, <1>7, <1>8, <1>9, <1>10, <1>12, <1>13

LEMMA RestartStep ==
  ASSUME BaseInv, run = At("idle"), StopAndSetup, run' = At("timer"),
         sseq' = sseq, opens' = opens,
         opening' = opening \/ (opens < MaxOpens /\ opening' \in Songs)
  PROVE  BaseInv'
<1>1. /\ run.at = "idle" /\ run'.at = "timer" /\ run' \in Stages'
  BY DEF At, Stages
<1>2. TypeOK /\ OpeningInv
  BY DEF BaseInv
<1>3. opens # 0 /\ opening = None /\ sseq \in Songs
  BY <1>1, <1>2 DEF OpeningInv
<1>4. /\ trackIds' \in Seq(Tracks) /\ nTracks' = 1 /\ beats' \subseteq Tracks
      /\ track' \in [Tracks -> TrackStates] /\ \A u \in Tracks : Whole(track'[u])
      /\ Voices' /\ TracksAccounted' /\ \A c \in Channels : channel'[c].state = "none"
      /\ tempo' = 120 /\ tempoCount' = 0
  BY <1>3, StopAndSetupEffect
<1>5. TypeOK'
  <2>1. 1 <= FSS_TRACKCOUNT
    BY SongsAssumption
  <2> QED
    BY <1>1, <1>2, <1>3, <1>4, <2>1 DEF TypeOK, Voices, Whole
<1>6. VoicesOwned'
  BY <1>4 DEF VoicesOwned
<1>7. OpeningInv'
  BY <1>1, <1>3, <1>4 DEF OpeningInv
<1>8. CommandInv'
  BY <1>1 DEF CommandInv
<1>9. (\A u \in Tracks : Whole(track[u]))'
  BY <1>4 DEF Whole, Zero, TrackStates
<1> QED
  BY <1>4, <1>5, <1>6, <1>7, <1>8, <1>9 DEF BaseInv

\* The tracks whose song was freed keep all the rest.
LEMMA OrphanedWhole ==
  ASSUME track \in [Tracks -> TrackStates], \A u \in Tracks : Whole(track[u])
  PROVE  /\ Orphaned \in [Tracks -> TrackStates]
         /\ \A u \in Tracks :
              /\ Whole(Orphaned[u])
              /\ Orphaned[u].alloc = track[u].alloc /\ Orphaned[u].tie = track[u].tie
              /\ Orphaned[u].stack = track[u].stack
              /\ track[u].alloc => Orphaned[u].song = None
<1>1. ASSUME NEW u \in Tracks
      PROVE  /\ Orphaned[u] \in TrackStates /\ Whole(Orphaned[u])
             /\ Orphaned[u].alloc = track[u].alloc /\ Orphaned[u].tie = track[u].tie
             /\ Orphaned[u].stack = track[u].stack
             /\ track[u].alloc => Orphaned[u].song = None
  <2>1. track[u] \in TrackStates /\ Whole(track[u])
    OBVIOUS
  <2>2. Orphaned[u] = IF track[u].alloc THEN [track[u] EXCEPT !.song = None] ELSE track[u]
    BY DEF Orphaned
  <2>3. CASE track[u].alloc
    <3>1. /\ Orphaned[u] \in TrackStates /\ Orphaned[u].alloc /\ Orphaned[u].song = None
          /\ Orphaned[u].tie = track[u].tie /\ Orphaned[u].stack = track[u].stack
      BY <2>1, <2>2, <2>3 DEF TrackStates
    <3> QED
      BY <2>1, <2>3, <3>1 DEF Whole
  <2>4. CASE ~track[u].alloc
    BY <2>1, <2>2, <2>4
  <2> QED
    BY <2>3, <2>4
<1> QED
  BY <1>1 DEF Orphaned

\* The song in memory is another one: a free track is set up for it, or there
\* is none and the table keeps the track whose song was freed.
LEMMA OpenFileBase ==
  ASSUME BaseInv, openFile
  PROVE  /\ BaseInv' /\ tempo' = 120 /\ tempoCount' <= 120
         /\ \A c \in Channels : channel'[c].state = "none"
<1> DEFINE t == TrackAlloc
           fresh == TrackInit(opening, 1)
           setUp == IF opens <= FSS_MAXTRACKS THEN opens ELSE FSS_MAXTRACKS
<1>1. /\ run = At("open") /\ Setup(opening) /\ run' = At("timer") /\ opening' = None
      /\ opens' = opens + 1 /\ channel' = channel /\ sseq' = opening
  BY DEF openFile, Setup
<1>2. /\ TypeOK /\ TracksAccounted /\ VoicesOwned /\ OpeningInv /\ \A u \in Tracks : Whole(track[u])
      /\ trackIds \in Seq(Tracks) /\ nTracks \in Nat /\ Tracks \subseteq Nat
      /\ opens \in Nat /\ MaxOpens \in Nat
      /\ FSS_MAXTRACKS \in Nat \ {0} /\ FSS_TRACKCOUNT \in Nat \ {0}
      /\ NoTrack \notin Tracks
  BY BaseTypes, SongsAssumption DEF BaseInv
<1>3. run.at = "open" /\ run'.at = "timer" /\ run' \in Stages'
  BY <1>1 DEF At, Stages
<1>4. /\ opening \in Songs /\ opens < MaxOpens
      /\ \A c \in Channels : channel[c].state = "none"
      /\ opens = 0 => nTracks = 0
      /\ opens # 0 => nTracks = 1 /\ tempo = 120 /\ tempoCount <= 120
  <2>1. /\ opening # None /\ opens < MaxOpens /\ nTracks <= 1
        /\ \A c \in Channels : channel[c].state = "none"
        /\ IF opens = 0 THEN trackIds = <<>> ELSE nTracks >= 1
        /\ opens # 0 => tempo = 120 /\ tempoCount <= 120
    BY <1>2, <1>3 DEF OpeningInv
  <2>2. opening \in Songs
    BY <1>2, <2>1 DEF TypeOK
  <2>3. trackIds = <<>> => nTracks = 0
    BY DEF nTracks
  <2> QED
    BY <1>2, <2>1, <2>2, <2>3
<1>5. Cardinality(Allocated) = setUp /\ Allocated \in SUBSET Tracks
  <2>1. Cardinality(Allocated) = nTracks + (IF opens = 0 THEN 0 ELSE setUp - 1)
    BY <1>2 DEF TracksAccounted, Allocated
  <2> QED
    BY <1>2, <1>4, <2>1 DEF Allocated
<1>6. /\ IsFiniteSet(Allocated) /\ IsFiniteSet(Tracks) /\ Cardinality(Tracks) = FSS_MAXTRACKS
      /\ \A S \in SUBSET Tracks : Cardinality(S) <= FSS_MAXTRACKS
  BY <1>5, TracksFinite, FS_Subset
<1>7. track \in [Tracks -> TrackStates]
  BY <1>2 DEF TypeOK
<1>8. PICK orphaned \in [Tracks -> TrackStates] :
        /\ orphaned = Orphaned
        /\ \A u \in Tracks :
             /\ Whole(orphaned[u])
             /\ orphaned[u].alloc = track[u].alloc
             /\ track[u].alloc => orphaned[u].song = None
  BY <1>2, <1>7, OrphanedWhole
<1>9. /\ Whole(fresh) /\ fresh.alloc /\ fresh.song = opening /\ fresh \in TrackStates
  BY <1>4, SongData, TrackInitWhole DEF Whole
<1>10. /\ track' \in [Tracks -> TrackStates] /\ \A u \in Tracks : Whole(track'[u])
       /\ trackIds' \in Seq(Tracks) /\ nTracks' = 1 /\ beats' \subseteq Tracks
       /\ tempo' = 120 /\ tempoCount' \in Nat /\ tempoCount' <= 120
       /\ track'[trackIds'[1]].alloc
       /\ \/ track'[trackIds'[1]].song = opening
          \/ track'[trackIds'[1]].song = None /\ opens' > FSS_MAXTRACKS
       /\ Cardinality(Allocated') = IF opens' <= FSS_MAXTRACKS THEN opens' ELSE FSS_MAXTRACKS
  <2>1. CASE t # NoTrack
    <3>1. t \in Tracks /\ t \notin Allocated
      BY <2>1, TrackAllocKinds DEF Allocated
    <3>2. /\ track' = [orphaned EXCEPT ![t] = fresh] /\ trackIds' = <<t>>
          /\ beats' = beats \ {t} /\ tempo' = 120 /\ tempoCount' = 0
      BY <1>1, <1>8, <2>1 DEF Setup
    <3> HIDE DEF t, fresh
    <3>3. \A u \in Tracks : track'[u] = IF u = t THEN fresh ELSE orphaned[u]
      BY <1>8, <3>2
    <3>4. track' \in [Tracks -> TrackStates] /\ \A u \in Tracks : Whole(track'[u])
      BY <1>8, <1>9, <3>2, <3>3
    <3>5. /\ trackIds' \in Seq(Tracks) /\ nTracks' = 1 /\ trackIds'[1] = t /\ beats' \subseteq Tracks
      BY <1>2, <3>1, <3>2 DEF nTracks, TypeOK
    <3>6. track'[t].alloc /\ track'[t].song = opening
      BY <1>9, <3>1, <3>3
    <3>7. Allocated' = Allocated \cup {t}
      BY <1>8, <1>9, <3>1, <3>3 DEF Allocated
    <3>8. Cardinality(Allocated') = setUp + 1 /\ Allocated' \in SUBSET Tracks
      BY <1>5, <1>6, <3>1, <3>7, FS_AddElement
    <3>9. setUp + 1 <= FSS_MAXTRACKS
      BY <1>6, <3>8
    <3> QED
      BY <1>1, <1>2, <3>2, <3>4, <3>5, <3>6, <3>8, <3>9
  <2>2. CASE t = NoTrack
    <3>1. track' = orphaned /\ UNCHANGED <<trackIds, beats, tempo, tempoCount>>
      BY <1>1, <1>8, <2>2 DEF Setup
    <3>2. Allocated = Tracks
      BY <1>2, <2>2, TrackAllocFinds DEF Allocated
    <3>3. setUp = FSS_MAXTRACKS /\ opens >= FSS_MAXTRACKS /\ opens # 0
      BY <1>2, <1>5, <1>6, <3>2
    <3>4. Allocated' = Allocated
      BY <1>8, <3>1 DEF Allocated
    <3>5. trackIds'[1] \in Tracks /\ nTracks' = 1
      BY <1>2, <1>4, <3>1, <3>3 DEF nTracks
    <3>6. track'[trackIds'[1]].alloc /\ track'[trackIds'[1]].song = None
      BY <1>8, <3>1, <3>2, <3>5 DEF Allocated
    <3>7. beats' \subseteq Tracks /\ tempoCount' \in Nat
      BY <1>2, <3>1 DEF TypeOK
    <3> QED
      BY <1>1, <1>2, <1>4, <1>5, <1>8, <3>1, <3>3, <3>4, <3>5, <3>6, <3>7
  <2> QED
    BY <2>1, <2>2
<1>11. TypeOK'
  BY <1>1, <1>2, <1>3, <1>4, <1>10 DEF TypeOK, Whole
<1>12. TracksAccounted'
  <2>1. \A i \in 1 .. nTracks' :
          /\ track'[trackIds'[i]].alloc
          /\ \/ track'[trackIds'[i]].song = sseq'
             \/ track'[trackIds'[i]].song = None /\ opens' > FSS_MAXTRACKS
    BY <1>1, <1>10
  <2>2. \A i, j \in 1 .. nTracks' : trackIds'[i] = trackIds'[j] => i = j
    BY <1>10
  <2>3. Cardinality(Allocated') =
          nTracks' + (IF opens' = 0 THEN 0
                      ELSE (IF opens' <= FSS_MAXTRACKS THEN opens' ELSE FSS_MAXTRACKS) - 1)
    BY <1>1, <1>2, <1>10
  <2> QED
    BY <2>1, <2>2, <2>3 DEF TracksAccounted, Allocated
<1>13. VoicesOwned'
  BY <1>1, <1>4 DEF VoicesOwned
<1>14. OpeningInv'
  BY <1>1, <1>2, <1>3, <1>4, <1>10 DEF OpeningInv
<1>15. CommandInv'
  BY <1>3 DEF CommandInv
<1>16. (\A u \in Tracks : Whole(track[u]))'
  BY <1>10 DEF Whole, Zero, TrackStates
<1> QED
  BY <1>1, <1>4, <1>10, <1>11, <1>12, <1>13, <1>14, <1>15, <1>16 DEF BaseInv

-----------------------------------------------------------------------------
(* The invariant, and what it is for.                                       *)

LEMMA BaseInit == Init => BaseInv
<1> SUFFICES ASSUME Init PROVE BaseInv
  OBVIOUS
<1>1. /\ sseq = None /\ opening \in Songs /\ opens = 0
      /\ track = [t \in Tracks |-> Zero] /\ trackIds = <<>> /\ beats = {}
      /\ channel = [c \in Channels |-> Killed]
      /\ tempo = 0 /\ tempoCount = 0 /\ run = At("open")
  BY DEF Init
<1>2. /\ Whole(Zero) /\ Zero \in TrackStates /\ ~Zero.alloc
      /\ Killed \in ChannelStates /\ Killed.state = "none"
  BY ZeroWhole, KilledIs DEF Whole
<1>3. MaxOpens \in Nat \ {0} /\ None \notin Songs
  BY SongsAssumption
<1>4. run \in Stages /\ run.at = "open"
  BY <1>1 DEF Stages, At
<1>5. \A t \in Tracks : track[t] = Zero
  BY <1>1
<1>6. nTracks = 0 /\ trackIds \in Seq(Tracks)
  BY <1>1 DEF nTracks
<1>7. track \in [Tracks -> TrackStates] /\ channel \in [Channels -> ChannelStates]
  BY <1>1, <1>2
<1>8. TypeOK
  <2>1. 0 <= FSS_TRACKCOUNT
    BY SongsAssumption
  <2> QED
    BY <1>1, <1>2, <1>3, <1>4, <1>5, <1>6, <1>7, <2>1 DEF TypeOK, Whole
<1>9. TracksAccounted
  <2>1. {t \in Tracks : track[t].alloc} = {}
    BY <1>2, <1>5
  <2>2. Cardinality({t \in Tracks : track[t].alloc}) = 0
    BY <2>1, FS_EmptySet
  <2>3. Cardinality({t \in Tracks : track[t].alloc}) = nTracks + Lost(opens)
    BY <1>1, <1>6, <2>2 DEF Lost
  <2>4. 1 .. nTracks = {}
    BY <1>6
  <2> QED
    BY <2>3, <2>4 DEF TracksAccounted, Lost
<1>10. VoicesOwned
  BY <1>1, <1>2 DEF VoicesOwned
<1>11. OpeningInv
  BY <1>1, <1>2, <1>3, <1>4, <1>6 DEF OpeningInv
<1>12. CommandInv
  BY <1>4 DEF CommandInv
<1> QED
  BY <1>2, <1>5, <1>8, <1>9, <1>10, <1>11, <1>12 DEF BaseInv

\* Next, action by action.
LEMMA NextKinds ==
  ASSUME Next
  PROVE  \/ openFile \/ Tick \/ RunReturns \/ LastTurn \/ Timer \/ setPosition
         \/ \E i \in 1 .. nTracks :
              TrackTurn(i) \/ ReadsFreed(i) \/ Note(i) \/ Tie(i) \/ OpenTrack(i) \/ OwnTrack(i) \/ Tempo(i)
         \/ \E s \in Songs : Reopen(s)
         \/ \E c \in Channels : IncrementSample(c)
  BY DEF Next, Running, Track_Run

LEMMA BaseStep == BaseInv /\ [Next]_vars => BaseInv'
<1> SUFFICES ASSUME BaseInv, [Next]_vars PROVE BaseInv'
  OBVIOUS
<1>1. CASE openFile
  BY <1>1, OpenFileBase
<1>2. CASE Tick \/ RunReturns \/ LastTurn \/ Timer
  BY <1>2, TickBase, RunReturnsBase, LastTurnBase, TimerBase
<1>3. ASSUME NEW i \in 1 .. nTracks,
             \/ TrackTurn(i) \/ ReadsFreed(i)
             \/ Note(i) \/ Tie(i) \/ OpenTrack(i) \/ OwnTrack(i) \/ Tempo(i)
      PROVE  BaseInv'
  BY <1>3, TurnBase, FreedBase, NoteBase, TieBase, OpenTrackBase, OwnTrackBase, TempoBase
<1>4. CASE setPosition
  BY <1>4, RestartStep DEF setPosition
<1>5. ASSUME NEW s \in Songs, Reopen(s) PROVE BaseInv'
  BY <1>5, RestartStep DEF Reopen
<1>6. ASSUME NEW c \in Channels, IncrementSample(c) PROVE BaseInv'
  BY <1>6, SampleBase
<1>7. CASE UNCHANGED vars
  <2>1. /\ TypeOK /\ TracksAccounted /\ VoicesOwned /\ OpeningInv /\ CommandInv
        /\ \A u \in Tracks : Whole(track[u])
    BY DEF BaseInv
  <2>2. TypeOK' /\ TracksAccounted' /\ VoicesOwned' /\ OpeningInv' /\ CommandInv'
    BY <1>7, <2>1
       DEF vars, TypeOK, TracksAccounted, VoicesOwned, OpeningInv, CommandInv, Stages, nTracks
  <2>3. \A u \in Tracks : Whole(track'[u])
    BY <1>7, <2>1 DEF vars
  <2> QED
    BY <2>2, <2>3, WholePrimed DEF BaseInv
<1> QED
  BY <1>1, <1>2, <1>3, <1>4, <1>5, <1>6, <1>7, NextKinds

LEMMA BaseAlways == Spec => []BaseInv
<1>1. Init => BaseInv
  BY BaseInit
<1>2. BaseInv /\ [Next]_vars => BaseInv'
  BY BaseStep
<1> QED
  BY <1>1, <1>2, PTL DEF Spec

\* For all songs that do not run off their data, every variable keeps its
\* type: the stacks hold what is pushed on them (Track.cpp:496-544, 603-629),
\* the table the tracks put into it as long as the run does not stop because
\* it is full, and tempoCount stays within 16 bits (Player.cpp:131-146).
THEOREM TypeCorrect == Spec => []TypeOK
<1>1. BaseInv => TypeOK
  BY DEF BaseInv
<1> QED
  BY <1>1, BaseAlways, PTL

\* The table names allocated tracks, once each.  Each file after the first
\* loses exactly one track until none is free, and from then on, and only then,
\* a track of the table may stand on a song that was freed (Player.cpp:31-93,
\* 131-146).
THEOREM Accounts == Spec => []TracksAccounted
<1>1. BaseInv => TracksAccounted
  BY DEF BaseInv
<1> QED
  BY <1>1, BaseAlways, PTL

\* No track reads a song that was freed before one object has opened more files
\* than there are tracks, and nothing is written behind the table before it is
\* full (Player.cpp:31-47, Track.cpp:528-537): these are the only ways into what
\* is undefined.
THEOREM Defined == Spec => []DefinedWhileRoom
<1>1. Init => DefinedWhileRoom
  BY DEF Init, DefinedWhileRoom, At
<1>2. BaseInv /\ DefinedWhileRoom /\ [Next]_vars => DefinedWhileRoom'
  <2> SUFFICES ASSUME BaseInv, DefinedWhileRoom, [Next]_vars, run' = At("undefined")
               PROVE  opens' > FSS_MAXTRACKS \/ nTracks' = FSS_TRACKCOUNT
    BY DEF DefinedWhileRoom
  <2>1. CASE UNCHANGED vars
    BY <2>1 DEF vars, DefinedWhileRoom, nTracks
  <2>2. ASSUME NEW i \in 1 .. nTracks, ReadsFreed(i)
        PROVE  opens' > FSS_MAXTRACKS
    <3>1. run.at = "cmd" /\ track[trackIds[i]].song = None /\ opens' = opens
      BY <2>2 DEF ReadsFreed, Command
    <3>2. sseq \in Songs
      BY <3>1 DEF BaseInv, OpeningInv
    <3> QED
      BY <3>1, <3>2, SongsAssumption DEF BaseInv, TracksAccounted
  <2>3. ASSUME NEW i \in 1 .. nTracks, OpenTrack(i)
        PROVE  nTracks' = FSS_TRACKCOUNT
    <3>1. run = Command(i)
      BY <2>3 DEF OpenTrack, Reads, Due
    <3>2. run # run' /\ run' # Turn(i + 1)
      BY <3>1 DEF Command, Turn, At
    <3>3. TrackAlloc # NoTrack /\ nTracks = FSS_TRACKCOUNT
      BY <2>3, <3>1, <3>2 DEF OpenTrack, Becomes
    <3> QED
      BY <2>3, <3>3 DEF OpenTrack, nTracks
  <2>4. ASSUME NEW i \in 1 .. nTracks,
               TrackTurn(i) \/ Note(i) \/ Tie(i) \/ OwnTrack(i) \/ Tempo(i)
        PROVE  FALSE
    <3>1. run' = Command(i) \/ run' = Turn(i + 1)
      BY <2>4 DEF TrackTurn, Note, Tie, OwnTrack, Tempo, Becomes
    <3> QED
      BY <3>1 DEF Command, Turn, At
  <2>5. ~openFile /\ ~Tick /\ ~RunReturns /\ ~LastTurn /\ ~Timer /\ ~setPosition
    BY DEF openFile, Tick, RunReturns, LastTurn, Timer, setPosition, At, Turn
  <2>6. (\A s \in Songs : ~Reopen(s)) /\ \A c \in Channels : ~IncrementSample(c)
    BY DEF Reopen, IncrementSample, At
  <2> QED
    BY <2>1, <2>2, <2>3, <2>4, <2>5, <2>6, NextKinds
<1> QED
  BY <1>1, <1>2, BaseAlways, PTL DEF Spec

\* Every channel that sounds is one that Stop finds, and that the heartbeat of
\* a track of the table ends (Player.cpp:72-93).
THEOREM Owned == Spec => []VoicesOwned
<1>1. BaseInv => VoicesOwned
  BY DEF BaseInv
<1> QED
  BY <1>1, BaseAlways, PTL

-----------------------------------------------------------------------------
(* Loops.  Only the end of a loop and of a call shorten a stack, and no     *)
(* command touches the stack of another track.                              *)

LEMMA AfterShorter ==
  ASSUME NEW p, NEW op, Ready(p, op), op.cmd \notin {"note", "tie", "opentrack", "tempo"},
         NEW new \in After(p, op), Len(new.stack) < Len(p.stack)
  PROVE  Last(p.stack).type = "call" \/ Last(p.stack).loopCount = 1
<1>1. /\ p \in TrackStates /\ p.stack \in Seq(Entries) /\ Len(p.stack) \in Nat
  <2>1. p \in TrackStates
    BY DEF Ready
  <2>2. p.stack \in Seq(Entries)
    BY <2>1 DEF TrackStates
  <2> QED
    BY <2>1, <2>2
<1>2. CASE op.cmd \in {"call", "loopstart"}
  <2>1. \A e : Len(Append(p.stack, e)) = Len(p.stack) + 1
    BY <1>1
  <2>2. new.stack = p.stack \/ \E e : new.stack = Append(p.stack, e)
    BY <1>1, <1>2 DEF After, Call, LoopStart, TrackStates
  <2> QED
    BY <1>1, <2>1, <2>2
<1>3. CASE op.cmd = "ret"
  BY <1>1, <1>3 DEF After, Ret, TopIs
<1>4. CASE op.cmd = "loopend"
  <2>1. CASE ~TopIs(p, "loop")
    BY <1>1, <1>4, <2>1 DEF After, LoopEnd
  <2>2. CASE TopIs(p, "loop") /\ Last(p.stack).loopCount # 1
    <3> DEFINE loop == Last(p.stack)
               stack == [p.stack EXCEPT ![Len(p.stack)] = Again(loop)]
    <3>1. new = [p EXCEPT !.pos = loop.dest, !.stack = stack]
      BY <1>4, <2>2 DEF After, LoopEnd
    <3>2. Len(stack) = Len(p.stack)
      BY <1>1
    <3> HIDE DEF stack
    <3>3. new.stack = stack
      BY <1>1, <3>1 DEF TrackStates
    <3> QED
      BY <1>1, <3>2, <3>3
  <2> QED
    BY <2>1, <2>2
<1>5. CASE op.cmd \notin {"call", "loopstart", "ret", "loopend"}
  <2>1. new.stack = p.stack
    BY <1>1, <1>5 DEF After, If, TrackStates
  <2> QED
    BY <1>1, <2>1
<1> QED
  BY <1>2, <1>3, <1>4, <1>5

LEMMA StacksShorten ==
  ASSUME BaseInv, Next, run.at = "cmd", NEW t \in Tracks, track[t].stack # <<>>,
         Len(track'[t].stack) < Len(track[t].stack)
  PROVE  /\ track[t].song # None
         /\ Last(track[t].stack).type = "call" \/ Last(track[t].stack).loopCount = 1
<1>1. track \in [Tracks -> TrackStates] /\ Whole(track[t])
  BY DEF BaseInv, TypeOK
<1>2. track[t].alloc /\ Len(track[t].stack) \in Nat
  <2>1. track[t].stack \in Seq(Entries)
    BY <1>1 DEF TrackStates
  <2> QED
    BY <1>1, <2>1, ZeroWhole DEF Whole
<1>3. PICK i \in 1 .. nTracks : Note(i) \/ Tie(i) \/ OpenTrack(i) \/ OwnTrack(i) \/ Tempo(i)
  <2>1. ~openFile /\ ~Tick /\ ~RunReturns /\ ~LastTurn /\ ~Timer /\ ~setPosition
    BY DEF openFile, Tick, RunReturns, LastTurn, Timer, setPosition, At
  <2>2. \A s \in Songs : ~Reopen(s)
    BY DEF Reopen, At
  <2>3. \A c \in Channels : ~IncrementSample(c)
    BY DEF IncrementSample, At
  <2>4. \A i \in 1 .. nTracks : ~TrackTurn(i)
    BY DEF TrackTurn, Turn
  <2>5. \A i \in 1 .. nTracks : ~ReadsFreed(i)
    BY <1>2 DEF ReadsFreed
  <2> QED
    BY <2>1, <2>2, <2>3, <2>4, <2>5, NextKinds
<1> DEFINE own == trackIds[i]
           op == Fetched(track[own])
           p == Past(track[own])
<1>4. Due(i)
  BY <1>3 DEF Note, Tie, OpenTrack, OwnTrack, Tempo, Reads, Due
<1>5. /\ own \in Tracks /\ track[own].alloc /\ Ready(p, op) /\ SameBut(p, track[own])
      /\ p \in TrackStates /\ track[own].song # None
  BY <1>4, DueCommand DEF Ready, Due
<1>6. ASSUME NEW new, Becomes(i, new)
      PROVE  track'[t] = IF t = own THEN new ELSE track[t]
  BY <1>1, <1>6 DEF Becomes
<1>7. CASE Note(i) \/ Tie(i) \/ Tempo(i)
  <2>1. \E new : Becomes(i, new) /\ new.stack = p.stack
    <3>1. CASE Note(i)
      <4> DEFINE new == [p EXCEPT !.wait = IF track[own].notewait THEN Ticks(op.n) ELSE @]
      <4>1. Becomes(i, new)
        BY <3>1 DEF Note
      <4>2. new.stack = p.stack
        BY <1>5 DEF TrackStates
      <4> QED
        BY <4>1, <4>2
    <3>2. CASE Tie(i)
      <4> DEFINE new == [p EXCEPT !.tie = op.on]
      <4>1. Becomes(i, new)
        BY <3>2 DEF Tie
      <4>2. new.stack = p.stack
        BY <1>5 DEF TrackStates
      <4> QED
        BY <4>1, <4>2
    <3>3. CASE Tempo(i)
      BY <3>3 DEF Tempo
    <3> QED
      BY <1>7, <3>1, <3>2, <3>3
  <2>2. track'[t].stack = track[t].stack
    BY <1>5, <1>6, <2>1 DEF SameBut
  <2> QED
    BY <1>2, <2>2
<1>8. CASE OpenTrack(i)
  <2>1. CASE TrackAlloc = NoTrack
    <3>1. Becomes(i, p)
      BY <1>8, <2>1 DEF OpenTrack
    <3>2. track'[t].stack = track[t].stack
      BY <1>5, <1>6, <3>1 DEF SameBut
    <3> QED
      BY <1>2, <3>2
  <2>3. CASE TrackAlloc # NoTrack /\ nTracks = FSS_TRACKCOUNT
    <3>1. track' = track
      BY <1>8, <2>3 DEF OpenTrack
    <3> QED
      BY <1>2, <3>1
  <2>2. CASE TrackAlloc # NoTrack /\ nTracks # FSS_TRACKCOUNT
    <3>1. TrackAlloc # t
      BY <1>2, <2>2, TrackAllocKinds
    <3>2. track'[t] = IF t = own THEN p ELSE track[t]
      <4>1. track' = [track EXCEPT ![own] = p, ![TrackAlloc] = TrackInit(sseq, op.to)]
        BY <1>8, <2>2 DEF OpenTrack
      <4> HIDE DEF p, op
      <4> QED
        BY <1>1, <3>1, <4>1
    <3>3. track'[t].stack = track[t].stack
      BY <1>5, <3>2 DEF SameBut
    <3> QED
      BY <1>2, <3>3
  <2> QED
    BY <2>1, <2>2, <2>3
<1>9. CASE OwnTrack(i)
  <2>1. op.cmd \notin {"note", "tie", "opentrack", "tempo"} /\ \E new \in After(p, op) : Becomes(i, new)
    BY <1>9 DEF OwnTrack
  <2>2. PICK new \in After(p, op) : Becomes(i, new)
    BY <2>1
  <2>3. CASE t = own
    <3>1. Len(new.stack) < Len(p.stack) /\ p.stack = track[t].stack
      BY <1>5, <1>6, <2>2, <2>3 DEF SameBut
    <3> QED
      BY <1>5, <2>1, <2>2, <2>3, <3>1, AfterShorter
  <2>4. CASE t # own
    BY <1>2, <1>6, <2>2, <2>4
  <2> QED
    BY <2>3, <2>4
<1> QED
  BY <1>3, <1>7, <1>8, <1>9

\* A loop that is left has been played as often as it asks (Track.cpp:609-629):
\* loopCount and the passes that have begun add up, at every depth of the
\* stack, for a loop that is not endless.
THEOREM Repeats == Spec => LoopsRepeat
<1>1. ASSUME BaseInv, [Next]_vars, NEW t \in Tracks,
             run.at = "cmd", track[t].stack # <<>>, track'[t].stack = Front(track[t].stack),
             Last(track[t].stack).type = "loop"
      PROVE  Last(track[t].stack).passes = Last(track[t].stack).asked
  <2> DEFINE stack == track[t].stack
             loop == Last(stack)
  <2>1. Whole(track[t]) /\ track[t] \in TrackStates
    BY <1>1 DEF BaseInv, Whole
  <2>2. track[t].alloc /\ stack \in Seq(Entries)
    BY <1>1, <2>1, ZeroWhole DEF Whole, TrackStates
  <2>4. Len(track'[t].stack) < Len(stack)
    BY <1>1, <2>2, FrontLast
  <2>5. Next
    BY <1>1, <2>2, <2>4 DEF vars
  <2>6. loop.loopCount = 1 /\ track[t].song # None
    BY <1>1, <2>4, <2>5, StacksShorten
  <2>3. loop \in Frames(track[t].song)
    <3>1. stack \in Seq(Frames(track[t].song))
      BY <2>1, <2>2, <2>6 DEF Whole
    <3> QED
      BY <1>1, <3>1, FrontLast
  <2>7. Counted(loop) /\ loop \in [type : {"loop"}, dest : Nat, loopCount : Nat, asked : Nat, passes : Nat]
    BY <1>1, <2>3 DEF Frames, Entries
  <2> HIDE DEF loop
  <2>8. loop.passes = loop.asked
    BY <2>6, <2>7 DEF Counted
  <2> QED
    BY <2>8 DEF loop
<1>2. BaseInv /\ [Next]_vars =>
        (\A t \in Tracks :
           LET stack == track[t].stack
           IN  /\ run.at = "cmd" /\ stack # <<>> /\ track'[t].stack = Front(stack)
               /\ Last(stack).type = "loop"
               => Last(stack).passes = Last(stack).asked)
  BY <1>1
<1> QED
  BY <1>2, BaseAlways, PTL DEF Spec, LoopsRepeat

-----------------------------------------------------------------------------
(* Tied notes.  A track that is tied gets no second note, and a track has   *)
(* none when it is tied.                                                    *)

Holds(ch, t) == ch.trackId = t /\ ch.state \in Unreleased

LEMMA OneVoiceStep ==
  ASSUME OneVoiceWhenTied,
         \A t \in Tracks : track'[t].tie =>
           \/ track[t].tie /\ \A c \in Channels : Holds(channel'[c], t) => Holds(channel[c], t)
           \/ \E c \in Channels : \A d \in Channels : Holds(channel'[d], t) => d = c
           \/ \A c \in Channels : ~Holds(channel'[c], t)
  PROVE  OneVoiceWhenTied'
  BY DEF OneVoiceWhenTied, Holds

\* The commands but OPENTRACK: what becomes of their track.
LEMMA OneVoiceCommand ==
  ASSUME BaseInv, OneVoiceWhenTied, NEW i, Due(i), NEW new, Becomes(i, new),
         \/ /\ new.tie = track[trackIds[i]].tie
            /\ \A t \in Tracks, c \in Channels : Holds(channel'[c], t) => Holds(channel[c], t)
         \/ /\ \A c \in Channels : ~Holds(channel'[c], trackIds[i])
            /\ \A t \in Tracks \ {trackIds[i]}, c \in Channels : Holds(channel'[c], t) => Holds(channel[c], t)
         \/ /\ new.tie = track[trackIds[i]].tie
            /\ track[trackIds[i]].tie => \A c \in Channels : ~Holds(channel[c], trackIds[i])
            /\ \E c \in Channels : /\ Holds(channel'[c], trackIds[i])
                                   /\ \A d \in Channels \ {c} : channel'[d] = channel[d]
  PROVE  OneVoiceWhenTied'
<1> DEFINE own == trackIds[i]
<1>1. own \in Tracks /\ track \in [Tracks -> TrackStates]
  BY DueCommand DEF BaseInv, TypeOK
<1>2. \A t \in Tracks : track'[t] = IF t = own THEN new ELSE track[t]
  BY <1>1 DEF Becomes
<1>3. CASE /\ new.tie = track[own].tie
           /\ \A t \in Tracks, c \in Channels : Holds(channel'[c], t) => Holds(channel[c], t)
  BY <1>2, <1>3, OneVoiceStep
<1>4. CASE /\ \A c \in Channels : ~Holds(channel'[c], own)
           /\ \A t \in Tracks \ {own}, c \in Channels : Holds(channel'[c], t) => Holds(channel[c], t)
  BY <1>2, <1>4, OneVoiceStep
<1>5. CASE /\ new.tie = track[own].tie
           /\ track[own].tie => \A c \in Channels : ~Holds(channel[c], own)
           /\ \E c \in Channels : /\ Holds(channel'[c], own)
                                  /\ \A d \in Channels \ {c} : channel'[d] = channel[d]
  <2>1. PICK c \in Channels : Holds(channel'[c], own) /\ \A d \in Channels \ {c} : channel'[d] = channel[d]
    BY <1>5
  <2>2. \A t \in Tracks, d \in Channels \ {c} : Holds(channel'[d], t) => Holds(channel[d], t)
    BY <2>1 DEF Holds
  <2>3. \A t \in Tracks \ {own} : ~Holds(channel'[c], t)
    BY <2>1 DEF Holds
  <2>4. ASSUME NEW t \in Tracks, track'[t].tie
        PROVE  \/ track[t].tie /\ \A d \in Channels : Holds(channel'[d], t) => Holds(channel[d], t)
               \/ \A d \in Channels : Holds(channel'[d], t) => d = c
    <3>1. CASE t = own
      BY <1>1, <1>2, <1>5, <2>2, <2>4, <3>1
    <3>2. CASE t # own
      BY <1>2, <2>2, <2>3, <2>4, <3>2
    <3> QED
      BY <3>1, <3>2
  <2> QED
    BY <2>4, OneVoiceStep
<1> QED
  BY <1>3, <1>4, <1>5

LEMMA OneVoiceNote ==
  ASSUME BaseInv, OneVoiceWhenTied, NEW i, Note(i) \/ Tie(i) \/ OwnTrack(i) \/ Tempo(i)
  PROVE  OneVoiceWhenTied'
<1> DEFINE own == trackIds[i]
           op == Fetched(track[own])
           p == Past(track[own])
<1>1. Due(i)
  BY DEF Note, Tie, OwnTrack, Tempo, Reads, Due
<1>2. /\ own \in Tracks /\ Ready(p, op) /\ p.tie = track[own].tie /\ sseq \in Songs
      /\ track[own].song = sseq /\ p.song = sseq /\ p \in TrackStates
  BY <1>1, DueCommand DEF SameBut, Ready
<1>3. Voices /\ track[own].prio \in Nat
  BY <1>1, DueVoices
<1>4. CASE Note(i)
  <2> DEFINE new == [p EXCEPT !.wait = IF track[own].notewait THEN Ticks(op.n) ELSE @]
  <2>1. Becomes(i, new) /\ op.cmd = "note"
    BY <1>4 DEF Note, Reads, Due
  <2>2. op.n \in Int /\ op.kind \in Kinds \cup {None}
    BY <1>2, <2>1, OpFields, SongData DEF Ready
  <2>3. new.tie = track[own].tie
    BY <1>2 DEF TrackStates
  <2> HIDE DEF new
  <2>4. \A c \in Channels : \A len : Takes(c, own, len) => Holds(channel'[c], own)
    BY DEF Takes, Holds, Unreleased
  <2>5. CASE track[own].tie
    <3>1. NoteOnTie(own, op.kind)
      BY <1>4, <2>5 DEF Note
    <3>2. \/ \A d \in Channels : \A f \in {"state", "trackId", "noteLength", "len", "age"} :
               channel'[d][f] = channel[d][f]
          \/ /\ \A d \in Channels : ~(channel[d].trackId = own /\ channel[d].state \in Unreleased)
             /\ \E c \in Channels :
                  Takes(c, own, Endless) /\ \A d \in Channels \ {c} : channel'[d] = channel[d]
      BY <1>2, <1>3, <2>2, <3>1, NoteOnTieEffect
    <3>3. CASE \A d \in Channels : \A f \in {"state", "trackId", "noteLength", "len", "age"} :
                 channel'[d][f] = channel[d][f]
      <4>1. \A t \in Tracks, c \in Channels : Holds(channel'[c], t) => Holds(channel[c], t)
        BY <3>3 DEF Holds
      <4> QED
        BY <1>1, <2>1, <2>3, <4>1, OneVoiceCommand
    <3>4. CASE /\ \A d \in Channels : ~(channel[d].trackId = own /\ channel[d].state \in Unreleased)
               /\ \E c \in Channels :
                    Takes(c, own, Endless) /\ \A d \in Channels \ {c} : channel'[d] = channel[d]
      <4>1. \A c \in Channels : ~Holds(channel[c], own)
        BY <3>4 DEF Holds
      <4> QED
        BY <1>1, <2>1, <2>3, <2>4, <3>4, <4>1, OneVoiceCommand
    <3> QED
      BY <3>2, <3>3, <3>4
  <2>6. CASE ~track[own].tie
    <3>1. NoteOn(own, op.kind, op.n)
      BY <1>4, <2>6 DEF Note
    <3>2. \/ channel' = channel
          \/ \E c \in Channels :
               Takes(c, own, Ticks(op.n)) /\ \A d \in Channels \ {c} : channel'[d] = channel[d]
      BY <1>2, <1>3, <2>2, <3>1, NoteOnEffect
    <3>3. CASE channel' = channel
      <4>1. \A t \in Tracks, c \in Channels : Holds(channel'[c], t) => Holds(channel[c], t)
        BY <3>3 DEF Holds
      <4> QED
        BY <1>1, <2>1, <2>3, <4>1, OneVoiceCommand
    <3>4. CASE \E c \in Channels :
               Takes(c, own, Ticks(op.n)) /\ \A d \in Channels \ {c} : channel'[d] = channel[d]
      BY <1>1, <2>1, <2>3, <2>4, <2>6, <3>4, OneVoiceCommand
    <3> QED
      BY <3>2, <3>3, <3>4
  <2> QED
    BY <2>5, <2>6
<1>5. CASE Tie(i)
  <2> DEFINE new == [p EXCEPT !.tie = op.on]
  <2>1. Becomes(i, new) /\ ReleaseAllNotes(own)
    BY <1>5 DEF Tie
  <2> HIDE DEF new
  <2>2. /\ \A c \in Channels : ~(channel'[c].trackId = own /\ channel'[c].state \in Unreleased)
        /\ \A c \in Channels : channel'[c] = channel[c] \/ channel'[c] = Released(channel[c])
    BY <1>2, <1>3, <2>1, ReleaseAllNotesEffect
  <2>3. \A c \in Channels : Released(channel[c]).state \notin Unreleased
    BY <1>3, ReleasedKeeps DEF Voices, Unreleased, Held
  <2>4. /\ \A c \in Channels : ~Holds(channel'[c], own)
        /\ \A t \in Tracks, c \in Channels : Holds(channel'[c], t) => Holds(channel[c], t)
    BY <2>2, <2>3 DEF Holds
  <2> QED
    BY <1>1, <2>1, <2>4, OneVoiceCommand
<1>6. CASE OwnTrack(i) \/ Tempo(i)
  <2>1. \E new : Becomes(i, new) /\ new.tie = track[own].tie
    <3>1. CASE OwnTrack(i)
      <4>1. /\ op.cmd \notin {"note", "tie", "opentrack", "tempo"}
            /\ \E new \in After(p, op) : Becomes(i, new)
        BY <3>1 DEF OwnTrack
      <4>2. \A new \in After(p, op) : new.tie = p.tie
        BY <1>2, <4>1, AfterWhole
      <4> QED
        BY <1>2, <4>1, <4>2
    <3>2. CASE Tempo(i)
      BY <1>2, <3>2 DEF Tempo
    <3> QED
      BY <1>6, <3>1, <3>2
  <2>2. channel' = channel
    BY <1>6 DEF OwnTrack, Tempo
  <2>3. \A t \in Tracks, c \in Channels : Holds(channel'[c], t) => Holds(channel[c], t)
    BY <2>2 DEF Holds
  <2> QED
    BY <1>1, <2>1, <2>3, OneVoiceCommand
<1> QED
  BY <1>4, <1>5, <1>6

LEMMA TimerHolds ==
  ASSUME Voices, Timer
  PROVE  \A c \in Channels, t \in Tracks : Holds(channel'[c], t) => Holds(channel[c], t)
<1> SUFFICES ASSUME NEW c \in Channels, NEW t \in Tracks, Holds(channel'[c], t)
             PROVE  Holds(channel[c], t)
  OBVIOUS
<1>1. channel[c] \in ChannelStates
  BY DEF Voices
<1>2. PICK stageEnds \in BOOLEAN, vol \in 0 .. LoudestVol :
        channel'[c] = Update(UpdateTrack(channel[c]), stageEnds, vol)
  BY TimerVoices
<1>3. channel'[c].state \in Unreleased /\ channel'[c].trackId = t /\ channel'[c].state # "none"
  BY DEF Holds, Unreleased, Held
<1>4. UpdateTrack(channel[c]).state \in Unreleased /\ channel[c].trackId = t
  BY <1>1, <1>2, <1>3, UpdateEffect, KilledIs
<1>5. UpdateTrack(channel[c]).state \in {channel[c].state, "release"}
  <2>1. Released(channel[c]).state = "release"
    BY <1>1, ReleasedKeeps
  <2>2. \A n : [channel[c] EXCEPT !.noteLength = n].state = channel[c].state
    BY <1>1 DEF ChannelStates
  <2> QED
    BY <2>1, <2>2 DEF UpdateTrack
<1>6. "release" \notin Unreleased
  BY DEF Unreleased, Held
<1> QED
  BY <1>4, <1>5, <1>6 DEF Holds

\* A track that is opened takes over the notes of none: its channels have been
\* killed or are those of other tracks, and it is not tied.
LEMMA OneVoiceRest ==
  ASSUME BaseInv, OneVoiceWhenTied,
         \/ openFile \/ Timer \/ setPosition \/ \E s \in Songs : Reopen(s)
         \/ \E i : OpenTrack(i) \/ TrackTurn(i)
         \/ \E c \in Channels : IncrementSample(c)
  PROVE  OneVoiceWhenTied'
<1>1. /\ TypeOK /\ OpeningInv /\ track \in [Tracks -> TrackStates] /\ Voices
  BY DEF BaseInv, TypeOK, Voices
<1>2. \A s, pos : ~TrackInit(s, pos).tie
  BY DEF TrackInit, Zero
<1>3. CASE openFile
  <2>1. channel' = channel
    BY <1>3 DEF openFile
  <2>2. \A t \in Tracks : track'[t].tie => track[t].tie
    <3>1. track' = Orphaned \/ \E u, s : track' = [Orphaned EXCEPT ![u] = TrackInit(s, 1)]
      BY <1>3 DEF openFile, Setup
    <3>2. PICK orphaned \in [Tracks -> TrackStates] :
            orphaned = Orphaned /\ \A u \in Tracks : orphaned[u].tie = track[u].tie
      BY <1>1, OrphanedWhole DEF BaseInv
    <3>3. track' = orphaned \/ \E u, s : track' = [orphaned EXCEPT ![u] = TrackInit(s, 1)]
      BY <3>1, <3>2
    <3>4. \A t \in Tracks : track'[t] = orphaned[t] \/ \E s : track'[t] = TrackInit(s, 1)
      BY <3>3
    <3> QED
      BY <1>2, <3>2, <3>4
  <2> QED
    BY <2>1, <2>2, OneVoiceStep
<1>4. CASE Timer
  <2>1. track' = track
    BY <1>4 DEF Timer
  <2> QED
    BY <1>1, <1>4, <2>1, TimerHolds, OneVoiceStep
<1>5. CASE setPosition \/ \E s \in Songs : Reopen(s)
  <2>1. StopAndSetup /\ run = At("idle") /\ sseq' = sseq /\ opens' = opens
    BY <1>5 DEF setPosition, Reopen
  <2>2. opens # 0
    BY <1>1, <2>1 DEF OpeningInv, At
  <2>3. \A c \in Channels : channel'[c].state = "none"
    BY <2>1, <2>2, StopAndSetupEffect
  <2>4. \A t \in Tracks, c \in Channels : ~Holds(channel'[c], t)
    BY <2>3 DEF Holds, Unreleased, Held
  <2> QED
    BY <2>4, OneVoiceStep
<1>6. ASSUME NEW i, OpenTrack(i) PROVE OneVoiceWhenTied'
  <2> DEFINE own == trackIds[i]
             p == Past(track[own])
  <2>1. Due(i) /\ channel' = channel
    BY <1>6 DEF OpenTrack, Reads, Due
  <2>2. own \in Tracks /\ p.tie = track[own].tie
    BY <2>1, DueCommand DEF SameBut
  <2>3. \/ track' = track
        \/ track' = [track EXCEPT ![own] = p]
        \/ \E u, s, pos : track' = [track EXCEPT ![own] = p, ![u] = TrackInit(s, pos)]
    BY <1>6 DEF OpenTrack, Becomes
  <2> HIDE DEF p
  <2>4. ASSUME NEW t \in Tracks, track'[t].tie PROVE track[t].tie
    <3>1. track'[t] = track[t] \/ (t = own /\ track'[t] = p)
          \/ \E s, pos : track'[t] = TrackInit(s, pos)
      BY <1>1, <2>2, <2>3
    <3> QED
      BY <1>2, <2>2, <2>4, <3>1
  <2> QED
    BY <2>1, <2>4, OneVoiceStep
<1>7. ASSUME NEW i, TrackTurn(i) PROVE OneVoiceWhenTied'
  <2> DEFINE t == trackIds[i]
  <2>1. /\ run = Turn(i) /\ i <= nTracks /\ channel' = Ages(t)
        /\ \E wait : track' = [track EXCEPT ![t].wait = wait]
    BY <1>7 DEF TrackTurn
  <2>2. t \in Tracks
    <3>1. run.at = "turn" /\ run.i = i
      BY <2>1 DEF Turn
    <3>2. i \in 1 .. nTracks + 1 /\ nTracks \in Nat
      BY <1>1, <3>1, RunKinds, BaseTypes
    <3> QED
      BY <1>1, <2>1, <3>2, BaseTypes
  <2>3. \A c \in Channels :
          channel'[c].state = channel[c].state /\ channel'[c].trackId = channel[c].trackId
    BY <1>1, <2>1, <2>2, AgesEffect
  <2>4. \A u \in Tracks : track'[u].tie = track[u].tie
    <3>1. PICK wait : track' = [track EXCEPT ![t].wait = wait]
      BY <2>1
    <3>2. \A u \in Tracks : track'[u] = IF u = t THEN [track[u] EXCEPT !.wait = wait] ELSE track[u]
      BY <1>1, <3>1
    <3>3. \A u \in Tracks : track[u] \in TrackStates
      BY <1>1
    <3> QED
      BY <3>2, <3>3 DEF TrackStates
  <2>5. \A u \in Tracks, c \in Channels : Holds(channel'[c], u) => Holds(channel[c], u)
    BY <2>3 DEF Holds
  <2> QED
    BY <2>4, <2>5, OneVoiceStep
<1>8. ASSUME NEW s \in Channels, IncrementSample(s) PROVE OneVoiceWhenTied'
  <2>1. channel' = [channel EXCEPT ![s] = Killed] /\ track' = track
    BY <1>8 DEF IncrementSample
  <2>2. \A c \in Channels : channel'[c] = Killed \/ channel'[c] = channel[c]
    BY <1>1, <2>1 DEF Voices
  <2>3. \A t : ~Holds(Killed, t)
    BY KilledIs DEF Holds, Unreleased, Held
  <2>4. \A t \in Tracks, c \in Channels : Holds(channel'[c], t) => Holds(channel[c], t)
    BY <2>2, <2>3
  <2> QED
    BY <2>1, <2>4, OneVoiceStep
<1> QED
  BY <1>3, <1>4, <1>5, <1>6, <1>7, <1>8

\* A track whose notes are tied never holds two (Track.cpp:226-263): the
\* command that ties them releases what it holds, a tied note goes on in the
\* channel that the track has, and no track is opened tied.
THEOREM OneVoice == Spec => []OneVoiceWhenTied
<1>1. Init => OneVoiceWhenTied
  BY DEF Init, OneVoiceWhenTied, Zero
<1>2. BaseInv /\ OneVoiceWhenTied /\ [Next]_vars => OneVoiceWhenTied'
  <2> SUFFICES ASSUME BaseInv, OneVoiceWhenTied, [Next]_vars PROVE OneVoiceWhenTied'
    OBVIOUS
  <2>1. CASE Tick \/ RunReturns \/ LastTurn \/ (\E i : ReadsFreed(i)) \/ UNCHANGED vars
    <3>1. track' = track /\ channel' = channel
      BY <2>1 DEF Tick, RunReturns, LastTurn, ReadsFreed, vars
    <3> QED
      BY <3>1 DEF OneVoiceWhenTied
  <2> QED
    BY <2>1, NextKinds, OneVoiceNote, OneVoiceRest
<1> QED
  BY <1>1, <1>2, BaseAlways, PTL DEF Spec

-----------------------------------------------------------------------------
(* Channels that are taken.  ChannelAlloc keeps the one that matters least  *)
(* of those it has seen.                                                    *)

\* That the channel c matters no more than d does.
NoWorse(c, d) ==
  \/ channel[c].prio < channel[d].prio
  \/ channel[c].prio = channel[d].prio /\ channel[c].vol <= channel[d].vol

LEMMA NoWorseOrder ==
  ASSUME Voices
  PROVE  /\ \A c, d \in Channels : NoWorse(c, d) \/ NoWorse(d, c)
         /\ \A c, d, e \in Channels : NoWorse(c, d) /\ NoWorse(d, e) => NoWorse(c, e)
         /\ \A c \in Channels : NoWorse(c, c)
<1>1. \A c \in Channels : channel[c].prio \in Nat /\ channel[c].vol \in Nat
  BY DEF Voices, ChannelStates, LoudestVol
<1> QED
  BY <1>1 DEF NoWorse

LEMMA AllocLeast ==
  ASSUME Voices, NEW k \in Kinds, NEW p \in Nat, ChannelAlloc(k, p) # NoChannel
  PROVE  LET c == ChannelAlloc(k, p)
         IN  /\ c \in Channels /\ channel[c].prio <= p
             /\ \A d \in Range(Orders[k]) : NoWorse(c, d)
<1> DEFINE order == Orders[k]
           n == Len(order)
           Some == Channels \cup {NoChannel}
           Better(this, cur) ==
             \/ cur = NoChannel
             \/ channel[this].prio < channel[cur].prio
             \/ channel[this].prio = channel[cur].prio /\ channel[this].vol < channel[cur].vol
           Choice(i, cur) == IF Better(order[i], cur) THEN order[i] ELSE cur
           Kept(g) == g = [i \in 0 .. n |-> IF i = 0 THEN NoChannel ELSE Choice(i, g[i - 1])]
           kept == CHOOSE g : Kept(g)
           best == kept[n]
           Steps == (1 .. n) \X Some
           step == [x \in Steps |-> Choice(x[1], x[2])]
<1>1. /\ order \in Seq(Nat \ {NoChannel}) /\ n \in Nat /\ n # 0
      /\ \A i \in 1 .. n : order[i] \in Channels
      /\ \A d \in Channels : d # NoChannel
      /\ \A d \in Range(order) : \E i \in 1 .. n : d = order[i]
  <2>1. \A j \in Kinds : Orders[j] \in Seq(Nat \ {NoChannel}) /\ Orders[j] # <<>>
    BY SongsAssumption
  <2>2. order \in Seq(Nat \ {NoChannel}) /\ order # <<>>
    BY <2>1
  <2>3. n \in Nat /\ n # 0 /\ \A i \in 1 .. n : order[i] \in Range(order)
    BY <2>2 DEF Range
  <2>4. \A i \in 1 .. n : order[i] \in Channels
    BY <2>3 DEF Channels
  <2>5. \A j \in Kinds : \A d \in Range(Orders[j]) : d # NoChannel
    BY <2>1 DEF Range
  <2>6. \A d \in Range(order) : \E i \in 1 .. n : d = order[i]
    BY <2>2 DEF Range
  <2> QED
    BY <2>2, <2>3, <2>4, <2>5, <2>6 DEF Channels
<1> HIDE DEF order, n
<1>2. ChannelAlloc(k, p) = IF p < channel[best].prio THEN NoChannel ELSE best
  BY Zenon DEF ChannelAlloc, order, n
<1>3. kept = [i \in 0 .. n |-> IF i = 0 THEN NoChannel ELSE Choice(i, kept[i - 1])]
  <2>1. step \in [Steps -> Some] /\ NoChannel \in Some
    <3>1. ASSUME NEW x \in Steps PROVE Choice(x[1], x[2]) \in Some
      BY <1>1
    <3> HIDE DEF Choice
    <3> QED
      BY <3>1
  <2>2. PICK h \in [0 .. n -> Some] : Follows(h, n, NoChannel, step)
    <3> HIDE DEF step, Some
    <3> QED
      BY <1>1, <2>1, RecursionExists
  <2>3. ASSUME NEW i \in 1 .. n PROVE h[i] = Choice(i, h[i - 1])
    <3>1. i - 1 \in 0 .. n
      BY <1>1
    <3>2. <<i, h[i - 1]>> \in Steps
      BY <2>2, <3>1
    <3> HIDE DEF Choice
    <3> QED
      BY <2>2, <3>2 DEF Follows
  <2> HIDE DEF Choice
  <2>4. ASSUME NEW i \in 0 .. n PROVE h[i] = IF i = 0 THEN NoChannel ELSE Choice(i, h[i - 1])
    <3>1. i # 0 => i \in 1 .. n
      BY <1>1
    <3> QED
      BY <2>2, <2>3, <3>1 DEF Follows
  <2>5. Kept(h)
    BY <2>2, <2>4
  <2> HIDE DEF Kept
  <2>6. Kept(kept)
    BY <2>5
  <2> QED
    BY <2>6 DEF Kept
<1> HIDE DEF kept
<1>4. \A m \in 0 .. n : IF m = 0 THEN kept[m] = NoChannel
                        ELSE kept[m] \in Channels /\ \A i \in 1 .. m : NoWorse(kept[m], order[i])
  <2> DEFINE Good(m) == IF m = 0 THEN kept[m] = NoChannel
                        ELSE kept[m] \in Channels /\ \A i \in 1 .. m : NoWorse(kept[m], order[i])
             T == {m \in Nat : Good(m)}
  <2>1. 0 \in T
    BY <1>1, <1>3
  <2>2. ASSUME NEW m \in 1 .. n, m - 1 \in T PROVE m \in T
    <3> DEFINE this == order[m]
               cur == kept[m - 1]
    <3>1. m \in Nat /\ m # 0 /\ m \in 0 .. n /\ kept[m] = Choice(m, cur) /\ this \in Channels
      <4>1. m \in Nat /\ m # 0 /\ m \in 0 .. n
        BY <1>1
      <4> HIDE DEF Choice
      <4>2. kept[m] = Choice(m, cur)
        BY <1>3, <4>1
      <4> QED
        BY <1>1, <4>1, <4>2
    <3>2. CASE m = 1
      <4>1. cur = NoChannel
        BY <2>2, <3>2
      <4>2. kept[m] = this
        BY <3>1, <4>1
      <4>3. \A i \in 1 .. m : i = m
        BY <3>2
      <4> QED
        BY <3>1, <4>2, <4>3, NoWorseOrder
    <3>3. CASE m # 1
      <4>1. cur \in Channels /\ \A i \in 1 .. m - 1 : NoWorse(cur, order[i])
        BY <2>2, <3>1, <3>3
      <4>2. cur # NoChannel
        BY <1>1, <4>1
      <4>3. \/ kept[m] = this /\ NoWorse(this, cur)
            \/ kept[m] = cur /\ ~(channel[this].prio < channel[cur].prio)
               /\ ~(channel[this].prio = channel[cur].prio /\ channel[this].vol < channel[cur].vol)
        <5>1. \A c \in Channels : channel[c].prio \in Nat /\ channel[c].vol \in Nat
          BY DEF Voices, ChannelStates, LoudestVol
        <5> QED
          BY <3>1, <4>1, <4>2, <5>1 DEF NoWorse
      <4>4. NoWorse(kept[m], this) /\ NoWorse(kept[m], cur) /\ kept[m] \in Channels
        <5>1. \A c \in Channels : channel[c].prio \in Nat /\ channel[c].vol \in Nat
          BY DEF Voices, ChannelStates, LoudestVol
        <5> QED
          BY <3>1, <4>1, <4>3, <5>1 DEF NoWorse
      <4>5. ASSUME NEW i \in 1 .. m PROVE NoWorse(kept[m], order[i])
        <5>1. CASE i = m
          BY <4>4, <5>1
        <5>2. CASE i # m
          <6>1. i \in 1 .. m - 1 /\ i \in 1 .. n
            BY <1>1, <5>2
          <6>2. NoWorse(cur, order[i]) /\ order[i] \in Channels
            BY <1>1, <4>1, <6>1
          <6> QED
            BY <4>1, <4>4, <6>2, NoWorseOrder
        <5> QED
          BY <5>1, <5>2
      <4> QED
        BY <3>1, <4>4, <4>5
    <3> QED
      BY <3>2, <3>3
  <2> HIDE DEF Good
  <2>3. \A m \in 0 .. n : m \in T
    <3> HIDE DEF T
    <3> QED
      BY <1>1, <2>1, <2>2, CountingUp
  <2>4. \A m \in 0 .. n : Good(m)
    BY <2>3
  <2> QED
    BY <2>4 DEF Good
<1>5. best \in Channels /\ \A i \in 1 .. n : NoWorse(best, order[i])
  <2>1. n \in 0 .. n
    BY <1>1
  <2> QED
    BY <1>1, <1>4, <2>1
<1> HIDE DEF best
<1>6. ChannelAlloc(k, p) = best /\ ~(p < channel[best].prio)
  BY <1>2
<1>7. channel[best].prio \in Nat
  BY <1>5 DEF Voices, ChannelStates
<1>8. channel[best].prio <= p
  BY <1>6, <1>7
<1>9. \A d \in Range(order) : NoWorse(best, d)
  BY <1>1, <1>5
<1> QED
  BY <1>5, <1>6, <1>8, <1>9 DEF order

\* A note takes the channel c.
Started(c) ==
  channel'[c].state = "start" /\ (channel[c].state # "start" \/ channel[c].trackId # channel'[c].trackId)

\* A channel that a note may take.
Takeable(c) ==
  /\ channel[c].prio <= channel'[c].prio
  /\ \A d \in Range(Orders[channel'[c].kind]) : NoWorse(c, d)

LEMMA NoteOnTakes ==
  ASSUME Voices, NEW t \in Tracks, track[t].prio \in Nat, NEW k \in Kinds \cup {None}, NEW len,
         NoteOn(t, k, len)
  PROVE  \A c \in Channels : Started(c) => Takeable(c)
<1> DEFINE a == ChannelAlloc(k, track[t].prio)
<1>1. CASE k \notin Kinds \/ a = NoChannel
  <2>1. channel' = channel
    BY <1>1 DEF NoteOn
  <2> QED
    BY <2>1 DEF Started
<1>2. CASE k \in Kinds /\ a # NoChannel
  <2>1. a \in Channels /\ channel[a].prio <= track[t].prio /\ \A d \in Range(Orders[k]) : NoWorse(a, d)
    BY <1>2, AllocLeast
  <2> DEFINE ch == [channel[a] EXCEPT !.state = "start", !.trackId = t, !.prio = track[t].prio,
                      !.vol = LoudestVol, !.noteLength = Ticks(len), !.kind = k, !.moving = FALSE,
                      !.len = Ticks(len), !.age = 0]
  <2>2. channel' = [channel EXCEPT ![a] = ch]
    BY <1>2 DEF NoteOn
  <2>3. ch.prio = track[t].prio /\ ch.kind = k
    <3>1. channel[a] \in ChannelStates
      BY <2>1 DEF Voices
    <3> HIDE DEF a
    <3> QED
      BY <3>1 DEF ChannelStates
  <2> HIDE DEF a, ch
  <2>4. channel'[a] = ch /\ \A c \in Channels \ {a} : channel'[c] = channel[c]
    BY <2>1, <2>2 DEF Voices
  <2>5. Takeable(a)
    BY <2>1, <2>3, <2>4 DEF Takeable
  <2>6. \A c \in Channels \ {a} : ~Started(c)
    BY <2>4 DEF Started
  <2> QED
    BY <2>5, <2>6
<1> QED
  BY <1>1, <1>2

\* Only notes take channels.
LEMMA OthersTakeNone ==
  ASSUME BaseInv, [Next]_vars, \A i \in 1 .. nTracks : ~Note(i)
  PROVE  \A c \in Channels : ~Started(c)
<1>1. TypeOK /\ Voices
  BY DEF BaseInv, TypeOK, Voices
<1>2. CASE channel' = channel
  BY <1>2 DEF Started
<1>3. CASE Timer
  <2>1. ASSUME NEW c \in Channels, channel'[c].state = "start" PROVE FALSE
    <3>1. channel[c] \in ChannelStates
      BY <1>1 DEF Voices
    <3>2. PICK stageEnds \in BOOLEAN, vol \in 0 .. LoudestVol :
            channel'[c] = Update(UpdateTrack(channel[c]), stageEnds, vol)
      BY <1>1, <1>3, TimerVoices
    <3> DEFINE new == Update(UpdateTrack(channel[c]), stageEnds, vol)
    <3>3. \/ new = Killed \/ new.state = "none"
          \/ new.state \in Unreleased => new.state # "start"
      BY <3>1, UpdateEffect
    <3> HIDE DEF new
    <3> QED
      BY <2>1, <3>2, <3>3, KilledIs DEF new, Unreleased
  <2> QED
    BY <2>1 DEF Started
<1>4. CASE setPosition \/ \E s \in Songs : Reopen(s)
  <2>1. StopAndSetup
    BY <1>4 DEF setPosition, Reopen
  <2>2. \A c \in Channels : channel'[c] = Killed \/ channel'[c] = channel[c]
    BY <2>1 DEF StopAndSetup
  <2> QED
    BY <2>2, KilledIs DEF Started
<1>5. ASSUME NEW s \in Channels, IncrementSample(s) PROVE \A c \in Channels : ~Started(c)
  <2>1. channel' = [channel EXCEPT ![s] = Killed]
    BY <1>5 DEF IncrementSample
  <2>2. \A c \in Channels : channel'[c] = Killed \/ channel'[c] = channel[c]
    BY <1>1, <2>1 DEF Voices
  <2> QED
    BY <2>2, KilledIs DEF Started
<1>6. ASSUME NEW i \in 1 .. nTracks, TrackTurn(i) PROVE \A c \in Channels : ~Started(c)
  <2>1. trackIds[i] \in Tracks /\ channel' = Ages(trackIds[i])
    BY <1>1, <1>6, BaseTypes DEF TrackTurn
  <2>2. \A c \in Channels :
          channel'[c].state = channel[c].state /\ channel'[c].trackId = channel[c].trackId
    BY <1>1, <2>1, AgesEffect
  <2> QED
    BY <2>2 DEF Started
<1>7. ASSUME NEW i \in 1 .. nTracks, Tie(i) PROVE \A c \in Channels : ~Started(c)
  <2>1. trackIds[i] \in Tracks /\ ReleaseAllNotes(trackIds[i])
    BY <1>1, <1>7, BaseTypes DEF Tie
  <2>2. \A c \in Channels : channel'[c] = channel[c] \/ channel'[c] = Released(channel[c])
    BY <1>1, <2>1, ReleaseAllNotesEffect
  <2>3. \A c \in Channels : Released(channel[c]).state = "release"
    BY <1>1, ReleasedKeeps DEF Voices
  <2> QED
    BY <2>2, <2>3 DEF Started
<1>8. ASSUME NEW i \in 1 .. nTracks, OpenTrack(i) \/ OwnTrack(i) \/ Tempo(i) \/ ReadsFreed(i)
      PROVE  channel' = channel
  BY <1>8 DEF OpenTrack, OwnTrack, Tempo, ReadsFreed
<1>9. openFile \/ Tick \/ RunReturns \/ LastTurn \/ UNCHANGED vars => channel' = channel
  BY DEF openFile, Tick, RunReturns, LastTurn, vars
<1> QED
  BY <1>2, <1>3, <1>4, <1>5, <1>6, <1>7, <1>8, <1>9, NextKinds

\* A note that finds no channel of its kind free takes the one that matters
\* least, in the order of priority and then volume, and never one of a note
\* above its own priority (Player.cpp:95-129), for any orders of the channels.
THEOREM Steals == Spec => StealsLeast
<1>1. ASSUME BaseInv, [Next]_vars, NEW c \in Channels, Started(c) PROVE Takeable(c)
  <2>1. PICK i \in 1 .. nTracks : Note(i)
    BY <1>1, OthersTakeNone
  <2> DEFINE own == trackIds[i]
             op == Fetched(track[own])
             p == Past(track[own])
  <2>2. Due(i) /\ op.cmd = "note"
    BY <2>1 DEF Note, Reads, Due
  <2>3. own \in Tracks /\ Ready(p, op) /\ sseq \in Songs /\ p.song = sseq
    BY <1>1, <2>2, DueCommand DEF Ready, SameBut
  <2>4. Voices /\ track[own].prio \in Nat
    BY <1>1, <2>2, DueVoices
  <2>5. op.kind \in Kinds \cup {None}
    BY <2>2, <2>3, OpFields, SongData DEF Ready
  <2>6. CASE \E len : NoteOn(own, op.kind, len)
    <3> HIDE DEF own, op
    <3> QED
      BY <1>1, <2>3, <2>4, <2>5, <2>6, NoteOnTakes
  <2>7. CASE ~ \E len : NoteOn(own, op.kind, len)
    <3>1. NoteOnTie(own, op.kind)
      BY <2>1, <2>7 DEF Note
    <3>2. \A d \in Channels : channel'[d].state = channel[d].state /\ channel'[d].trackId = channel[d].trackId
      <4>1. PICK e : channel' = [channel EXCEPT ![e].prio = track[own].prio]
        BY <2>7, <3>1 DEF NoteOnTie
      <4>2. ASSUME NEW d \in Channels
            PROVE  channel'[d].state = channel[d].state /\ channel'[d].trackId = channel[d].trackId
        <5>1. channel[d] \in ChannelStates
          BY <2>4 DEF Voices
        <5>2. channel'[d] = IF d = e THEN [channel[d] EXCEPT !.prio = track[own].prio] ELSE channel[d]
          BY <2>4, <4>1 DEF Voices
        <5> HIDE DEF own
        <5> QED
          BY <5>1, <5>2 DEF ChannelStates
      <4> QED
        BY <4>2
    <3> QED
      BY <1>1, <3>2 DEF Started
  <2> QED
    BY <2>6, <2>7
<1>2. BaseInv /\ [Next]_vars =>
        \A c \in Channels :
          LET old == channel[c]
              new == channel'[c]
          IN  new.state = "start" /\ (old.state # "start" \/ old.trackId # new.trackId) =>
                /\ old.prio <= new.prio
                /\ \A d \in Range(Orders[new.kind]) :
                     \/ old.prio < channel[d].prio
                     \/ old.prio = channel[d].prio /\ old.vol <= channel[d].vol
  BY <1>1 DEF Started, Takeable, NoWorse
<1> QED
  BY <1>2, BaseAlways, PTL DEF Spec, StealsLeast

-----------------------------------------------------------------------------
(* The length of notes.  A song whose tempo stays within 240 has at most    *)
(* one tick in a timer: what starts in it has had no heartbeat yet, and     *)
(* each track has had one when its turn is over.                            *)

Slow(s) == \A op \in Commands(s) : op.cmd = "tempo" => op.n <= 240

\* The track t has had its turn in this tick, or has it.
HadTurn(t) ==
  \E j \in 1 .. nTracks :
    t = trackIds[j] /\ (j < run.i \/ (j = run.i /\ run.at = "cmd"))

TimingInv ==
  opens # 0 /\ Slow(sseq) =>
    /\ tempo <= 240 /\ tempoCount <= 480
    /\ run.at \in {"turn", "cmd"} =>
         /\ tempoCount <= 240
         /\ \A t \in beats : HadTurn(t)
         /\ \A c \in Channels : channel[c].state = "start" => HadTurn(channel[c].trackId)
    /\ run.at = "clock" /\ tempoCount > 240 =>
         beats = {} /\ \A c \in Channels : channel[c].state # "start"

\* What happens at the turn of track i.
LEMMA TimingTurn ==
  ASSUME BaseInv, TimingInv, NEW i, run = Turn(i) \/ run = Command(i), i \in 1 .. nTracks,
         run' = Command(i) \/ run' = Turn(i + 1),
         UNCHANGED <<sseq, trackIds, opens, tempoCount>>,
         Slow(sseq) => tempo' <= 240,
         beats' \subseteq beats \cup {trackIds[i]},
         \A c \in Channels : channel'[c].state = "start" =>
           \/ channel'[c].trackId = trackIds[i]
           \/ channel[c].state = "start" /\ channel'[c].trackId = channel[c].trackId
  PROVE  TimingInv'
<1> SUFFICES ASSUME opens # 0, Slow(sseq)
             PROVE  /\ tempo' <= 240 /\ tempoCount' <= 480 /\ run'.at \in {"turn", "cmd"}
                    /\ tempoCount' <= 240
                    /\ \A t \in beats' : HadTurn(t)'
                    /\ \A c \in Channels :
                         channel'[c].state = "start" => HadTurn(channel[c].trackId)'
  BY DEF TimingInv, Slow, Commands
<1>1. nTracks \in Nat /\ nTracks' = nTracks /\ tempoCount \in Nat
  BY BaseTypes DEF BaseInv, nTracks
<1>2. /\ run.at \in {"turn", "cmd"} /\ run.i = i
      /\ run'.at \in {"turn", "cmd"} /\ (run'.at = "cmd" => run'.i = i)
      /\ (run'.at = "turn" => run'.i = i + 1)
  BY DEF Turn, Command
<1>3. ASSUME NEW t, HadTurn(t) \/ t = trackIds[i]
      PROVE  \E j \in 1 .. nTracks :
               t = trackIds[j] /\ (j < run'.i \/ (j = run'.i /\ run'.at = "cmd"))
  <2>1. PICK j \in 1 .. nTracks : t = trackIds[j] /\ j <= i
    BY <1>1, <1>2, <1>3 DEF HadTurn
  <2> QED
    BY <1>1, <1>2, <2>1
<1>4. /\ tempoCount <= 240
      /\ \A t \in beats : HadTurn(t)
      /\ \A c \in Channels : channel[c].state = "start" => HadTurn(channel[c].trackId)
  BY <1>2 DEF TimingInv
<1>5. \A t \in beats' : HadTurn(t)'
  BY <1>1, <1>3, <1>4 DEF HadTurn
<1>6. ASSUME NEW c \in Channels, channel'[c].state = "start"
      PROVE  HadTurn(channel[c].trackId)'
  <2>1. HadTurn(channel'[c].trackId) \/ channel'[c].trackId = trackIds[i]
    BY <1>4, <1>6
  <2> QED
    BY <1>1, <1>3, <2>1 DEF HadTurn
<1> QED
  BY <1>1, <1>2, <1>4, <1>5, <1>6

LEMMA TimingCommand ==
  ASSUME BaseInv, TimingInv, NEW i \in 1 .. nTracks,
         Note(i) \/ Tie(i) \/ OwnTrack(i) \/ Tempo(i)
  PROVE  TimingInv'
<1> DEFINE own == trackIds[i]
           op == Fetched(track[own])
           p == Past(track[own])
<1>1. Due(i)
  BY DEF Note, Tie, OwnTrack, Tempo, Reads, Due
<1>2. /\ own \in Tracks /\ Ready(p, op) /\ sseq \in Songs /\ track[own].song = sseq
      /\ p.song = sseq /\ opens >= 1 /\ run = Command(i)
  BY <1>1, DueCommand DEF SameBut
<1>3. Voices /\ track[own].prio \in Nat /\ TypeOK /\ tempo \in Nat
  BY <1>1, DueVoices DEF BaseInv
<1>4. UNCHANGED <<sseq, trackIds, opens, tempoCount, beats>>
  BY DEF Note, Tie, OwnTrack, Tempo, player
<1>5. run' = Command(i) \/ run' = Turn(i + 1)
  <2>1. \E new : Becomes(i, new)
    BY DEF Note, Tie, OwnTrack, Tempo
  <2> QED
    BY <2>1 DEF Becomes
<1>6. Slow(sseq) => tempo' <= 240
  <2>1. CASE Tempo(i)
    <3>1. tempo' = op.n /\ op.cmd = "tempo" /\ op \in Commands(sseq)
      BY <1>2, <2>1 DEF Tempo, Reads, Due, Ready
    <3> QED
      BY <3>1 DEF Slow
  <2>2. CASE ~Tempo(i)
    <3>1. tempo' = tempo
      BY <2>2 DEF Note, Tie, OwnTrack, player
    <3>2. opens \in Nat
      BY <1>3, BaseTypes
    <3> QED
      BY <1>2, <3>1, <3>2 DEF TimingInv
  <2> QED
    BY <2>1, <2>2
<1>7. ASSUME NEW c \in Channels, channel'[c].state = "start"
      PROVE  \/ channel'[c].trackId = own
             \/ channel[c].state = "start" /\ channel'[c].trackId = channel[c].trackId
  <2>1. CASE Note(i)
    <3>1. op.cmd = "note"
      BY <2>1 DEF Note, Reads, Due
    <3>2. op.n \in Int /\ op.kind \in Kinds \cup {None}
      BY <1>2, <3>1, OpFields, SongData DEF Ready
    <3>3. CASE track[own].tie
      <4>1. NoteOnTie(own, op.kind)
        BY <2>1, <3>3 DEF Note
      <4> QED
        BY <1>2, <1>3, <1>7, <3>2, <4>1, NoteOnTieEffect DEF Takes
    <3>4. CASE ~track[own].tie
      <4>1. NoteOn(own, op.kind, op.n)
        BY <2>1, <3>4 DEF Note
      <4> QED
        BY <1>2, <1>3, <1>7, <3>2, <4>1, NoteOnEffect DEF Takes
    <3> QED
      BY <3>3, <3>4
  <2>2. CASE Tie(i)
    <3>1. ReleaseAllNotes(own)
      BY <2>2 DEF Tie
    <3>2. channel'[c] = channel[c] \/ channel'[c] = Released(channel[c])
      BY <1>2, <1>3, <3>1, ReleaseAllNotesEffect
    <3>3. Released(channel[c]).state # "start"
      BY <1>3, ReleasedKeeps DEF Voices
    <3> QED
      BY <1>7, <3>2, <3>3
  <2>3. CASE OwnTrack(i) \/ Tempo(i)
    BY <1>7, <2>3 DEF OwnTrack, Tempo
  <2> QED
    BY <2>1, <2>2, <2>3
<1> QED
  BY <1>2, <1>4, <1>5, <1>6, <1>7, TimingTurn

LEMMA TimingTrackTurn ==
  ASSUME BaseInv, TimingInv, NEW i \in 1 .. nTracks, TrackTurn(i)
  PROVE  TimingInv'
<1>1. /\ run = Turn(i) /\ channel' = Ages(trackIds[i]) /\ beats' = beats \cup {trackIds[i]}
      /\ run' = Command(i) \/ run' = Turn(i + 1)
      /\ UNCHANGED <<sseq, trackIds, opens, tempoCount, tempo>>
  BY DEF TrackTurn
<1>2. TypeOK /\ Voices /\ trackIds[i] \in Tracks /\ opens \in Nat
  <2>1. TypeOK
    BY DEF BaseInv
  <2>2. Voices
    BY <2>1 DEF TypeOK, Voices
  <2> QED
    BY <2>1, <2>2, BaseTypes
<1>3. \A c \in Channels :
        channel'[c].state = channel[c].state /\ channel'[c].trackId = channel[c].trackId
  BY <1>1, <1>2, AgesEffect
<1>4. opens # 0
  <2>1. run.at # "open"
    BY <1>1 DEF Turn
  <2> QED
    BY <2>1 DEF BaseInv, OpeningInv
<1>5. Slow(sseq) => tempo' <= 240
  BY <1>1, <1>4 DEF TimingInv
<1> QED
  BY <1>1, <1>3, <1>5, TimingTurn

\* Where the run stops no track has a turn.
LEMMA TimingUndefined ==
  ASSUME TimingInv, opens # 0, run' = At("undefined"), UNCHANGED <<sseq, tempo, tempoCount, opens>>
  PROVE  TimingInv'
<1>1. run'.at = "undefined"
  BY DEF At
<1> QED
  BY <1>1 DEF TimingInv, Slow, Commands

LEMMA TimingOpenTrack ==
  ASSUME BaseInv, TimingInv, NEW i \in 1 .. nTracks, OpenTrack(i)
  PROVE  TimingInv'
<1>1. run = Command(i) /\ UNCHANGED <<sseq, channel, tempo, tempoCount, opening, opens>>
  BY DEF OpenTrack, Reads, Due
<1>2. opens # 0
  <2>1. run.at # "open"
    BY <1>1 DEF Command
  <2> QED
    BY <2>1 DEF BaseInv, OpeningInv
<1>3. CASE TrackAlloc = NoTrack
  <2>1. Becomes(i, Past(track[trackIds[i]])) /\ UNCHANGED <<trackIds, beats>>
    BY <1>3 DEF OpenTrack
  <2>2. run' = Command(i) \/ run' = Turn(i + 1)
    BY <2>1 DEF Becomes
  <2>3. Slow(sseq) => tempo' <= 240
    BY <1>1, <1>2 DEF TimingInv
  <2> QED
    BY <1>1, <2>1, <2>2, <2>3, TimingTurn
<1>5. CASE TrackAlloc # NoTrack /\ nTracks = FSS_TRACKCOUNT
  <2>1. run' = At("undefined")
    BY <1>5 DEF OpenTrack
  <2> QED
    BY <1>1, <1>2, <2>1, TimingUndefined
<1>4. CASE TrackAlloc # NoTrack /\ nTracks # FSS_TRACKCOUNT
  <2>1. /\ trackIds' = Append(trackIds, TrackAlloc) /\ beats' = beats \ {TrackAlloc}
        /\ run' = run
    BY <1>4 DEF OpenTrack
  <2>2. TypeOK /\ TrackAlloc \in Tracks
    BY <1>4, TrackAllocKinds DEF BaseInv
  <2>3. trackIds \in Seq(Tracks) /\ nTracks \in Nat
    BY <2>2, BaseTypes
  <2>4. nTracks' = nTracks + 1 /\ \A j \in 1 .. nTracks : trackIds'[j] = trackIds[j]
    BY <2>1, <2>2, <2>3 DEF nTracks
  <2>5. ASSUME NEW t, HadTurn(t)
        PROVE  \E j \in 1 .. nTracks' :
                 t = trackIds'[j] /\ (j < run'.i \/ (j = run'.i /\ run'.at = "cmd"))
    <3>1. PICK j \in 1 .. nTracks :
            t = trackIds[j] /\ (j < run.i \/ (j = run.i /\ run.at = "cmd"))
      BY <2>5 DEF HadTurn
    <3>2. j \in 1 .. nTracks' /\ trackIds'[j] = trackIds[j]
      BY <2>3, <2>4
    <3> QED
      BY <2>1, <3>1, <3>2
  <2>6. SUFFICES ASSUME Slow(sseq)
        PROVE  /\ tempo <= 240 /\ tempoCount <= 480 /\ run.at = "cmd" /\ tempoCount <= 240
               /\ \A t \in beats' : HadTurn(t)'
               /\ \A c \in Channels : channel[c].state = "start" => HadTurn(channel[c].trackId)'
    BY <1>1, <2>1 DEF TimingInv, Slow, Commands
  <2>7. /\ tempo <= 240 /\ tempoCount <= 480 /\ run.at = "cmd" /\ tempoCount <= 240
        /\ \A t \in beats : HadTurn(t)
        /\ \A c \in Channels : channel[c].state = "start" => HadTurn(channel[c].trackId)
    BY <1>1, <1>2, <2>6 DEF TimingInv, Command
  <2>8. \A t \in beats' : HadTurn(t)'
    BY <2>1, <2>5, <2>7 DEF HadTurn
  <2>9. ASSUME NEW c \in Channels, channel[c].state = "start" PROVE HadTurn(channel[c].trackId)'
    <3>1. HadTurn(channel[c].trackId) /\ channel' = channel
      BY <1>1, <2>7, <2>9
    <3> QED
      BY <2>5, <3>1 DEF HadTurn
  <2> QED
    BY <2>7, <2>8, <2>9
<1> QED
  BY <1>3, <1>4, <1>5

LEMMA TimerUnstarted ==
  ASSUME Voices, Timer
  PROVE  \A c \in Channels : channel'[c].state # "start"
<1> SUFFICES ASSUME NEW c \in Channels PROVE channel'[c].state # "start"
  OBVIOUS
<1>1. channel[c] \in ChannelStates
  BY DEF Voices
<1>2. PICK stageEnds \in BOOLEAN, vol \in 0 .. LoudestVol :
        channel'[c] = Update(UpdateTrack(channel[c]), stageEnds, vol)
  BY TimerVoices
<1> QED
  BY <1>1, <1>2, UpdateEffect, KilledIs DEF Unreleased

LEMMA TimingRest ==
  ASSUME BaseInv, TimingInv,
         \/ openFile \/ Timer \/ Tick \/ RunReturns \/ LastTurn \/ setPosition
         \/ \E s \in Songs : Reopen(s)
         \/ \E c \in Channels : IncrementSample(c)
         \/ \E i \in 1 .. nTracks : ReadsFreed(i)
         \/ UNCHANGED vars
  PROVE  TimingInv'
<1>1. TypeOK /\ Voices /\ OpeningInv /\ tempo \in Nat /\ tempoCount \in Nat /\ opens \in Nat
  <2>1. TypeOK /\ OpeningInv
    BY DEF BaseInv
  <2>2. Voices
    BY <2>1 DEF TypeOK, Voices
  <2> QED
    BY <2>1, <2>2, BaseTypes
<1>2. \A p : At(p).at = p
  BY DEF At
<1>3. CASE openFile
  <2>1. tempo' = 120 /\ tempoCount' <= 120 /\ run' = At("timer") /\ BaseInv'
    BY <1>3, OpenFileBase DEF openFile
  <2>2. tempoCount' \in Nat
    BY <2>1 DEF BaseInv, TypeOK
  <2> QED
    BY <1>2, <2>1, <2>2 DEF TimingInv
<1>4. CASE Timer
  <2>1. /\ run.at # "open" /\ beats' = {} /\ run' = At("clock")
        /\ UNCHANGED <<sseq, tempo, tempoCount, opens>>
    BY <1>2, <1>4 DEF Timer
  <2>2. \A c \in Channels : channel'[c].state # "start"
    BY <1>1, <1>4, TimerUnstarted
  <2> QED
    BY <1>2, <2>1, <2>2 DEF TimingInv, Slow, Commands
<1>5. CASE Tick
  <2>1. /\ run = At("clock") /\ tempoCount > 240
        /\ tempoCount' = tempoCount - 240 /\ run' = Turn(1)
        /\ UNCHANGED <<sseq, beats, channel, tempo, opens>>
    BY <1>5 DEF Tick
  <2> QED
    BY <1>1, <1>2, <2>1 DEF TimingInv, Slow, Commands, Turn
<1>6. CASE RunReturns
  <2>1. /\ run = At("clock") /\ tempoCount <= 240
        /\ tempoCount' = (tempoCount + tempo) % 65536
        /\ run' = At("idle") \/ run' = At("open")
        /\ UNCHANGED <<sseq, tempo, opens>>
    BY <1>6 DEF RunReturns
  <2>2. tempo <= 240 => tempoCount' = tempoCount + tempo
    BY <1>1, <2>1
  <2> QED
    BY <1>1, <1>2, <2>1, <2>2 DEF TimingInv, Slow, Commands
<1>7. CASE LastTurn
  <2>1. /\ run.at = "turn" /\ run' = At("clock")
        /\ UNCHANGED <<sseq, tempo, tempoCount, opens>>
    BY <1>7 DEF LastTurn
  <2> QED
    BY <1>1, <1>2, <2>1 DEF TimingInv, Slow, Commands
<1>8. CASE setPosition \/ \E s \in Songs : Reopen(s)
  <2>1. StopAndSetup /\ run = At("idle") /\ sseq' = sseq /\ opens' = opens /\ run' = At("timer")
    BY <1>8 DEF setPosition, Reopen
  <2>2. opens # 0
    BY <1>1, <1>2, <2>1 DEF OpeningInv
  <2>3. tempo' = 120 /\ tempoCount' = 0
    BY <2>1, <2>2, StopAndSetupEffect
  <2> QED
    BY <1>2, <2>1, <2>3 DEF TimingInv
<1>9. CASE \E c \in Channels : IncrementSample(c)
  <2>1. run = At("idle") /\ UNCHANGED <<sseq, tempo, tempoCount, run, opens>>
    BY <1>9 DEF IncrementSample
  <2> QED
    BY <1>2, <2>1 DEF TimingInv, Slow, Commands
<1>10. CASE UNCHANGED vars
  BY <1>10 DEF vars, TimingInv, Slow, Commands, HadTurn, nTracks
<1>11. CASE \E i \in 1 .. nTracks : ReadsFreed(i)
  <2>1. run.at = "cmd" /\ run' = At("undefined") /\ UNCHANGED <<sseq, tempo, tempoCount, opens>>
    BY <1>11 DEF ReadsFreed, Command
  <2>2. opens # 0
    BY <1>1, <2>1 DEF OpeningInv
  <2> QED
    BY <2>1, <2>2, TimingUndefined
<1> QED
  BY <1>3, <1>4, <1>5, <1>6, <1>7, <1>8, <1>9, <1>10, <1>11

LEMMA TimingStep ==
  BaseInv /\ TimingInv /\ [Next]_vars => TimingInv'
BY NextKinds, TimingCommand, TimingTrackTurn, TimingOpenTrack, TimingRest

\* The ticks that the note of a channel has left when the tracks in ticked
\* have had a heartbeat that the channel has not seen yet.
Owed(ch, ticked) == ch.len - ch.age + (IF ch.trackId \in ticked THEN 1 ELSE 0)

Pays(ch, ticked) ==
  ch.state \in Unreleased /\ ch.len > 0 =>
    /\ ch.noteLength >= 1
    /\ ch.state = "start" => ch.noteLength = ch.len
    /\ ch.state \in Held => ch.noteLength >= Owed(ch, ticked)

Exact(ch, ticked) ==
  ch.state \in Unreleased /\ ch.len > 0 =>
    /\ ch.state = "start" => ch.age = 0
    /\ ch.state \in Held => ch.noteLength = Owed(ch, ticked)

NotesInv ==
  /\ \A c \in Channels : Pays(channel[c], beats)
  /\ opens # 0 /\ Slow(sseq) => \A c \in Channels : Exact(channel[c], beats)

LEMMA NotesFrom ==
  ASSUME UNCHANGED <<sseq, opens>>,
         \A c \in Channels : Pays(channel'[c], beats'),
         opens # 0 /\ Slow(sseq) => \A c \in Channels : Exact(channel'[c], beats')
  PROVE  NotesInv'
BY DEF NotesInv, Pays, Exact, Owed, Slow, Commands

LEMMA NoNote ==
  ASSUME NEW ch, NEW ticked, ch.state \notin Unreleased \/ ~(ch.len > 0)
  PROVE  Pays(ch, ticked) /\ Exact(ch, ticked)
BY DEF Pays, Exact

\* A note that has just been taken.
LEMMA NewNote ==
  ASSUME NEW ch, NEW ticked, ch.state = "start", ch.noteLength = ch.len, ch.age = 0,
         ch.len \in Nat \cup {Endless}
  PROVE  Pays(ch, ticked) /\ Exact(ch, ticked)
<1>1. "start" \notin Held
  BY DEF Held
<1>2. ch.len > 0 => ch.noteLength >= 1
  BY DEF Endless
<1> QED
  BY <1>1, <1>2 DEF Pays, Exact

LEMMA SameNote ==
  ASSUME NEW ch, NEW new, NEW ticked, NEW after,
         new.state = ch.state, new.trackId = ch.trackId, new.noteLength = ch.noteLength,
         new.len = ch.len, new.age = ch.age,
         ch.state \in Unreleased => (ch.trackId \in ticked <=> ch.trackId \in after)
  PROVE  /\ Pays(ch, ticked) => Pays(new, after)
         /\ Exact(ch, ticked) => Exact(new, after)
BY DEF Pays, Exact, Owed

\* The heartbeat of its track takes a tick from a note that is held, or ends
\* it; what starts is held from then on.
LEMMA TimedNote ==
  ASSUME NEW ch \in ChannelStates, NEW stageEnds \in BOOLEAN, NEW vol \in 0 .. LoudestVol,
         NEW new, new = Update(UpdateTrack(ch), stageEnds, vol), Pays(ch, beats)
  PROVE  /\ Pays(new, {})
         /\ Exact(ch, beats) => Exact(new, {})
<1> DEFINE u == UpdateTrack(ch)
<1>1. /\ ch.noteLength \in Int /\ ch.len \in Int /\ ch.age \in Nat
      /\ ch.state \in Sounding \cup {"none"}
  BY DEF ChannelStates, Endless
<1>2. \/ new.state \notin Unreleased
      \/ /\ new.trackId = ch.trackId /\ new.noteLength = u.noteLength
         /\ new.len = u.len /\ new.age = u.age
         /\ u.state \in Unreleased /\ new.state \in Held /\ new.state # "start"
  <2>1. /\ u.trackId = ch.trackId
        /\ \/ new = Killed
           \/ new.state = "none" /\ ch.state = "none"
           \/ /\ new.trackId = ch.trackId /\ new.noteLength = u.noteLength
              /\ new.len = u.len /\ new.age = u.age
              /\ new.state \in Sounding /\ ch.state \in Sounding
              /\ new.state \in Unreleased => u.state \in Unreleased /\ new.state # "start"
    BY UpdateEffect
  <2>2. "none" \notin Unreleased
    BY DEF Unreleased, Held
  <2> QED
    BY <2>1, <2>2, KilledIs DEF Unreleased
<1>3. \/ u.state \notin Unreleased
      \/ u = ch /\ ~(ch.trackId \in beats /\ ch.state \in Held)
      \/ /\ ch.trackId \in beats /\ ch.state \in Held /\ ch.noteLength # 1
         /\ u.len = ch.len /\ u.age = ch.age
         /\ u.noteLength = IF ch.noteLength > 0 THEN ch.noteLength - 1 ELSE Endless
  <2>1. CASE ~(ch.trackId \in beats /\ ch.state \in Held)
    BY <2>1 DEF UpdateTrack
  <2>2. CASE ch.trackId \in beats /\ ch.state \in Held /\ ch.noteLength = 1
    BY <2>2, ReleasedKeeps DEF UpdateTrack, Unreleased, Held
  <2>3. CASE ch.trackId \in beats /\ ch.state \in Held /\ ch.noteLength # 1
    <3>1. u = [ch EXCEPT !.noteLength = IF ch.noteLength > 0 THEN ch.noteLength - 1 ELSE Endless]
      BY <2>3 DEF UpdateTrack
    <3> HIDE DEF u
    <3> QED
      BY <2>3, <3>1 DEF ChannelStates
  <2> QED
    BY <2>1, <2>2, <2>3
<1> HIDE DEF u
<1>4. CASE new.state \notin Unreleased
  BY <1>4, NoNote
<1>5. CASE new.state \in Held /\ new.state # "start" /\ u = ch /\ ~(ch.trackId \in beats /\ ch.state \in Held)
  <2>1. /\ new.trackId = ch.trackId /\ new.noteLength = ch.noteLength
        /\ new.len = ch.len /\ new.age = ch.age /\ ch.state \in Unreleased
    BY <1>2, <1>5 DEF Unreleased
  <2>2. CASE ch.state = "start"
    BY <1>1, <1>5, <2>1, <2>2 DEF Pays, Exact, Owed
  <2>3. CASE ch.state \in Held
    BY <1>1, <1>5, <2>1, <2>3 DEF Pays, Exact, Owed
  <2> QED
    BY <2>1, <2>2, <2>3 DEF Unreleased
<1>6. CASE /\ new.state \in Held /\ new.state # "start"
           /\ ch.trackId \in beats /\ ch.state \in Held /\ ch.noteLength # 1
           /\ u.len = ch.len /\ u.age = ch.age
           /\ u.noteLength = IF ch.noteLength > 0 THEN ch.noteLength - 1 ELSE Endless
  <2>1. new.trackId = ch.trackId /\ new.noteLength = u.noteLength /\ new.len = ch.len /\ new.age = ch.age
    BY <1>2, <1>6 DEF Unreleased
  <2>2. ch.state \in Unreleased
    BY <1>6 DEF Unreleased
  <2> QED
    BY <1>1, <1>6, <2>1, <2>2 DEF Pays, Exact, Owed
<1> QED
  BY <1>2, <1>3, <1>4, <1>5, <1>6

\* A tick of its track makes a note older.
LEMMA AgedNote ==
  ASSUME NEW ch \in ChannelStates, NEW t, NEW new, Pays(ch, beats),
         new = IF ch.trackId = t /\ ch.len > 0 THEN [ch EXCEPT !.age = ch.age + 1] ELSE ch
  PROVE  /\ Pays(new, beats \cup {t})
         /\ Exact(ch, beats) /\ t \notin beats /\ (ch.state = "start" => ch.trackId # t)
              => Exact(new, beats \cup {t})
<1>1. ch.noteLength \in Int /\ ch.len \in Int /\ ch.age \in Nat
  BY DEF ChannelStates, Endless
<1>2. CASE ch.trackId = t /\ ch.len > 0
  <2>1. /\ new.state = ch.state /\ new.trackId = ch.trackId /\ new.noteLength = ch.noteLength
        /\ new.len = ch.len /\ new.age = ch.age + 1
    BY <1>2 DEF ChannelStates
  <2> QED
    BY <1>1, <1>2, <2>1 DEF Pays, Exact, Owed
<1>3. CASE ~(ch.trackId = t /\ ch.len > 0)
  BY <1>1, <1>3 DEF Pays, Exact, Owed
<1> QED
  BY <1>2, <1>3

LEMMA NotesCommand ==
  ASSUME BaseInv, NotesInv, NEW i, Note(i) \/ Tie(i) \/ OwnTrack(i) \/ Tempo(i)
  PROVE  NotesInv'
<1> DEFINE own == trackIds[i]
           op == Fetched(track[own])
<1>1. Due(i) /\ UNCHANGED <<sseq, opens, beats>>
  BY DEF Note, Tie, OwnTrack, Tempo, Reads, Due, player
<1>2. own \in Tracks /\ Ready(Past(track[own]), op) /\ sseq \in Songs /\ Past(track[own]).song = sseq
  BY <1>1, DueCommand DEF SameBut
<1>3. Voices /\ track[own].prio \in Nat
  BY <1>1, DueVoices
<1>4. SUFFICES ASSUME NEW c \in Channels
               PROVE  /\ Pays(channel[c], beats) => Pays(channel'[c], beats)
                      /\ Exact(channel[c], beats) => Exact(channel'[c], beats)
  BY <1>1, NotesFrom DEF NotesInv
<1>5. CASE channel'[c] = channel[c]
  BY <1>5
<1>6. ASSUME NEW len \in Nat \cup {Endless}, Takes(c, own, len)
      PROVE  Pays(channel'[c], beats) /\ Exact(channel'[c], beats)
  BY <1>6, NewNote DEF Takes
<1>7. CASE Note(i)
  <2>1. op.cmd = "note"
    BY <1>7 DEF Note, Reads, Due
  <2>2. op.n \in Int /\ op.kind \in Kinds \cup {None}
    BY <1>2, <2>1, OpFields, SongData DEF Ready
  <2>3. CASE track[own].tie
    <3>1. NoteOnTie(own, op.kind)
      BY <1>7, <2>3 DEF Note
    <3>2. \/ \A f \in {"state", "trackId", "noteLength", "len", "age"} : channel'[c][f] = channel[c][f]
          \/ Takes(c, own, Endless) \/ channel'[c] = channel[c]
      BY <1>2, <1>3, <2>2, <3>1, NoteOnTieEffect
    <3>3. CASE \A f \in {"state", "trackId", "noteLength", "len", "age"} : channel'[c][f] = channel[c][f]
      <4>1. /\ channel'[c].state = channel[c].state /\ channel'[c].trackId = channel[c].trackId
            /\ channel'[c].noteLength = channel[c].noteLength
            /\ channel'[c].len = channel[c].len /\ channel'[c].age = channel[c].age
        BY <3>3
      <4> QED
        BY <4>1, SameNote
    <3> QED
      BY <1>5, <1>6, <3>2, <3>3
  <2>4. CASE ~track[own].tie
    <3>1. NoteOn(own, op.kind, op.n)
      BY <1>7, <2>4 DEF Note
    <3>2. Takes(c, own, Ticks(op.n)) \/ channel'[c] = channel[c]
      BY <1>2, <1>3, <2>2, <3>1, NoteOnEffect
    <3> QED
      BY <1>5, <1>6, <2>2, <3>2, TicksKinds
  <2> QED
    BY <2>3, <2>4
<1>8. CASE Tie(i)
  <2>1. ReleaseAllNotes(own)
    BY <1>8 DEF Tie
  <2>2. channel'[c] = channel[c] \/ channel'[c] = Released(channel[c])
    BY <1>2, <1>3, <2>1, ReleaseAllNotesEffect
  <2>3. Released(channel[c]).state \notin Unreleased
    BY <1>3, ReleasedKeeps DEF Voices, Unreleased, Held
  <2> QED
    BY <1>5, <2>2, <2>3, NoNote
<1>9. CASE OwnTrack(i) \/ Tempo(i)
  BY <1>5, <1>9 DEF OwnTrack, Tempo
<1> QED
  BY <1>7, <1>8, <1>9

LEMMA NotesTrackTurn ==
  ASSUME BaseInv, TimingInv, NotesInv, NEW i \in 1 .. nTracks, TrackTurn(i)
  PROVE  NotesInv'
<1> DEFINE t == trackIds[i]
<1>1. /\ run = Turn(i) /\ channel' = Ages(t) /\ beats' = beats \cup {t}
      /\ UNCHANGED <<sseq, trackIds, opens>>
  BY DEF TrackTurn
<1>2. TypeOK /\ Voices /\ t \in Tracks /\ nTracks \in Nat
  <2>1. TypeOK
    BY DEF BaseInv
  <2>2. Voices
    BY <2>1 DEF TypeOK, Voices
  <2> QED
    BY <2>1, <2>2, BaseTypes
<1>3. ASSUME opens # 0, Slow(sseq)
      PROVE  t \notin beats /\ \A c \in Channels : channel[c].state = "start" => channel[c].trackId # t
  <2>1. run.at = "turn" /\ run.i = i
    BY <1>1 DEF Turn
  <2>2. ~HadTurn(t)
    <3>1. \A j \in 1 .. nTracks : trackIds[j] = t => j = i
      BY DEF BaseInv, TracksAccounted
    <3> QED
      BY <1>2, <2>1, <3>1 DEF HadTurn
  <2>3. /\ \A u \in beats : HadTurn(u)
        /\ \A c \in Channels : channel[c].state = "start" => HadTurn(channel[c].trackId)
    BY <1>3, <2>1 DEF TimingInv
  <2> QED
    BY <2>2, <2>3
<1>4. ASSUME NEW c \in Channels
      PROVE  /\ channel[c] \in ChannelStates
             /\ channel'[c] = IF channel[c].trackId = t /\ channel[c].len > 0
                              THEN [channel[c] EXCEPT !.age = channel[c].age + 1] ELSE channel[c]
  BY <1>1, <1>2, AgesEffect DEF Voices
<1>5. \A c \in Channels : Pays(channel'[c], beats')
  BY <1>1, <1>4, AgedNote DEF NotesInv
<1>6. ASSUME opens # 0, Slow(sseq) PROVE \A c \in Channels : Exact(channel'[c], beats')
  BY <1>1, <1>3, <1>4, <1>6, AgedNote DEF NotesInv
<1> QED
  BY <1>1, <1>5, <1>6, NotesFrom

\* A track that is opened has no note yet.
LEMMA NotesOpenTrack ==
  ASSUME BaseInv, NotesInv, NEW i, OpenTrack(i)
  PROVE  NotesInv'
<1>1. UNCHANGED <<sseq, channel, opens>> /\ (beats' = beats \/ (TrackAlloc # NoTrack /\ beats' = beats \ {TrackAlloc}))
  BY DEF OpenTrack
<1>2. ASSUME NEW c \in Channels, channel[c].state \in Unreleased
      PROVE  channel[c].trackId \in beats <=> channel[c].trackId \in beats'
  <2>1. channel[c].trackId \in Range(trackIds)
    BY <1>2 DEF BaseInv, VoicesOwned, Unreleased, Held
  <2>2. PICK j \in 1 .. nTracks : channel[c].trackId = trackIds[j]
    <3>1. trackIds \in Seq(Tracks)
      BY DEF BaseInv, TypeOK
    <3> QED
      BY <2>1, <3>1 DEF Range, nTracks
  <2>3. track[channel[c].trackId].alloc
    BY <2>2 DEF BaseInv, TracksAccounted
  <2> QED
    BY <1>1, <2>3, TrackAllocKinds
<1>3. ASSUME NEW c \in Channels
      PROVE  /\ Pays(channel[c], beats) => Pays(channel'[c], beats')
             /\ Exact(channel[c], beats) => Exact(channel'[c], beats')
  BY <1>1, <1>2, <1>3, SameNote
<1> QED
  BY <1>1, <1>3, NotesFrom DEF NotesInv

LEMMA NotesRest ==
  ASSUME BaseInv, NotesInv,
         \/ openFile \/ Timer \/ Tick \/ RunReturns \/ LastTurn \/ setPosition
         \/ \E s \in Songs : Reopen(s)
         \/ \E c \in Channels : IncrementSample(c)
         \/ \E i \in 1 .. nTracks : ReadsFreed(i)
         \/ UNCHANGED vars
  PROVE  NotesInv'
<1>1. TypeOK /\ Voices /\ OpeningInv
  BY DEF BaseInv, TypeOK, Voices
<1>2. ASSUME \A c \in Channels : channel'[c].state = "none" PROVE NotesInv'
  <2>1. \A c \in Channels : Pays(channel'[c], beats') /\ Exact(channel'[c], beats')
    BY <1>2, NoNote DEF Unreleased, Held
  <2> QED
    BY <2>1 DEF NotesInv, Pays, Exact, Owed
<1>3. CASE openFile
  BY <1>2, <1>3, OpenFileBase
<1>4. CASE setPosition \/ \E s \in Songs : Reopen(s)
  <2>1. StopAndSetup /\ run = At("idle") /\ sseq' = sseq /\ opens' = opens
    BY <1>4 DEF setPosition, Reopen
  <2>2. opens # 0
    BY <1>1, <2>1 DEF OpeningInv, At
  <2> QED
    BY <1>2, <2>1, <2>2, StopAndSetupEffect
<1>5. CASE Timer
  <2>1. UNCHANGED <<sseq, opens>> /\ beats' = {}
    BY <1>5 DEF Timer
  <2>2. ASSUME NEW c \in Channels
        PROVE  /\ Pays(channel[c], beats) => Pays(channel'[c], {})
               /\ Pays(channel[c], beats) /\ Exact(channel[c], beats) => Exact(channel'[c], {})
    <3>1. channel[c] \in ChannelStates
      BY <1>1 DEF Voices
    <3>2. PICK stageEnds \in BOOLEAN, vol \in 0 .. LoudestVol :
            channel'[c] = Update(UpdateTrack(channel[c]), stageEnds, vol)
      BY <1>1, <1>5, TimerVoices
    <3> QED
      BY <3>1, <3>2, TimedNote
  <2> QED
    BY <2>1, <2>2, NotesFrom DEF NotesInv
<1>6. CASE Tick \/ RunReturns \/ LastTurn \/ (\E i \in 1 .. nTracks : ReadsFreed(i)) \/ UNCHANGED vars
  <2>1. UNCHANGED <<sseq, opens, channel, beats>>
    BY <1>6 DEF Tick, RunReturns, LastTurn, ReadsFreed, vars
  <2> QED
    BY <2>1, NotesFrom DEF NotesInv
<1>7. CASE \E c \in Channels : IncrementSample(c)
  <2>1. UNCHANGED <<sseq, opens, beats>> /\ \E s \in Channels : channel' = [channel EXCEPT ![s] = Killed]
    BY <1>7 DEF IncrementSample
  <2>2. \A c \in Channels : channel'[c] = channel[c] \/ channel'[c] = Killed
    BY <1>1, <2>1 DEF Voices
  <2>3. \A ticked : Pays(Killed, ticked) /\ Exact(Killed, ticked)
    BY KilledIs, NoNote
  <2>4. \A c \in Channels : /\ Pays(channel[c], beats) => Pays(channel'[c], beats')
                            /\ Exact(channel[c], beats) => Exact(channel'[c], beats')
    BY <2>1, <2>2, <2>3
  <2> QED
    BY <2>1, <2>4, NotesFrom DEF NotesInv
<1> QED
  BY <1>3, <1>4, <1>5, <1>6, <1>7

LEMMA NotesStep ==
  BaseInv /\ TimingInv /\ NotesInv /\ [Next]_vars => NotesInv'
BY NextKinds, NotesCommand, NotesTrackTurn, NotesOpenTrack, NotesRest

\* A note loses no tick but those of its track, and never the one in which it
\* starts: it is not cut short, and where no timer has a second tick it is not
\* held longer either (Channel.cpp:187-208, Player.cpp:148-167).
THEOREM NotesPaid == Spec => []NotesLast
<1>1. Init => TimingInv /\ NotesInv
  <2> SUFFICES ASSUME Init PROVE TimingInv /\ NotesInv
    OBVIOUS
  <2>1. opens = 0 /\ \A c \in Channels : channel[c].state = "none"
    BY KilledIs DEF Init
  <2>2. \A c \in Channels : Pays(channel[c], beats) /\ Exact(channel[c], beats)
    BY <2>1, NoNote DEF Unreleased, Held
  <2> QED
    BY <2>1, <2>2 DEF TimingInv, NotesInv
<1>2. BaseInv /\ TimingInv /\ NotesInv /\ [Next]_vars => TimingInv' /\ NotesInv'
  BY TimingStep, NotesStep
<1>3. BaseInv /\ NotesInv => NotesLast
  <2> SUFFICES ASSUME BaseInv, NotesInv PROVE NotesLast
    OBVIOUS
  <2> SUFFICES ASSUME NEW c \in Channels, channel[c].state \in Held, channel[c].len > 0
               PROVE  /\ channel[c].noteLength >= Owed(channel[c], beats)
                      /\ Slow(sseq) => channel[c].noteLength = Owed(channel[c], beats)
    BY DEF NotesLast, Owed, Slow
  <2>1. channel[c].state \in Unreleased
    BY DEF Unreleased
  <2>2. opens # 0
    <3>1. OpeningInv /\ VoicesOwned /\ channel[c].state # "none"
      BY DEF BaseInv, Held
    <3>2. CASE opens = 0
      BY <3>1, <3>2 DEF OpeningInv, VoicesOwned, Range
    <3> QED
      BY <3>2
  <2> QED
    BY <2>1, <2>2 DEF NotesInv, Pays, Exact
<1> QED
  BY <1>1, <1>2, <1>3, BaseAlways, PTL DEF Spec

==============================================================================
