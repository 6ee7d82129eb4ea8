------------------------------ MODULE Sequencer ------------------------------
(***************************************************************************)
(* The Nintendo DS sequencer behind SSEQPlayer (src/SSEQPlayer/SSEQPlayer: *)
(* Player.cpp, Track.cpp, Channel.cpp).  A song is a list of commands for  *)
(* up to 16 tracks; a track plays its notes on the 16 channels, which it   *)
(* shares with the others.  A timer, driven by the samples that are        *)
(* rendered, advances the channels and then, every so often, the tracks by *)
(* a tick.                                                                 *)
(*                                                                         *)
(* A position in a song is the number of a command, not of a byte.  Pitch, *)
(* pan, volume and envelope are left out but for what a channel's volume   *)
(* decides: who loses it.                                                  *)
(*                                                                         *)
(* Nobody asks whether a track was free for a file, nor whether the table  *)
(* of tracks has a place left.  A track that reads a song that was freed,  *)
(* or a place behind the table that is written to, may have any effect at  *)
(* all: the model stops there, with run at "undefined".                    *)
(*                                                                         *)
(* The engine lets one thread at a time in (EmuExclusive of TKRPlayer), so *)
(* a rewind or an opening never meets a timer that is running.             *)
(***************************************************************************)
EXTENDS Integers, Sequences, FiniteSets, SequencesExt

CONSTANTS
  Songs,                \* names of the songs
  Data,                 \* Data[s]: the commands of song s
  Orders,               \* Orders[k]: channels for a sound of kind k, in the order of ChannelAlloc
  FSS_MAXTRACKS,        \* tracks there are
  FSS_TRACKCOUNT,       \* places in the table of tracks
  FSS_TRACKSTACKSIZE,   \* calls and loops inside each other
  MaxOpens              \* bound on the files opened

Kinds == DOMAIN Orders
Channels == UNION {Range(Orders[k]) : k \in Kinds}
Tracks == 0 .. FSS_MAXTRACKS - 1

None == "none"
NoChannel == 0
NoTrack == -1
Endless == -1    \* a noteLength or a wait that no tick brings to 0

ASSUME SongsAssumption ==
  /\ Songs # {} /\ None \notin Songs
  /\ \A k \in Kinds : Orders[k] \in Seq(Nat \ {NoChannel}) /\ Orders[k] # <<>>
  /\ FSS_MAXTRACKS \in Nat \ {0} /\ FSS_TRACKCOUNT \in Nat \ {0} /\ FSS_TRACKSTACKSIZE \in Nat
  /\ MaxOpens \in Nat \ {0}

\* The commands that RANDOM and FROMVAR put a number into, of 16 bits.  The
\* other commands either take their number from the data all the same or only
\* say what a note will sound like.
Numbered == [cmd : {"note"}, kind : Kinds \cup {None}, n : Int]
              \cup [cmd : {"rest", "loopstart"}, n : Int]
Int16 == -32768 .. 32767

\* The commands of a song of n commands.

Ops(n) == Numbered
            \cup [cmd : {"prio", "tempo"}, n : Nat]
            \cup [cmd : {"goto", "call", "opentrack"}, to : 1 .. n]
            \cup [cmd : {"tie", "notewait"}, on : BOOLEAN]
            \cup [cmd : {"ret", "loopend", "compare", "if", "end", "other"}]
            \cup [cmd : {"random"}, of : Numbered, values : SUBSET Int16]

\* Songs do not run off their data, which the code would read on behind.
ASSUME SongsWhole ==
  \A s \in Songs :
    LET n == Len(Data[s])
    IN  /\ Data[s] \in Seq(Ops(n)) /\ n > 0
        /\ \A p \in 1 .. n : /\ Data[s][p].cmd \notin {"goto", "end"} => p + 1 <= n
                             /\ Data[s][p].cmd = "if" => p + 2 <= n

VARIABLES
  sseq,       \* the song in memory
  track,      \* tracks; song is None when what it reads was freed
  trackIds,   \* trackIds[0 .. nTracks - 1]
  beats,      \* tracks with the flag TUF_LEN
  channel,    \* channels; enable is a bit of the register of the hardware, and
              \* moving says that the sample is being read; len
              \* and age are for the properties: the length of the note
              \* that is held and the ticks its track has had since
  tempo, tempoCount,
  run,        \* where Timer is: at a track's turn (turn) or command (cmd), ...
  opening,    \* the file that openFile: is about to set up
  opens       \* files opened so far

vars == <<sseq, track, trackIds, beats, channel, tempo, tempoCount, run, opening, opens>>

nTracks == Len(trackIds)

\* CS_NONE ... CS_RELEASE
Held == {"attack", "decay", "sustain"}
Unreleased == {"start"} \cup Held
Sounding == Unreleased \cup {"release"}

At(p) == [at |-> p]
Turn(i) == [at |-> "turn", i |-> i]
Command(i) == [at |-> "cmd", i |-> i]

-----------------------------------------------------------------------------
(* Slips that the properties are there to catch, each a wrong form of the  *)
(* operator its name begins with.  No run uses them as they stand.         *)

\* A note that has not started yet loses a tick, too.
UpdateTrack_Start(ch) ==
  IF ch.trackId \in beats /\ ch.state \in Unreleased
  THEN IF ch.noteLength = 1
       THEN [ch EXCEPT !.noteLength = Endless, !.prio = 1, !.state = "release", !.len = 0, !.age = 0]
       ELSE [ch EXCEPT !.noteLength = IF @ > 0 THEN @ - 1 ELSE Endless]
  ELSE ch

\* The volume decides before the priority does.
ChannelAlloc_Volume(k, priority) ==
  LET Better(this, cur) ==
        \/ cur = NoChannel
        \/ channel[this].vol < channel[cur].vol
        \/ channel[this].vol = channel[cur].vol /\ channel[this].prio < channel[cur].prio
      kept[i \in 0 .. Len(Orders[k])] ==
        IF i = 0 THEN NoChannel
        ELSE IF Better(Orders[k][i], kept[i - 1]) THEN Orders[k][i] ELSE kept[i - 1]
      best == kept[Len(Orders[k])]
  IN  IF priority < channel[best].prio THEN NoChannel ELSE best

\* A note that has not started yet is not released.
ReleaseAllNotes_Held(t) ==
  channel' = [c \in Channels |->
                IF channel[c].trackId = t /\ channel[c].state \in Held
                THEN [channel[c] EXCEPT !.noteLength = Endless, !.prio = 1, !.state = "release",
                                        !.len = 0, !.age = 0]
                ELSE channel[c]]

\* A call is made whether the stack holds another one or not.
Call_Full(t, op) ==
  [t EXCEPT !.stack = Append(@, [type |-> "call", dest |-> t.pos]), !.pos = op.to]

\* A loop whose count is looked at before it is decremented.
CountsPass(loop) ==
  [loop EXCEPT !.passes = IF loop.asked = 0 \/ @ > loop.asked THEN @ ELSE @ + 1]

LoopEnd_Before(t) ==
  LET loop == t.stack[Len(t.stack)]
  IN  IF t.stack = <<>> \/ (t.stack # <<>> /\ loop.type # "loop") THEN t
      ELSE IF loop.asked # 0 /\ loop.loopCount = 0
      THEN [t EXCEPT !.stack = Front(@)]
      ELSE [t EXCEPT !.pos = loop.dest,
                     !.stack[Len(t.stack)] =
                        [CountsPass(loop) EXCEPT !.loopCount = IF @ = 0 THEN 0 ELSE @ - 1]]

-----------------------------------------------------------------------------
(* Tracks.  A free track is zeroed: TrackAlloc does so before use.         *)

Zero == [alloc |-> FALSE, end |-> FALSE, notewait |-> FALSE, tie |-> FALSE, prio |-> 0,
         song |-> None, startPos |-> 0, pos |-> 0, stack |-> <<>>, wait |-> 0,
         overriding |-> <<>>, lastComparisonResult |-> TRUE]

\* TrackAlloc: the first track that is free, or none.
TrackAlloc ==
  LET free == {t \in Tracks : ~track[t].alloc}
  IN  IF free = {} THEN NoTrack ELSE CHOOSE t \in free : \A u \in free : t <= u

\* Init with ClearState, after TrackAlloc.
TrackInit(s, dataPos) ==
  [Zero EXCEPT !.alloc = TRUE, !.notewait = TRUE, !.prio = 64,
               !.song = s, !.startPos = dataPos, !.pos = dataPos]

-----------------------------------------------------------------------------
(* Channels.                                                               *)

Killed == [state |-> "none", trackId |-> NoTrack, prio |-> 0, vol |-> 0, noteLength |-> Endless,
           enable |-> FALSE, kind |-> None, moving |-> FALSE, len |-> 0, age |-> 0]

Released(ch) ==
  [ch EXCEPT !.noteLength = Endless, !.prio = 1, !.state = "release", !.len = 0, !.age = 0]

\* ChannelAlloc: goes through the channels of the kind and keeps the better
\* one to take; a note of lower priority than that gets none.
ChannelAlloc(k, priority) ==
  LET Better(this, cur) ==
        \/ cur = NoChannel
        \/ channel[this].prio < channel[cur].prio
        \/ channel[this].prio = channel[cur].prio /\ channel[this].vol < channel[cur].vol
      kept[i \in 0 .. Len(Orders[k])] ==
        IF i = 0 THEN NoChannel
        ELSE IF Better(Orders[k][i], kept[i - 1]) THEN Orders[k][i] ELSE kept[i - 1]
      best == kept[Len(Orders[k])]
  IN  IF priority < channel[best].prio THEN NoChannel ELSE best

LoudestVol == 2    \* 0x7FF

\* A number that ticks count down to 0, or never.
Ticks(n) == IF n < 0 THEN Endless ELSE n

\* NoteOn, with the channel's registers as its last note left them.  A note
\* that the instrument does not have (kind None) plays nothing.
NoteOn(t, k, len) ==
  LET c == IF k \in Kinds THEN ChannelAlloc(k, track[t].prio) ELSE NoChannel
  IN  IF c = NoChannel
      THEN UNCHANGED channel
      ELSE channel' = [channel EXCEPT ![c] =
             [@ EXCEPT !.state = "start", !.trackId = t, !.prio = track[t].prio, !.vol = LoudestVol,
                       !.noteLength = Ticks(len), !.kind = k, !.moving = FALSE,
                       !.len = Ticks(len), !.age = 0]]

\* NoteOnTie: the note that sounds goes on in another pitch.
NoteOnTie(t, k) ==
  LET tied == {c \in Channels : channel[c].trackId = t /\ channel[c].state \in Unreleased}
  IN  IF tied = {}
      THEN NoteOn(t, k, Endless)
      ELSE LET c == CHOOSE c \in tied : \A d \in tied : c <= d
           IN  channel' = [channel EXCEPT ![c].prio = track[t].prio]

\* ReleaseAllNotes
ReleaseAllNotes(t) ==
  channel' = [c \in Channels |->
                IF channel[c].trackId = t /\ channel[c].state \in Unreleased
                THEN Released(channel[c]) ELSE channel[c]]

\* UpdateTrack: the heartbeat of its track shortens the note of a channel.
UpdateTrack(ch) ==
  IF ch.trackId \in beats /\ ch.state \in Held
  THEN IF ch.noteLength = 1 THEN Released(ch)
       ELSE [ch EXCEPT !.noteLength = IF @ > 0 THEN @ - 1 ELSE Endless]
  ELSE ch

\* Update: the envelope's next value, which ends a stage of it or not, and
\* the volume that follows from it.
Update(ch, stageEnds, vol) ==
  LET next == CASE ch.state = "start"   -> IF stageEnds THEN "decay" ELSE "attack"
                [] ch.state = "attack"  -> IF stageEnds THEN "decay" ELSE "attack"
                [] ch.state = "decay"   -> IF stageEnds THEN "sustain" ELSE "decay"
                [] OTHER                -> ch.state
  IN  IF ch.state = "none" THEN ch
      ELSE IF \/ ch.state # "start" /\ ~ch.enable
              \/ ch.state = "release" /\ stageEnds
      THEN Killed
      ELSE [ch EXCEPT !.state = next, !.enable = TRUE, !.vol = vol,
                      !.moving = @ \/ ch.state = "start"]

-----------------------------------------------------------------------------
(* The player.                                                             *)

\* The tracks when the song in memory is freed.
Orphaned == [t \in Tracks |-> IF track[t].alloc THEN [track[t] EXCEPT !.song = None] ELSE track[t]]

\* Setup: the first track of the song that is read instead of the one in
\* memory.  Without a free track it says no, which nobody asks: the table stays
\* as it is.
Setup(s) ==
  LET t == TrackAlloc
  IN  /\ sseq' = s
      /\ IF t = NoTrack
         THEN track' = Orphaned /\ UNCHANGED <<trackIds, beats, tempo, tempoCount>>
         ELSE /\ track' = [Orphaned EXCEPT ![t] = TrackInit(s, 1)]
              /\ trackIds' = <<t>>
              /\ beats' = beats \ {t}
              /\ tempo' = 120 /\ tempoCount' = 0

\* Only the tracks are stopped; the notes sound on.
StopAndSetup_Sounding ==
  LET mine == Range(trackIds)
      free == mine \cup {u \in Tracks : ~track[u].alloc}
      t == CHOOSE t \in free : \A u \in free : t <= u
  IN  /\ track' = [u \in Tracks |-> IF u = t THEN TrackInit(sseq, 1)
                                    ELSE IF u \in mine THEN Zero ELSE track[u]]
      /\ trackIds' = <<t>>
      /\ beats' = beats \ (mine \cup {t})
      /\ tempo' = 120 /\ tempoCount' = 0
      /\ UNCHANGED channel

\* Stop(true) with Setup of the song that is in memory: the tracks of the
\* table are freed and their channels killed, and the first free track is set
\* up again.
StopAndSetup ==
  LET mine == Range(trackIds)
      free == mine \cup {u \in Tracks : ~track[u].alloc}
      t == CHOOSE t \in free : \A u \in free : t <= u
  IN  /\ channel' = [c \in Channels |->
                       IF channel[c].state # "none" /\ channel[c].trackId \in mine
                       THEN Killed ELSE channel[c]]
      /\ track' = [u \in Tracks |-> IF u = t THEN TrackInit(sseq, 1)
                                    ELSE IF u \in mine THEN Zero ELSE track[u]]
      /\ trackIds' = <<t>>
      /\ beats' = beats \ (mine \cup {t})
      /\ tempo' = 120 /\ tempoCount' = 0

\* setPosition: backwards, from the beginning.
setPosition ==
  /\ run = At("idle")
  /\ StopAndSetup
  /\ run' = At("timer")
  /\ UNCHANGED <<sseq, opening, opens>>

\* The song's tracks are not stopped first.
Reopen_Playing(s) ==
  /\ run = At("idle") /\ opens < MaxOpens
  /\ run' = At("timer") /\ opening' = s
  /\ UNCHANGED <<sseq, track, trackIds, beats, channel, tempo, tempoCount, opens>>

\* The engine opens another file with the object: it sets its position to 0
\* and then calls openFile:.
Reopen(s) ==
  /\ run = At("idle") /\ opens < MaxOpens
  /\ StopAndSetup
  /\ run' = At("timer") /\ opening' = s
  /\ UNCHANGED <<sseq, opens>>

\* openFile:
openFile ==
  /\ run = At("open")
  /\ Setup(opening)
  /\ run' = At("timer") /\ opening' = None /\ opens' = opens + 1
  /\ UNCHANGED channel

\* Timer up to Run: UpdateTracks and Update of all channels.  GenerateSamples
\* calls it when enough samples have been made.
Timer ==
  /\ run \in {At("idle"), At("timer")}
  /\ \E ending \in SUBSET {c \in Channels : channel[c].state # "none"},
        loud \in SUBSET {c \in Channels : channel[c].state # "none"} :
       channel' = [c \in Channels |-> Update(UpdateTrack(channel[c]), c \in ending,
                                             IF c \in loud THEN 1 ELSE 0)]
  /\ beats' = {}
  /\ run' = At("clock")
  /\ UNCHANGED <<sseq, track, trackIds, tempo, tempoCount, opening, opens>>

\* Run: a tick for each 240 that have been counted, and then the count of
\* this timer, in 16 bits.
Tick ==
  /\ run = At("clock") /\ tempoCount > 240
  /\ tempoCount' = tempoCount - 240 /\ run' = Turn(1)
  /\ UNCHANGED <<sseq, track, trackIds, beats, channel, tempo, opening, opens>>

RunReturns ==
  /\ run = At("clock") /\ tempoCount <= 240
  /\ tempoCount' = (tempoCount + tempo) % 65536
  /\ run' = At(IF opening = None THEN "idle" ELSE "open")
  /\ UNCHANGED <<sseq, track, trackIds, beats, channel, tempo, opening, opens>>

\* GenerateSamples: the sample of a channel that does not loop ends.
IncrementSample(c) ==
  /\ run = At("idle")
  /\ channel[c].state # "none" /\ channel[c].moving /\ channel[c].kind = "pcm"
  /\ channel' = [channel EXCEPT ![c] = Killed]
  /\ UNCHANGED <<sseq, track, trackIds, beats, tempo, tempoCount, run, opening, opens>>

-----------------------------------------------------------------------------
(* Track::Run: the tracks take their turns, those that are opened on the   *)
(* way, too.  A track that waits or has ended only has its heartbeat; the  *)
(* others carry out commands until one makes them wait.                    *)

Ages(t) == [c \in Channels |->
              IF channel[c].trackId = t /\ channel[c].len > 0
              THEN [channel[c] EXCEPT !.age = @ + 1] ELSE channel[c]]

TrackTurn(i) ==
  LET t == trackIds[i]
  IN  /\ run = Turn(i) /\ i <= nTracks
      /\ beats' = beats \cup {t}
      /\ channel' = Ages(t)
      /\ track' = [track EXCEPT ![t].wait = IF ~track[t].end /\ @ > 0 THEN @ - 1 ELSE @]
      /\ run' = IF ~track[t].end /\ track[t].wait \in {0, 1} THEN Command(i) ELSE Turn(i + 1)
      /\ UNCHANGED <<sseq, trackIds, tempo, tempoCount, opening, opens>>

LastTurn ==
  /\ run.at = "turn" /\ run.i > nTracks
  /\ run' = At("clock")
  /\ UNCHANGED <<sseq, track, trackIds, beats, channel, tempo, tempoCount, opening, opens>>

\* The command of the track whose turn it is: the one put together by RANDOM
\* or FROMVAR, or else the one at pos.
Fetched(t) ==
  IF t.overriding # <<>> THEN t.overriding[1] ELSE Data[t.song][t.pos]

\* The track behind the command, which is read from the data only if no other
\* is put together.
Past(t) ==
  [t EXCEPT !.pos = IF t.overriding # <<>> THEN @ ELSE @ + 1, !.overriding = <<>>]

Due(i) == run = Command(i) /\ track[trackIds[i]].song # None

Reads(i, cmd) == Due(i) /\ Fetched(track[trackIds[i]]).cmd = cmd

\* The track would read its command from memory that was freed.
ReadsFreed(i) ==
  /\ run = Command(i) /\ track[trackIds[i]].song = None
  /\ run' = At("undefined")
  /\ UNCHANGED <<sseq, track, trackIds, beats, channel, tempo, tempoCount, opening, opens>>

\* The command at turn i leaves its track as new, which goes on with its
\* commands until one makes it wait or ends it.
Becomes(i, new) ==
  /\ track' = [track EXCEPT ![trackIds[i]] = new]
  /\ run' = IF new.wait = 0 /\ ~new.end THEN Command(i) ELSE Turn(i + 1)

player == <<sseq, trackIds, beats, tempo, tempoCount, opening, opens>>

Note(i) ==
  LET t == trackIds[i]
      op == Fetched(track[t])
  IN  /\ Reads(i, "note")
      /\ IF track[t].tie THEN NoteOnTie(t, op.kind) ELSE NoteOn(t, op.kind, op.n)
      /\ Becomes(i, [Past(track[t]) EXCEPT !.wait = IF track[t].notewait THEN Ticks(op.n) ELSE @])
      /\ UNCHANGED player

Tie(i) ==
  LET t == trackIds[i]
  IN  /\ Reads(i, "tie")
      /\ ReleaseAllNotes(t)
      /\ Becomes(i, [Past(track[t]) EXCEPT !.tie = Fetched(track[t]).on])
      /\ UNCHANGED player

\* OPENTRACK.  Nothing is opened when no track is free; a track that is free
\* goes behind the table when the table is full.
OpenTrack(i) ==
  LET t == trackIds[i]
      new == TrackAlloc
  IN  /\ Reads(i, "opentrack")
      /\ IF new = NoTrack
         THEN Becomes(i, Past(track[t])) /\ UNCHANGED <<trackIds, beats>>
         ELSE IF nTracks = FSS_TRACKCOUNT
         THEN run' = At("undefined") /\ UNCHANGED <<track, trackIds, beats>>
         ELSE /\ track' = [track EXCEPT ![t] = Past(@),
                                        ![new] = TrackInit(sseq, Fetched(track[t]).to)]
              /\ trackIds' = Append(trackIds, new)
              /\ beats' = beats \ {new}
              /\ UNCHANGED run
      /\ UNCHANGED <<sseq, channel, tempo, tempoCount, opening, opens>>

\* Commands that change nothing but their own track: what they make of the
\* track t, which is past the command op.
Full(t) == Len(t.stack) = FSS_TRACKSTACKSIZE
TopIs(t, type) == t.stack # <<>> /\ Last(t.stack).type = type

Call(t, op) ==
  IF Full(t) THEN t
  ELSE [t EXCEPT !.stack = Append(@, [type |-> "call", dest |-> t.pos]), !.pos = op.to]

Ret(t) ==
  IF TopIs(t, "call") THEN [t EXCEPT !.pos = Last(t.stack).dest, !.stack = Front(@)] ELSE t

\* asked and passes are for the properties: how often the body of the loop is
\* to be played and has begun, counted up to once too often.
LoopStart(t, op) ==
  LET count == op.n % 256    \* loopCount has 8 bits
  IN  IF Full(t) THEN t
      ELSE [t EXCEPT !.stack = Append(@, [type |-> "loop", dest |-> t.pos, loopCount |-> count,
                                          asked |-> count, passes |-> 1])]

Again_Uncounted(loop) ==
  [loop EXCEPT !.passes = IF loop.asked = 0 \/ @ > loop.asked THEN @ ELSE @ + 1]

Again(loop) ==
  [loop EXCEPT !.loopCount = IF @ = 0 THEN 0 ELSE @ - 1,
               !.passes = IF loop.asked = 0 \/ @ > loop.asked THEN @ ELSE @ + 1]

LoopEnd(t) ==
  LET loop == Last(t.stack)
  IN  IF ~TopIs(t, "loop") THEN t
      ELSE IF loop.loopCount = 1
      THEN [t EXCEPT !.stack = Front(@)]
      ELSE [t EXCEPT !.pos = loop.dest, !.stack[Len(t.stack)] = Again(loop)]

\* A condition that does not hold skips the next command, whatever its length.
If(t) == IF t.lastComparisonResult THEN t ELSE [t EXCEPT !.pos = @ + 1]

\* The rest of the commands set what a note will sound like.
After(t, op) ==
  CASE op.cmd = "rest"      -> {[t EXCEPT !.wait = Ticks(op.n)]}
    [] op.cmd = "goto"      -> {[t EXCEPT !.pos = op.to]}
    [] op.cmd = "call"      -> {Call(t, op)}
    [] op.cmd = "ret"       -> {Ret(t)}
    [] op.cmd = "loopstart" -> {LoopStart(t, op)}
    [] op.cmd = "loopend"   -> {LoopEnd(t)}
    [] op.cmd = "prio"      -> {[t EXCEPT !.prio = op.n]}
    [] op.cmd = "notewait"  -> {[t EXCEPT !.notewait = op.on]}
    [] op.cmd = "end"       -> {[t EXCEPT !.end = TRUE]}
    [] op.cmd = "random"    -> {[t EXCEPT !.overriding = <<[op.of EXCEPT !.n = n]>>] : n \in op.values}
    [] op.cmd = "compare"   -> {[t EXCEPT !.lastComparisonResult = b] : b \in BOOLEAN}
    [] op.cmd = "if"        -> {If(t)}
    [] OTHER                -> {t}

OwnTrack(i) ==
  LET t == trackIds[i]
      op == Fetched(track[t])
  IN  /\ Due(i) /\ op.cmd \notin {"note", "tie", "opentrack", "tempo"}
      /\ \E new \in After(Past(track[t]), op) : Becomes(i, new)
      /\ UNCHANGED channel /\ UNCHANGED player

Tempo(i) ==
  LET t == trackIds[i]
  IN  /\ Reads(i, "tempo")
      /\ tempo' = Fetched(track[t]).n
      /\ Becomes(i, Past(track[t]))
      /\ UNCHANGED <<sseq, trackIds, beats, channel, tempoCount, opening, opens>>

Track_Run ==
  \/ LastTurn
  \/ \E i \in 1 .. nTracks :
       \/ TrackTurn(i) \/ ReadsFreed(i)
       \/ Note(i) \/ Tie(i) \/ OpenTrack(i) \/ OwnTrack(i) \/ Tempo(i)

-----------------------------------------------------------------------------
(* The whole.  A new object has no track and opens its first file.         *)

Init ==
  /\ sseq = None /\ opening \in Songs /\ opens = 0
  /\ track = [t \in Tracks |-> Zero] /\ trackIds = <<>> /\ beats = {}
  /\ channel = [c \in Channels |-> Killed]
  /\ tempo = 0 /\ tempoCount = 0
  /\ run = At("open")

Running == openFile \/ Tick \/ RunReturns \/ Track_Run \/ (run = At("timer") /\ Timer)

Next ==
  \/ Running
  \/ run = At("idle") /\ Timer
  \/ setPosition
  \/ \E s \in Songs : Reopen(s)
  \/ \E c \in Channels : IncrementSample(c)

\* A call into the player goes on until it returns; the samples that bring
\* the next timer may stay away.
Spec == Init /\ [][Next]_vars /\ WF_vars(Running)

-----------------------------------------------------------------------------
(* Properties.                                                             *)

Commands(s) ==
  LET own == Range(Data[s])
  IN  own \cup UNION {{[op.of EXCEPT !.n = n] : n \in op.values} : op \in {o \in own : o.cmd = "random"}}

Entries == [type : {"call"}, dest : Nat]
             \cup [type : {"loop"}, dest : Nat, loopCount : Nat, asked : Nat, passes : Nat]

TrackStates ==
  [alloc : BOOLEAN, end : BOOLEAN, notewait : BOOLEAN, tie : BOOLEAN, prio : Nat,
   song : Songs \cup {None}, startPos : Nat, pos : Nat, stack : Seq(Entries),
   wait : Nat \cup {Endless}, overriding : Seq(Numbered), lastComparisonResult : BOOLEAN]

ChannelStates ==
  [state : Sounding \cup {"none"}, trackId : Tracks \cup {NoTrack}, prio : Nat,
   vol : 0 .. LoudestVol, noteLength : Nat \cup {Endless}, enable : BOOLEAN,
   kind : Kinds \cup {None}, moving : BOOLEAN, len : Nat \cup {Endless}, age : Nat]

Stages ==
  {At(p) : p \in {"open", "idle", "timer", "clock", "undefined"}}
    \cup {Turn(i) : i \in 1 .. nTracks + 1} \cup {Command(i) : i \in 1 .. nTracks}

\* The stack of Track.h:63 holds what is pushed on it, the table of Player.h:28
\* the tracks put into it, and tempoCount its 16 bits.
TypeOK ==
  /\ sseq \in Songs \cup {None} /\ opening \in Songs \cup {None} /\ opens \in 0 .. MaxOpens
  /\ track \in [Tracks -> TrackStates]
  /\ \A t \in Tracks : Len(track[t].stack) <= FSS_TRACKSTACKSIZE
  /\ trackIds \in Seq(Tracks) /\ nTracks <= FSS_TRACKCOUNT /\ beats \subseteq Tracks
  /\ channel \in [Channels -> ChannelStates]
  /\ tempo \in Nat /\ tempoCount \in Nat /\ tempoCount < 65536
  /\ run \in Stages

\* The table of tracks (Player.cpp:31-93, 131-146): its tracks are allocated,
\* once each, and read the song in memory.  Outside of it are the tracks that
\* opening a file loses, one for each file after the first.  When all of them
\* but one are lost no file is set up any more, and the track that is left
\* stands on a song that was freed until the next seek or file stops it.
TracksAccounted ==
  LET setUp == IF opens <= FSS_MAXTRACKS THEN opens ELSE FSS_MAXTRACKS
  IN  /\ \A i \in 1 .. nTracks :
           /\ track[trackIds[i]].alloc
           /\ \/ track[trackIds[i]].song = sseq
              \/ track[trackIds[i]].song = None /\ opens > FSS_MAXTRACKS
      /\ \A i, j \in 1 .. nTracks : trackIds[i] = trackIds[j] => i = j
      /\ Cardinality({t \in Tracks : track[t].alloc}) = nTracks + (IF opens = 0 THEN 0 ELSE setUp - 1)

\* What the player does is defined (Player.cpp:31-47, Track.cpp:528-537) as long
\* as one object opens no more files than there are tracks and no song more
\* tracks than the table has places.
DefinedWhileRoom ==
  run = At("undefined") => opens > FSS_MAXTRACKS \/ nTracks = FSS_TRACKCOUNT

\* A channel that sounds belongs to a track of the table (Player.cpp:72-93):
\* that track's heartbeat ends its note, and Stop finds it.
VoicesOwned ==
  \A c \in Channels : channel[c].state # "none" => channel[c].trackId \in Range(trackIds)

\* A track whose notes are tied holds one note at most (Track.cpp:226-263).
OneVoiceWhenTied ==
  \A t \in Tracks : track[t].tie =>
    \A c, d \in Channels :
      /\ channel[c].trackId = t /\ channel[c].state \in Unreleased
      /\ channel[d].trackId = t /\ channel[d].state \in Unreleased
      => c = d

\* A note loses a tick for each tick of its track (Channel.cpp:187-208), and
\* the tick in which it starts is not one of them: it is not cut short.  With
\* more than one tick in a timer it may be held for longer.
NotesLast ==
  \A c \in Channels :
    LET ch == channel[c]
        owed == ch.len - ch.age + (IF ch.trackId \in beats THEN 1 ELSE 0)
    IN  ch.state \in Held /\ ch.len > 0 =>
          /\ ch.noteLength >= owed
          /\ (\A op \in Commands(sseq) : op.cmd = "tempo" => op.n <= 240) => ch.noteLength = owed

\* A note takes the channel of its kind that matters least (Player.cpp:95-129):
\* none of them has a lower priority, or the same one and less volume, and its
\* own priority is not below that of the note it cuts off.
StealsLeast ==
  [][\A c \in Channels :
       LET old == channel[c]
           new == channel'[c]
       IN  new.state = "start" /\ (old.state # "start" \/ old.trackId # new.trackId) =>
             /\ old.prio <= new.prio
             /\ \A d \in Range(Orders[new.kind]) :
                  \/ old.prio < channel[d].prio
                  \/ old.prio = channel[d].prio /\ old.vol <= channel[d].vol]_vars

\* A loop that is left has been played as often as it asks (Track.cpp:609-629),
\* whatever calls and loops there are in it.
LoopsRepeat ==
  [][\A t \in Tracks :
       LET stack == track[t].stack
       IN  /\ run.at = "cmd" /\ stack # <<>> /\ track'[t].stack = Front(stack)
           /\ Last(stack).type = "loop"
           => Last(stack).passes = Last(stack).asked]_vars

\* Every call into the player returns (Track.cpp:496-812), for songs that rest
\* in their endless loops: the tracks have a last turn, and each turn a last
\* command.  What a call does that is undefined, nobody can say.
CallsReturn == []<>(run \in {At("idle"), At("undefined")})

=============================================================================
