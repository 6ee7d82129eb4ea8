# VGMPlayer: a verification project

VGMPlayer plays the music of video games.  One Objective-C class, `TKRPlayer`,
moves sound from an emulator to the speaker; seven small classes make seven
emulators look alike to it; a document-based application and a command line
program use it.  This directory holds TLA+ models of that code, the runs that
check them with TLC, and proofs checked with TLAPS.  Paths below are relative to
the repository; `TKRPlayer/` stands for `src/TKRPlayer/TKRPlayer/`.

## The system

| part | state it keeps | operations | talks to |
|---|---|---|---|
| Playback engine, `TKRPlayer/TKRPlayer.m` | the data source `_emu`, `_isPlaying`, `_player.isStopped`, `_isSeeking`, an AudioQueue and its `NUM_PLAYBACK_BUFFERS` buffers, the serial queue `_seekQueue` | `openFile:`, `close`, `play`, `pause`, `stop`, `setPosition:`, `setCurrentTrack:`, `isPlaying`, and the callback `AQCallbackFunction` | data source (calls, from three threads), AudioQueue (calls and callback), clients (notifications) |
| Seven data sources, `TKRPlayer/{GameMusicEmu,LazyUSF2,Vio2SF,SSEQPlayer,VioGSF,AOPSF,VGMStream}.m*` | the emulator, `_position`, length and tags, VioGSF a ring of rendered sound | `openFile:`, `playIntoBuffer:size:`, `position`, `setPosition:`, `setTrackNo:` | emulator cores, psflib, the DS sequencer |
| Track filter, `src/GME/GME/Track_Filter.cpp` | how far the emulator is ahead, how long it has been silent, a buffer | `start_track`, `play`, `skip` | GameMusicEmu by way of `Music_Emu.cpp`; the emulator |
| PSF loader, `src/PSFLib/PSFLib/psflib.c` | the tags read so far, the depth of nesting | `psf_load` | data sources, by two callbacks for the program and the tags |
| PSF2 file system, `src/PSFLib/PSFLib/psf2fs.c` | a list of sources, a tree of directories, one cached block | load callback, `psf2fs_virtual_readfile` | AOPSF |
| DS sequencer, `src/SSEQPlayer/SSEQPlayer/{Player,Track,Channel}.cpp` | 32 tracks, 16 channels, the call and loop stack of each track | `Setup`, `Stop`, `Timer`, `Run` | SSEQPlayer |
| DS archive readers, `src/SSEQPlayer/SSEQPlayer/{SDAT,SSEQ,SBNK,...}.cpp` | none | parse a file | SSEQPlayer |
| Document, `src/VGMPlayer/MiniVGMPlayer/Document.m` | a player, previous and next file, play button, playhead timer | read a URL, previous, next, play and pause, move the playhead, close | engine (calls, notifications) |
| Events, `VGMPlayerApplication.m`, `VGMPlayerWindow.m` | none | media keys, space bar | Document |
| Command line, `src/VGMPlayer/GameMusicEmu-ObjC/CLI.m` | none | open, play, wait until stopped | engine |
| Vendored emulators and decoders (`src/GME`, `src/LazyUSF2`, ...) | their own | render, seek, load | data sources |

What is hard here:

* Three threads, the main thread, the thread of the AudioQueue and `_seekQueue`,
  call into one emulator, and the code has not a single lock.  That they take
  turns rests on `stop` being synchronous, on flags read on one thread and
  written on another, and on what callers do not do.
* `play` is not one step: it sets flags, fills buffers by calling the callback
  itself, and only then starts the queue.  The end of a track may come in the
  middle of that.
* A seek is three pieces on two queues, with arbitrary calls between them.
* `isStopped` and the AudioQueue differ while the last buffers of a track play.
* Each data source keeps its own idea of the position beside the emulator's, in
  units of its own, and seeks by rendering sound nobody hears.
* A class is used again for the next file; whatever `openFile:` does not reset
  stays.
* GME ends a track when it falls silent, and lets the emulator run ahead of what
  is heard to know it early; positions, skips and silence are counted in three
  clocks that must agree.
* The DS sequencer shares 16 channels among up to 16 tracks, each with a small
  stack, and nothing bounds a song but what its commands do.
* A PSF file names libraries that name libraries; any of them may be missing,
  damaged or the file itself.

What makes each part correct:

* Engine: one thread at a time in the emulator; a buffer has one owner; no buffer
  is lost; what is heard has no gap; nothing disturbs a seek, and it comes back
  to playing; the last notification tells the truth, but for one case below; every
  call returns; a track that is left alone ends.
* Data sources: the position is the place of the next frame that is heard; a seek
  ends where it was sent, and ends; rendered sound is not dropped; a file that is
  opened leaves nothing of the one before.
* Track filter: what is heard is the song, nothing of it twice or moved, and nothing
  lost but a sample before a silence; a track ends for silence or at its end, and
  does end.
* Loaders: all of a song is loaded or it is refused; libraries are applied in the
  order `psflib.h` promises; each tag is told once, in order; recursion ends; a
  read gives the bytes of the file, and files are those of this song only.
* Sequencer: tracks and channels have an owner, stacks and tables keep within
  their bounds, notes and loops last as long as written, and a call returns.
* Document: the buttons match the player and the directory, the play button comes
  back after a seek, music goes on with the next file.

`PROJECT.json` lists every component, and under "hazards" every place in the
code where one of these could go wrong, with the property that would show it.

## Modules

| module | what it is |
|---|---|
| `TKRPlayer.tla` | the engine with its three threads, and the AudioQueue |
| `MCTKRPlayer.tla` | two classes and three files for TLC |
| `TKRPlayerProofs.tla` | theorems about the engine for all constants |
| `Player.tla` | what the engine promises its clients, without threads, buffers or position |
| `TKRPlayerPromise.tla` | the refinement: the engine's variables read as those of `Player` |
| `TKRPlayerPromiseProofs.tla` | the refinement, step by step, for all constants |
| `Document.tla`, `MCDocument.tla` | a document window as a client of `Player`; a directory for TLC |
| `DocumentProofs.tla` | theorems about the document for all directories and files |
| `DataSources.tla`, `MCDataSources.tla` | position, seeking, track change and reopening of the seven data sources; the set of all classes |
| `DataSourcesProofs.tla` | theorems about the data sources for all constants |
| `TrackFilter.tla`, `MCTrackFilter.tla` | the silence filter behind GameMusicEmu; five songs |
| `TrackFilterProofs.tla` | theorems about the filter for all songs and settings |
| `Sequencer.tla`, `MCSequencer.tla` | the DS sequencer behind SSEQPlayer; five songs |
| `SequencerProofs.tla` | theorems about the sequencer for all songs |
| `SequenceLemmas.tla` | facts about numbers and sequences that the proofs share |
| `PSFLoad.tla` | psflib: loading a file with its libraries and tags |
| `PSF2FS.tla` | the PSF2 file system: merging archives, reading in blocks |
| `PSF2.tla`, `MCPSF2.tla` | both composed as AOPSF uses them; eighteen files |
| `PSF2Proofs.tla` | theorems about the loader and the file system for all files and archives |

How they fit together:

    Document  --INSTANCE-->  Player  <--implements--  TKRPlayer
                                                         | data source protocol
                                                     DataSources
                                       /                 |              \
                                 TrackFilter         Sequencer     PSF2 = PSFLoad + PSF2FS
                                (GameMusicEmu)      (SSEQPlayer)        (AOPSF)

The engine and the sources meet at the data source protocol.  `TKRPlayer` sees a data source
as a position in chunks and needs two things of it: that calls do not overlap
(`EmuExclusive` is what the engine promises) and that a call returns and leaves
the position it was asked for (`MethodsReturn`, `SeekLands` and `PositionTrue`
are what the sources promise).  `DataSources` lets its methods follow one another
because of `EmuExclusive`, and so do the models of what is behind them.

### TKRPlayer

One action per method up to its first wait, and one per stretch between two
points where another thread can come in: entering the emulator, leaving it,
waiting in `AudioQueueStop`, dispatching a block.  `main`, `audio` and
`isSeeking` are the program counters of the three threads, with the arguments
the rest of the method still needs; `inside` is the set of threads inside a
method of the object `_emu` points to.

| code | model |
|---|---|
| `[self stop]` first in `openFile:`, `close`, `setPosition:` | `StopThen(rest)`, then `StopReturns` when `AudioQueueStop(queue, TRUE)` comes back; when `isStopped` is already set nothing is waited for, as in the code |
| `openFile:` | `openFile`, `OpenBegins` (same class, or a new object: the scan of `availablePlayers` has no `break`, the last one wins), `OpenEnds` or `OpenRefused` |
| `play` | `play`, `Rewound`, `Armed`, `FillBegins` and `FillEnds` per buffer, `Started` |
| `setPosition:` | `setPosition` (reads `_isPlaying`, then stops), `SeekDispatched`, `SeekBegins` and `SeekEnds` on `_seekQueue`, `SeekFinished` on the main queue |
| `AQCallbackFunction` | `BufferPlayed`, `CallbackBegins`, `CallbackEnds`, `TrackEnded` (the queue is stopped after the flag is set); the same code on the main thread is `FillBegins`, `FillEnds` |
| the getter `isPlaying` | `pollIsPlaying`: it writes |

The AudioQueue is not in the repository.  It is modelled from how `TKRPlayer.m`
uses it: a FIFO; a synchronous stop waits for the callback in flight and empties
the queue; an asynchronous stop plays what is queued (on a paused queue it may
or may not begin to drain, both are tried); a buffer that is queued is not
queued a second time, since the result of `AudioQueueEnqueueBuffer` is dropped.

Sound is counted in chunks of one buffer.  Left out: sample rate, number of
channels and size of the buffers, volume and speed, logging, and an `openFile:`
that fails in a class that had said it can play the file.  The getters `position`,
`trackLength` and the like call into the data source from the main thread, as the
timer of `Document.m` makes them do while music plays.  They do not move it and
are left out: `inside` does not count them, and `EmuExclusive` is about the
methods that do.

**The contract.**  The engine does not make its callers wait, and not every order
of calls works.  `Patient = TRUE` restricts clients to the calls under which it
does: `play` and `setCurrentTrack:` only while the audio thread is quiet and no
seek is outstanding (`MayRender`), `setPosition:` only when no seek is
outstanding and the queue is not running out at the end of a track (`MaySeek`),
`openFile:` and `close` not during a seek (`MayOpen`).  `stop`, `pause` and
`isPlaying` may be called at any time.  What the contract keeps away is therefore no
subject of the properties checked under it: a second seek, an opening or a
`play` during a seek.  This is an assumption on clients, not a
fact about them.  `Document.m` breaks it in several places: `goNext:` sets
`currentTrack` while music plays (line 263), the space bar and the media keys
reach `playPause:` while the button is disabled for a seek, and `goPrevious:`,
`goNext:` and `close` do not wait for a seek.  The model of the document is
therefore composed with the player for any client.  So the properties checked under
the contract are what the design needs, `player_anyone` says what is left
without it, and `player_overlap` and `player_play_in_seek` show
real calls that go wrong.

### Player and TKRPlayerPromise

`Player` is what a client may rely on: which song is on, whether it sounds, is
paused, stopped or has ended, that a seek is finished in its turn and that the
music then goes on if it was on, unless the seek went to the end.  Its liveness
(`Fairness`) is part of the promise: a seek that was asked for is finished.

`TKRPlayerPromise` instantiates it with state functions of the engine.  `song`
comes from `_emu`; `sound` is read from `_isPlaying` and `isStopped` together,
and the combination "playing" with "stopped" is the state "ended" that lasts
until somebody calls the getter; `seeks` is `_seekQueue`, and behind it the seek
that a `setPosition:` still waiting in its `stop` is about to dispatch;
`finished` is the main queue.  All steps of threads, buffers and notifications
stutter.  `KeepsPromise` is `Promised!Spec`, safety and fairness, and is checked
with `Patient` true and false, with the same value for both modules: under the
contract the engine implements the player of the contract.

### Document

The methods of `Document.m` with the space bar and the media keys.  A handler
that calls the player several times (`readFromURL:` stops, opens and plays) is
several steps, `doing` says which is next; the player's own steps come in
between, except those that need the main queue while a handler runs.  Variables
of the player are those of `Player`, which is instantiated with
`Patient <- FALSE`.

A file of several tracks is a trap in this code and in the model: on its last
track *next* is disabled although the directory goes on, and on its first
*previous* (`updatePrevNext` looks for neighbours only if `numTracks == 1`).
`ButtonsMatch` states the rule of the code with that exception.

Left out: playhead, timer, times, volume and speed; more than one document; a
file that fails to open and a directory that changes between `setFileURL:` and
the click, because what AppKit makes of the nil URL that results is not here.
`vgmStoppedPlaying:` runs on the audio thread when a track ends; what it writes is
only a picture on a button, and `NoticeMatches` of the engine is about its order.

### DataSources

The state is one object: its class, `_position`, where the emulator is in the
song (`song`), what VioGSF's ring holds (`ring`), and the method that runs
(`busy`).  A seek is a loop of actions, one per round, because what is in doubt
is where it ends and whether it ends.  The unit is a frame; AOPSF and VioGSF
count the distance in samples of both channels, VioGSF the ring in bytes, and
GameMusicEmu rounds to a millisecond, all as in the code.  Opening a file in an
object that is used again, and changing the track, include the `setPosition:0`
that `TKRPlayer.m` adds.  A seek of VGMStream is cut off at the end of the track (`Target`), and a file
that VGMStream opens may loop or not.  `Reported` is what the property
`position` answers, `Upcoming` is where the next frame that will be heard comes from.
`SeekLands` is said of the four classes that skip in frames: AOPSF and VioGSF,
which count otherwise, have a run each that shows it, and GameMusicEmu seeks in
one call.  A looping stream that is sent past the end of its loop has no such
place to be at, and the property leaves open where it ends.

External: a run of the GBA (`CPULoop`) writes any number of frames out of
`Bursts`; GME seeks to the millisecond it is given; vgmstream goes back to the
loop start when it has to render on from the loop end.

Left out: fading, silence detection, tags, lengths, and opens that fail.

### TrackFilter

A loud sample is the number of its place in the song, so that a lost, repeated
or moved one shows in `heard`.  `filter` has the members of `Track_Filter`; `buf`
holds the part not yet played.  `play` is `LookAhead`, then `Parts`, then
`Remaining`, in the order of the code; `skip`, `start_track` and `fill_buf` are
functions of the filter's state.

Two things the model has because the code has them.  `count_silence` overwrites
the first sample with a sentinel and returns the distance to the last loud sample
including it, so silence is counted one sample long, and one loud sample right at
the beginning of a stretch, be it alone or the last of several, is taken for
silence: `SoundIn` therefore asks for two loud samples in a row, and `InStep` for a
sample to be heard only if the next is loud.  And `start_track` clears `silence_time` after it has
looked for the first sound, so that the first buffer counts as played sound.

External: the emulator (`Sample`, `Made`, `Ran`).  Left out: fading and
`ignore_silence`, which this program does not use, and errors.  One was seen while
reading: `Music_Emu::skip_` mutes all voices and returns on an error before it
takes that back (Music_Emu.cpp:176-191).

### Sequencer

`Timer` advances the channels, `Tick` and `TrackTurn` start a tick and a track's
turn, and each command is a step; a song position is the number of a command.
`run` is the program counter of `Timer`.  A comparison comes out either way,
volume is one of three levels, an envelope stage ends or does not end at each
update: these are the data a song and its instruments decide.

What opening does is modelled as it is: the engine's `setPosition:0` stops and
sets up the old song, `openFile:` then frees it, sets up the new one without
stopping, and one track is allocated for good by each file opened in the same
object.  After `FSS_MAXTRACKS` (32) files no track is free: `Setup` returns false,
which nobody looks at, and the one track of the table still reads the song that was
freed (`Orphaned`: its `song` is `None`).  A seek or another file stops it and sets
it up again.  `TracksAccounted` says all of this.

A song is whatever `SongsWhole` admits: any commands, any jumps and any nesting, as
long as it does not run off its data, which the code would read on behind.  The
table `trackIds` has `FSS_TRACKCOUNT` places (16, Player.h:28), and neither
`Track.cpp:534` nor the format keeps a song from opening more tracks.

Two steps have no defined outcome: a command read from a song that was freed
(`ReadsFreed`), and a track put behind the table (`OpenTrack`).  The model stops
there, with `run` at "undefined", since what follows may be anything;
`DefinedWhileRoom` says that it gets there in no other way and not sooner.

Numbers that RANDOM and FROMVAR put into a command have 16 bits and a sign: a
length below 0 is counted down and never reaches 0 (`Endless`), the count of a
loop keeps its lowest 8 bits.  `prio` and `tempo` take their number from the data
whatever was put in, as in the code; songs that have RANDOM or FROMVAR before a
command without a number of its own (a jump, a call, an opened track) are left
out, because such a command is then read at the wrong place.

Left out: variables, pitch, pan, modulation, sweep, waveforms, muting.

### PSFLoad, PSF2FS and PSF2

The recursion of `psf_load_internal` is a stack of frames with a program counter
each; `result = "failing"` while -1 is handed up.  A file's bytes are replaced by what
the loader finds in them: whether the header and the program are sound, whether
the program is an executable (`psf_load_section` of version 1 looks at that), and
the lines of its tags.  Tags are a list that grows at its head and is handed out from
its tail, as in the code, with values that are joined (a name given twice) and
split (`fields_to_split`).

`PSF2FS` represents a tree of directories by the paths of its leaves, so that
"the tree stays a tree" is something to be checked (`Overlaid`), and reads in
blocks with a function over the bytes done so far.  The cache of one block never
holds anything: `from_source` is reset and never set.

`PSF2` is `openFile:` and `setPosition:` of AOPSF: probe the version, load again
with callbacks, start if all went well.  An opening that fails after the probe
leaves `_file` replaced, as in the code.  After a refused archive the lists of
the file system have been freed but are still pointed to, although psf2fs.c:312
says they are only modified on success: `freed` records that,
nothing can be read any more, and the model goes on as if a second free did
nothing.  `setPosition` is modelled for an emulator that was started, which the
code does not ask (AOPSF.m:210): the engine seeks only in a file that it has opened,
and what an object without a song does is left out with the other opens that fail.

Left out: white space and quoting of tag lines, the bytes of archives, deleting
the file system, memory that runs out, SSEQPlayer's and the other wrappers'
callbacks.

## What the runs check

| run | bounds | what it shows |
|---|---|---|
| `player_contract` | 3 files (one nobody plays), 2 classes, 2 tracks, 4 chunks, 3 buffers, 1 seek at a time, patient clients; 42,052 states | the safety and liveness of the engine under the contract, and that it implements the player |
| `player_anyone` | 2 files, 2 classes, 1 track, 2 chunks, 2 buffers, 1 seek, any client; 565,160 states | without the contract: no buffer is lost, every call returns, and the engine implements the player |
| `player_play_reports` | as `player_contract` | violated: `play` reports a start although the track ended in it |
| `player_overlap` | as `player_contract`, any client, no seek | violated: `setCurrentTrack:` meets the callback in the emulator |
| `player_play_in_seek` | as `player_overlap`, with a seek | violated: `play` renders while a seek moves the emulator |
| `sources_position` | 7 classes, song of 12 frames, loop 3 to 10, buffer 2, seek buffer 5, millisecond 3, ring of 32 bytes, bursts of 1 or 2 frames; 9,592 states | position, seeks and ring of the data sources |
| `document` | 5 files, one not playable and one of 3 tracks, 2 seeks at a time; 2,405 states | the buttons and the music of a document |
| `track_filter` | 5 songs, buffer of 4 samples, 4 starts and seeks, 90 samples played; 2,711 states | the silence filter |
| `sequencer` | 5 songs, 3 tracks, 3 channels in 2 kinds, stack of 3, table of 2, 5 files opened; 499,392 states | the DS sequencer |
| `psf2` | 18 files, depth 3, 3 openings or rewinds; 5,961 states | the PSF loader and file system under AOPSF |
| `sources_aopsf` | as above, AOPSF | violated: a seek goes twice as far as it says |
| `sources_viogsf` | as above, VioGSF | violated: a seek to frame 1 ends at frame 2, by the burst that the ring held |

Properties of the engine.  `EmuExclusive`, `BufferOwnership`, `BuffersCirculate`
and `Gapless` are about the sound, `NoticeMatches` about the play button,
`SeekUndisturbed` and `ResumesAfterSeek` about seeks, `EndReached` and
`MainReturns` about progress, `KeepsPromise` about all a client sees.  Of the data sources: `PositionTrue`, `SeekLands`,
`NothingDropped`, `MethodsReturn`.  Of the document:
`ButtonsMatch`, `ButtonReturns`, `PlaysOn`.  Of the filter: `TimesAgree` (its three
clocks), `InStep` (what is heard is the song), `EndsForAReason`, `TrackEnds`.  Of
the sequencer: `TracksAccounted` and `DefinedWhileRoom` at its limits,
`VoicesOwned`, `OneVoiceWhenTied`, `StealsLeast` for who has what, `NotesLast` and `LoopsRepeat` for how long, `CallsReturn`.  Of
the loader: `LoadsWhole` against a recursive reference definition of the order and
of what can be loaded, `FilesClosed`, `TagsInOrder`, `LoadReturns`; of the file
system `Overlaid` and `ReadsSlice`; of both, `FreshFiles`.  Each is stated in words above its definition,
and for each there is a plausible slip of the code, defined beside the actions,
under which it fails.

Why the bounds are enough.  A track is longer than the buffers together, so that
it may end in the first fill, while it plays, and between; two and three buffers
allow a callback, a queued buffer and one being filled at once.  Two classes are
needed for a file that keeps the object and one that replaces it, a third file
for one that is refused.  Two seeks at once add nothing under the contract, which
excludes them.  `MaxSeeks` bounds what a client that does not keep the contract may dispatch.
The songs of `DataSources` are longer than two seek buffers and than a quarter of
the ring, no size divides another, so that every loop runs several rounds and
ends in the middle.  `MaxPosition` bounds how long one plays without a seek and
where a seek may be sent, which is beyond the end of the track as well.

`MCDocument` has neighbours that must be passed over and a file of tracks in the
middle.  The songs of `MCTrackFilter` have silence at the beginning, in the middle,
at the end, throughout, and single loud samples, and no length that the buffer
divides; amounts to play are even, as stereo asks.  `MCSequencer` has more notes
than channels, nesting deeper than the stack, a loop count beyond 8 bits, a random
length below 0, a tied note whose channel another track takes, a tempo of two ticks in
a timer, and a song that opens tracks for ever; two files more are opened than there
are tracks.  `MCPSF2` has one file for each way to fail
and one that needs depth 3; what is read is any offset and length of each file.

Fairness.  `TKRPlayer`: weak for each of the threads and for the AudioQueue,
which the operating system schedules; strong for the blocks of the main queue,
because a client's calls can come between them and the run loop still gets to
them.  No call of a client is fair: nobody has to press a button.  `DataSources`:
weak for the rounds of a method that was called.  Bursts are not empty, an
emulated machine that has halted writes nothing, and then `playIntoBuffer:` of
VioGSF does not return.  The mutant of `MethodsReturn` is that machine.

`Document`: what `Player` promises, and the handlers that have begun.
`TrackFilter`: the AudioQueue goes on asking (`PlaysOn`, weak fairness of `Play`
with its enabling condition written out, since the choice of an amount is bounded
by `MaxTime`).  `Sequencer` and `PSF2`: a call that was made goes on.  Songs whose
loops never rest are excluded from `CallsReturn`, where the code itself does not
return.

Deadlock is checked in all runs but `document`, where closing the document is the
end, `psf2`, where the openings are bounded, and `sequencer`, which ends at
"undefined".

## What is proved

TLC looks at one small instance, a theorem holds for every value of the constants.
In each proofs module an inductive invariant comes first, then one lemma that
every step keeps it, with one step per action, then the theorems.

**The engine**, for every number of files, classes, tracks, buffers and seeks
(`TKRPlayerProofs.tla`):

* `TypeCorrect`: `Spec => []TypeOK`, for any client.  The inductive invariant is
  `BaseInv`: types, plus what a method in progress knows (a method inside the
  emulator has one, a method that is past `stop` finds the player stopped, a
  seek that runs is the head of its queue).
* Under `Patient`: `Exclusive`, `Owned` and `SeekAlone`, for `EmuExclusive`,
  `BufferOwnership` and `SeekUndisturbed`.
  `TurnInv` says whose turn it is: `inside` is exactly the threads whose program
  counter is in the emulator, at most one seek is outstanding, and while one is the
  player is stopped and the main thread at rest; the main thread renders or
  changes the track only while the AudioQueue is stopped or paused with no
  callback in flight, and opens a file only where `isStopped` keeps the callback
  out.  `EmuExclusive` alone is not inductive: that
  nobody enters next depends on why the AudioQueue is quiet.  `BufferInv`
  says that while `fillBuffers` runs exactly the buffers before the one it is at
  are queued, and that it starts with an empty queue.
* `Circulate`: `BuffersCirculate`, for any client.  `HandedInv` counts what
  `fillBuffers` has handed out so far with what the callback holds.
* Under `Patient`: `Notices`, for `NoticeMatches`.  `NoticeInv` adds to it what is on
  its way: a sound about to start, a stop or an end about to be told.  The property
  asks for a player that plays whenever the last word was Started, with one
  exception that it names: `StartedOnEnd`, a `play` that met the end of the track in
  its buffers and started the queue all the same.  The button shows Pause then and
  nothing more is rendered, until somebody stops or plays; the run `player_play_reports` is
  about that `play`.
* Under `Patient`: `NoGap`, for `Gapless`.  `GaplessInv` says that the queue is one
  `Stretch` of the song, each chunk the one after the chunk before it, and that
  the data source stands behind the last; a thread that renders is inside the
  source it began with.  `Gapless` alone says nothing about where the source stands.

**The refinement** (`TKRPlayerPromiseProofs.tla`): `Implements`, for any client and
for patient ones: the engine starts where `Player` starts, and each of its steps
is a step of `Player` or a stutter.  `SilentInv` (a method that has called `stop`
has the sound off) is what any client can rely on; `HeardInv` (what is said to
sound has a queue that runs, or is about to) is needed where `Player` asks that
its client is patient.  `NoSongAssumption` keeps "no song" apart from songs.

**The data sources**, for every song, loop, buffer, millisecond and ring
(`DataSourcesProofs.tla`):

* `SourcesTyped`: `Spec => []TypeOK`, which is left to the proof.
* `PositionIsTrue` and `SeeksLand`.  The inductive invariant `PlaceInv` says what
  holds in the middle of a seek: the place where the song is and the distance
  left add up to the place asked for, and a file is opened only after a seek to
  its beginning.  For a looping stream the sum is kept only while the place
  asked for is not behind the loop; a stream is nowhere past its end (`LoopInv`).
* `RingNeverFull`: `NothingDropped`, from `RingInv`, which bounds what a method
  finds in the ring by one burst and what it asks for by a burst more than a
  quarter.  It rests on `RingAssumption`: two bursts fit on top of a buffer or
  of a quarter.  In the code a
  run of 1,000,000 cycles is 0.06 s of sound, about 10 KB, a buffer is 0.1 s, about
  17 KB, and the ring has 64 KB.  A buffer larger than the ring would break it.

**The sequencer**, for every set of songs, every number of tracks and channels and
every depth of the stack and place in the table, and any number of files opened
(`SequencerProofs.tla`).

* `TypeCorrect`, `Accounts` and `Owned`, for `TypeOK`, `TracksAccounted` and
  `VoicesOwned`, are proved together: a command reaches its track by way of the
  table and a channel reaches its own by number, so none of the three is
  inductive without the others.  `BaseInv` adds to them that each track of the table
  that reads the song in memory stands on a command of it, with its stack returning
  to commands (`Whole`), that an opening that is under way has been stopped first,
  and that a track whose command is due has not ended.  How many tracks are lost is
  a number that stops growing (`Lost`): the file that finds no track loses none.
* `Defined`, for `DefinedWhileRoom`: of all steps only a command of a song that was
  freed and a track for a full table lead to "undefined", and `TracksAccounted`
  says when there is such a song.
* `Repeats`, an action property, for `LoopsRepeat`: the passes a loop has had and
  those it has left add up to those it asks for.
* `OneVoice`, for `OneVoiceWhenTied`.
* `Steals`, an action property, for `StealsLeast`: the fold of `ChannelAlloc` keeps
  after m channels one that none of these m is below (`AllocLeast`), and no step
  but a note takes a channel (`OthersTakeNone`).
* `NotesPaid`, for `NotesLast`.  Two invariants: `TimingInv`, for songs whose tempo
  gives a timer one tick at most, says that a note that has just started is of a
  track that has had its turn in this tick, and that no channel is new when a
  tick begins; `NotesInv` says what a note owes before and after the heartbeat
  of its track.  Both are far from visible in `NotesLast`, which is about updates
  of channels alone.

**The loader and its file system**, for every set of files, every depth and every
archive (`PSF2Proofs.tla`):

* `TypeCorrect` and `Closes`, for `PSFTypeOK` and `FilesClosed`.  `LoadInv` says that
  each call but the innermost is in the middle of a library, and that `depth`
  counts the calls that are past their first check, on the way up as well.
* `LoadsAll`, for `LoadsWhole`: what `psf_load` says of a song is right, and what it
  has handed over is in the order of the reference definition `Programs`, for files that
  name each other in any way.  `Loadable` and `Programs` look at a song from
  above, the stack from within.  `WholeInv` joins them: while all goes well, each
  call but the innermost waits for a library that counts and has all it needed
  before (`Waits`, `Served`), the innermost has what its place in the code needs
  (`Works`), and what has been given is, call by call, the part each has given before
  it began to wait (`Bases`, `WaitGave`, `WorkGave`).  When a call has failed,
  the file of the innermost cannot be loaded with the levels that are left, and
  so none of those around it can (`Failed`).  That the two recursive definitions
  are what their bodies say, level by level, is `ProgramsAre` and `Verdicts`.
* `TellsTags`, for `TagsInOrder`.  First, of the list alone, `ProcessTags`: however
  values are split and joined, the list read from its tail says of each name
  what the lines say, in their order (`ListSays`); one line more adds its parts at
  the end of what its name has said, be it to the tag nearest to the head or as a new
  one (`LineAdds`).  Then `TagsInv`, over all files: a file has a place for each time
  it was loaded and for each call on the way there (`PlacesIn`); without a place it has told
  nothing, with one it has told its tags once.  `Tags` makes a place,
  `LoadTarget` moves one, no other step changes any.
* `Overlays`, for `Overlaid`, from `FSInv`, which says the same of the lists while
  they change.
* `ReadsRight`, for `ReadsSlice`: from any number of bytes done on, a read gives the
  rest of what was asked for, counted down from the end; and the blocks
  it reads, where one may be damaged, are those that have a byte of it
  (`BlocksBetween`, `ReadGives`).
* `Fresh`, for `FreshFiles`, follows from `LoadsAll`: `FreshInv` says that what has
  been handed to the file system is what has been loaded of this song.
* `PSFAssumption` says that a line of tags has at least one part: empty values are
  passed over (psflib.c:263, 346) and splitting leaves a first part.
  `ArchivesAssumption` says that an archive is a tree itself and that only an empty
  file has blocks of size 0: `makearchivedir` takes an entry without a block size
  for an empty file (psf2fs.c:205).

**The track filter**, for every set of songs, with and without an end, and every size
of buffer, look-ahead and limit of silence (`TrackFilterProofs.tla`):

* `CountsAgree`, `PlaysTheSong` and `EndsRightly`, for `TimesAgree`, `InStep` and
  `EndsForAReason`, all from `FilterInv`.  It has two cases.  While the track plays
  (`Ahead`), the emulator is ahead by exactly the silence counted and the buffer
  left, the buffer holds the samples due after that silence, and the silence counted
  is silence in the song.  When it has ended (`Ended`), either more than
  `max_silence` of silence was seen or the song is over.  None of the three is
  inductive: they speak of amounts and of what has been played, not of what the buffer
  holds.
* `count_silence` takes a sound before a silence for silence, which is harmless only
  while a buffer and what is asked for are whole frames: an odd amount would cut a pair of
  sounds in two.  The assumption says so, as `Music_Emu::play` requires it
  (Music_Emu.cpp:230), `msec_to_samples` multiplies by `stereo` and `buf_size`
  is 2048.
* A search for sound is a number of rounds of `fill_buf`.  What they keep is shown
  by the least round that would break it, and that there are enough of them from the
  buffer each round adds.

**The document**, for every directory and every file (`DocumentProofs.tla`):

* `ButtonsRight`, for `ButtonsMatch`.  `DocumentInv` says it of every song that could
  be on, whatever handler is under way.
* `Calls`: each step of the document is a step of `Player` or leaves its variables
  alone.  With `Implements` this joins the document and the engine.

Assumptions of the proofs are the ones named in the modules, `ConstantsAssumption`,
`NoEmuAssumption`, `NoSongAssumption`, `RingAssumption`, `SongsAssumption`, `SongsWhole`,
`PSFAssumption`, `ArchivesAssumption`, `TrackFilterAssumption`, `DocumentAssumption`,
which TLC evaluates in the passing runs, and `Patient` where it is named.

**Only model-checked:**

* What must happen some time, which is out of the prover's reach (fairness and
  ENABLED): `ResumesAfterSeek`, `EndReached`, `MainReturns`, `MethodsReturn`,
  `ButtonReturns`, `PlaysOn`, `TrackEnds`, `CallsReturn`, `LoadReturns`, and the
  liveness of `KeepsPromise`.

Every other property of a passing run is a theorem, for every value of the constants.

**How folds and recursive functions are proved.**  The library's induction theorems
take the statement as a parameter, which no prover here can instantiate.
`SequenceLemmas` has a form for sets of numbers instead: `LeastExists` and, from it,
`CountingUp`.  A recursive function is a CHOOSE, and means nothing until some
function is known to satisfy its equation: `RecursionExists` builds one
for each length, and what the function computes is then shown by counting up.
`FlattenIs` does this for `FlattenSeq` of the community modules, which is a fold;
what it makes of two halves, of one more and of singles follows.

## Findings

* `play` returns true and posts `VGMStartedPlaying` when the track ended while
  the buffers were filled; the player is stopped then.
* `setCurrentTrack:` calls into the emulator on the main thread while the
  callback renders from it.
* `play` between the dispatch of a seek and its block renders from the emulator that
  the seek is about to move, for `_isSeeking` is not yet set.
* AOPSF's `setPosition:` counts twice: the generator takes frames.
* VioGSF's `setPosition:` mixes samples with bytes and clears the whole ring.

Seen while modelling, and in the models as it is, with no run of its own:

* `stop` keeps the position, the header says it is "set back to beginning"
  (TKRPlayer.h:82).
* An archive that `addarchive` refuses frees the lists of those before it and leaves
  the pointers to them (psf2fs.c:349-356), although "only modifies *psource and
  *pdir on success" is written above it.
* Each file opened in one SSEQPlayer object after the first takes a track for
  good, and when none is left the last one reads a song that was freed
  (`TracksAccounted`, `DefinedWhileRoom`).
* `count_silence` counts one sample too many and hides a loud one before a silence.
* In a file of several tracks, *previous* on the first and *next* on the last are
  disabled although there are other files (Document.m:132, 138).
* `Music_Emu::skip_` leaves the voices muted after an error.

## Not modelled

* The emulator cores and decoders.  Most of this repository's 240,000 lines of
  C and C++ are vendored emulators (a recompiler for the N64, interpreters for ARM
  and MIPS, sound chips) and decoders of some two hundred stream formats, tables
  and generated code among them.  They are numeric, have no protocol of their own
  with this program, and are seen only through what the wrappers call.  The map
  therefore covers a small share of the repository, and nearly all of the code
  written for this program that has state.
* What the seven wrappers keep of tags and lengths, and opens that fail outside of
  AOPSF: they leave null pointers and uninitialized memory, on which the next call
  crashes, rather than a state that goes on.
* The AudioQueue's format and buffer size, which stay those of the first file:
  sound is counted in chunks of one buffer.
* The sections that `load_twosf_map` and `gsfLoader` lay over each other.
* The archive readers of the DS sequencer (stateless parsing), the empty start-up
  code, the Swift application (a template that plays nothing), the empty user
  interface tests, and the command line player, which opens, plays and waits for
  `isStopped`: that its wait ends is `EndReached`.

## The plan

The plan of this project has been carried out: the core first (the engine, its
promise and the refinement between them), then the document, the data sources, the
track filter, the sequencer and the loader with its file system, each with its runs and
its proofs.  What would come next:

* the hazards without a property, which need the wrappers' handling of tags, lengths
  and failed opens, and an AudioQueue whose format can differ from the file's;
* the other users of the loader, `load_twosf_map` and `gsfLoader`, which lay
  sections of memory over each other as `PSF2FS` lays archives;
* a proof system with fairness, for the properties listed above as only model-checked.
