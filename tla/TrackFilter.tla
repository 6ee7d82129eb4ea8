----------------------------- MODULE TrackFilter -----------------------------
(***************************************************************************)
(* Track_Filter (src/GME/GME/Track_Filter.cpp) between an emulator of      *)
(* Game_Music_Emu and its player: it drops the silence a track begins with *)
(* and ends a track that has fallen silent.  To know that early it lets    *)
(* the emulator run ahead of what is played during a silence.              *)
(*                                                                         *)
(* The emulator is external: it gives the samples of a song, one after the *)
(* other, and says when the song has ended.  Fading is left out, and so is *)
(* ignore_silence: the program uses neither.                               *)
(*                                                                         *)
(* A loud sample is the number of its place in the song, a silent one is   *)
(* Silent, so that a sample that is lost, repeated or moved shows.         *)
(***************************************************************************)
EXTENDS Integers, Sequences

CONSTANTS
  Songs,        \* tracks
  Sound,        \* Sound[s]: which samples of song s are loud
  Loops,        \* songs that begin again at their end, which thus never comes
  buf_size,
  max_initial,  \* silence to drop at the beginning
  max_silence,  \* silence to play in the middle
  lookahead,
  Counts,       \* numbers of samples that are asked for at a time
  Targets,      \* places to seek to
  MaxTime,      \* bound on the time played
  MaxSeeks      \* bound on the seeks and starts

Silent == 0
stereo == 2   \* samples of a frame, Music_Emu.cpp:18
None == "none"

\* The buffer holds whole frames (Track_Filter.h:99), as do all counts: those
\* asked for (Music_Emu.cpp:230) and those skipped (Music_Emu.cpp:139-143, 153-163).
ASSUME TrackFilterAssumption ==
  /\ None \notin Songs /\ Loops \subseteq Songs
  /\ \A s \in Songs : Sound[s] \in Seq(BOOLEAN) /\ Sound[s] # <<>>
  /\ buf_size \in Nat \ {0} /\ buf_size % stereo = 0 /\ lookahead \in Nat \ {0}
  /\ \A n \in Counts \cup Targets : n % stereo = 0
  /\ max_initial \in Nat /\ max_silence \in Nat /\ max_silence >= buf_size
  /\ Counts \subseteq Nat \ {0} /\ Targets \subseteq Nat /\ MaxTime \in Nat /\ MaxSeeks \in Nat

VARIABLES
  song,    \* the track that was started
  filter,  \* the members of Track_Filter; buf is the end of the buffer that
           \* has not been played, buf_remain samples, and src how many samples
           \* the emulator has made
  trim,    \* for the properties: samples of the song that were dropped
  heard,   \* for the properties: the samples of the last play, and from which
           \* time on
  seeks

vars == <<song, filter, trim, heard, seeks>>

-----------------------------------------------------------------------------
(* The emulator.                                                           *)

Finish(s) == Len(Sound[s])

Sample(s, place) ==
  IF (s \in Loops \/ place < Finish(s)) /\ Sound[s][(place % Finish(s)) + 1] THEN place + 1 ELSE Silent

\* play_ and skip_: they set emu_track_ended_ when they come to the end.
Made(s, f, count) == [i \in 1 .. count |-> Sample(s, f.src + i - 1)]

Ran(s, f, count) ==
  [f EXCEPT !.src = @ + count,
            !.emu_track_ended = @ \/ (s \notin Loops /\ f.src + count >= Finish(s))]

-----------------------------------------------------------------------------
(* Silence.                                                                *)

LesserOf(a, b) == IF a < b THEN a ELSE b

\* count_silence: the samples from the last loud one on, which counts as well.
\* The first one is a sentinel: it stops the search, whatever it is.
count_silence(samples) ==
  LET stops == {1} \cup {i \in 2 .. Len(samples) : samples[i] # Silent}
  IN  Len(samples) - (CHOOSE i \in stops : \A j \in stops : j <= i) + 1

\* emu_play: the emulator after it, and what it has made.
emu_play(s, f, count) ==
  [f EXCEPT !.emu_time = @ + count,
            !.src = IF f.emu_track_ended THEN @ ELSE @ + count,
            !.emu_track_ended = Ran(s, f, count).emu_track_ended]

Rendered(s, f, count) ==
  IF f.emu_track_ended THEN [i \in 1 .. count |-> Silent] ELSE Made(s, f, count)

\* fill_buf
fill_buf(s, f) ==
  LET samples == Made(s, f, buf_size)
      silence == count_silence(samples)
      g == emu_play(s, f, buf_size)
  IN  IF f.emu_track_ended
      THEN [f EXCEPT !.silence_count = @ + buf_size]
      ELSE IF silence < buf_size
      THEN [g EXCEPT !.silence_time = g.emu_time - silence, !.buf = samples]
      ELSE [g EXCEPT !.silence_count = @ + buf_size]

\* fill_buf until the emulator is at time, a buffer with sound is found or the
\* song ends: every time takes it buf_size further.
FillMore(s, f, time) ==
  IF f.emu_time < time /\ f.buf = <<>> /\ ~f.emu_track_ended THEN fill_buf(s, f) ELSE f

Rounds(f, time) == IF time > f.emu_time THEN (time - f.emu_time) \div buf_size + 1 ELSE 0

FillUntil(s, f, time) ==
  LET filled[i \in 0 .. Rounds(f, time)] == IF i = 0 THEN f ELSE FillMore(s, filled[i - 1], time)
  IN  filled[Rounds(f, time)]

-----------------------------------------------------------------------------
(* The methods of Track_Filter.                                            *)

Stopped ==
  [src |-> 0, out_time |-> 0, emu_time |-> 0, silence_time |-> 0, silence_count |-> 0,
   buf |-> <<>>, emu_track_ended |-> TRUE, track_ended |-> TRUE]

start_track(s) ==
  LET f == FillUntil(s, [Stopped EXCEPT !.emu_track_ended = FALSE, !.track_ended = FALSE], max_initial)
  IN  [f EXCEPT !.emu_time = Len(f.buf), !.silence_time = 0, !.silence_count = 0]

\* Slip: silence_time is not brought up to date.
skip_Silence(s, f, count) ==
  LET quiet == LesserOf(count, f.silence_count)
      ready == LesserOf(count - quiet, Len(f.buf))
      rest == count - quiet - ready
      g == [f EXCEPT !.out_time = @ + count, !.silence_count = @ - quiet,
                     !.buf = SubSeq(@, ready + 1, Len(@))]
      h == IF rest > 0 /\ ~g.emu_track_ended
           THEN [Ran(s, g, rest) EXCEPT !.emu_time = @ + rest] ELSE g
  IN  [h EXCEPT !.track_ended = @ \/ (h.silence_count = 0 /\ h.buf = <<>> /\ h.emu_track_ended)]

\* Slip: only the buffer is used up first, not the silence before it.
skip_Buffer(s, f, count) ==
  LET ready == LesserOf(count, Len(f.buf))
      rest == count - ready
      g == [f EXCEPT !.out_time = @ + count, !.buf = SubSeq(@, ready + 1, Len(@))]
      h == IF rest > 0 /\ ~g.emu_track_ended
           THEN [Ran(s, g, rest) EXCEPT !.emu_time = @ + rest, !.silence_time = g.emu_time + rest] ELSE g
  IN  [h EXCEPT !.track_ended = @ \/ (h.silence_count = 0 /\ h.buf = <<>> /\ h.emu_track_ended)]

\* skip: over the silence and the buffer there are, then with the emulator.
skip(s, f, count) ==
  LET quiet == LesserOf(count, f.silence_count)
      ready == LesserOf(count - quiet, Len(f.buf))
      rest == count - quiet - ready
      g == [f EXCEPT !.out_time = @ + count, !.silence_count = @ - quiet,
                     !.buf = SubSeq(@, ready + 1, Len(@))]
      h == IF rest > 0 /\ ~g.emu_track_ended
           THEN [Ran(s, g, rest) EXCEPT !.emu_time = @ + rest, !.silence_time = g.emu_time + rest]
           ELSE g
  IN  [h EXCEPT !.track_ended = @ \/ (h.silence_count = 0 /\ h.buf = <<>> /\ h.emu_track_ended)]

\* play, first part: during a silence the emulator gets ahead, and the track
\* ends when there is too much of it.
LookAhead(s, f, count) ==
  LET time == lookahead * (f.out_time + count - f.silence_time) + f.silence_time
      g == FillUntil(s, f, time)
  IN  IF f.silence_count = 0 THEN f
      ELSE IF g.emu_time - g.silence_time > max_silence
      THEN [g EXCEPT !.track_ended = TRUE, !.emu_track_ended = TRUE, !.silence_count = count, !.buf = <<>>]
      ELSE g

\* Slip: the buffer is read from its beginning.
FromBuffer_Again(s, f, n) ==
  LET at == f.emu_time - buf_size + trim
  IN  [i \in 1 .. n |-> Sample(s, at + i - 1)]

FromBuffer(s, f, n) == SubSeq(f.buf, 1, n)

\* Slip: the end of the song is found, but not told.
Remaining_Silent(s, f, remain) ==
  LET samples == Rendered(s, f, remain)
      silence == count_silence(samples)
      g == emu_play(s, f, remain)
      h == [g EXCEPT !.silence_time = g.emu_time - silence]
  IN  IF remain = 0 THEN f ELSE h

\* play, last part: what silence and buffer do not give, the emulator makes,
\* and a silence that has lasted is looked into.
Remaining(s, f, remain) ==
  LET samples == Rendered(s, f, remain)
      silence == count_silence(samples)
      g == emu_play(s, f, remain)
      h == [g EXCEPT !.track_ended = @ \/ g.emu_track_ended,
                     !.silence_time = IF silence < remain THEN g.emu_time - silence ELSE @]
  IN  IF remain = 0 THEN f
      ELSE IF h.emu_time - h.silence_time >= buf_size THEN fill_buf(s, h) ELSE h

\* play
Parts(s, f, count) ==
  LET g == LookAhead(s, f, count)
      quiet == LesserOf(g.silence_count, count)
      ready == LesserOf(Len(g.buf), count - quiet)
  IN  [f |-> [g EXCEPT !.silence_count = @ - quiet, !.buf = SubSeq(@, ready + 1, Len(@))],
       out |-> [i \in 1 .. quiet |-> Silent] \o FromBuffer(s, g, ready),
       remain |-> count - quiet - ready]

Played(s, f, count) ==
  LET parts == Parts(s, f, count)
  IN  [Remaining(s, parts.f, parts.remain) EXCEPT !.out_time = @ + count]

PlayedOut(s, f, count) ==
  LET parts == Parts(s, f, count)
  IN  parts.out \o Rendered(s, parts.f, parts.remain)

-----------------------------------------------------------------------------
(* Music_Emu and GameMusicEmu.                                             *)

Nothing == [from |-> 0, samples |-> <<>>]

Init ==
  /\ song = None /\ filter = Stopped
  /\ trim = 0 /\ heard = Nothing /\ seeks = 0

Dropped(f) == f.src - Len(f.buf)

\* start_track, when a file is opened or another track is chosen.
StartTrack(s) ==
  /\ seeks < MaxSeeks /\ seeks' = seeks + 1
  /\ song' = s /\ filter' = start_track(s)
  /\ trim' = Dropped(filter') /\ heard' = Nothing

\* seek: a place that has been played is reached from the beginning.
Seek(time) ==
  /\ song # None /\ seeks < MaxSeeks /\ seeks' = seeks + 1
  /\ LET f == IF time < filter.out_time THEN start_track(song) ELSE filter
     IN  filter' = skip(song, f, time - f.out_time)
  /\ trim' = IF time < filter.out_time THEN Dropped(start_track(song)) ELSE trim
  /\ heard' = Nothing /\ UNCHANGED song

\* playIntoBuffer: asks no more of a track that has ended.
Play(count) ==
  /\ ~filter.track_ended /\ filter.out_time + count <= MaxTime
  /\ filter' = Played(song, filter, count)
  /\ heard' = [from |-> filter.out_time, samples |-> PlayedOut(song, filter, count)]
  /\ UNCHANGED <<song, trim, seeks>>

Next ==
  \/ \E s \in Songs : StartTrack(s)
  \/ \E time \in Targets : Seek(time)
  \/ \E count \in Counts : Play(count)

\* The AudioQueue goes on asking for samples: weak fairness of Play, with what
\* enables it written out.
MayPlay == ~filter.track_ended /\ \E count \in Counts : filter.out_time + count <= MaxTime

PlaysOn == []<>~MayPlay \/ []<><<\E count \in Counts : Play(count)>>_vars

Spec == Init /\ [][Next]_vars /\ PlaysOn

-----------------------------------------------------------------------------
(* Properties.                                                             *)

LoudAt(time) == IF song = None THEN Silent ELSE Sample(song, trim + time)

\* A loud sample between silent ones can be taken for silence: if the sentinel
\* of count_silence hides it.  Two in a row cannot.
SoundIn(from, to) == \E time \in from .. to - 2 : LoudAt(time) # Silent /\ LoudAt(time + 1) # Silent

\* The counters mean what their names say (Track_Filter.h:82-98), and play's
\* assertion that the emulator is not behind holds.  As long as the emulator
\* runs, what it is ahead by is the silence and the buffer to be played.
TimesAgree ==
  /\ filter.silence_count >= 0 /\ filter.silence_time <= filter.emu_time
  /\ Len(filter.buf) <= buf_size
  /\ ~filter.track_ended => filter.emu_time >= filter.out_time
  /\ ~filter.emu_track_ended =>
       /\ filter.emu_time - filter.out_time = filter.silence_count + Len(filter.buf)
       /\ filter.src = trim + filter.emu_time

\* What is heard is the song (Track_Filter.cpp:214-292): wherever the emulator
\* was ahead and whatever was skipped, no sound is lost, repeated or moved, but
\* that a loud sample with a silent one behind it may be heard as silence.
InStep ==
  \A i \in 1 .. Len(heard.samples) :
    LET time == heard.from + i - 1
    IN  /\ heard.samples[i] \in {LoudAt(time), Silent}
        /\ LoudAt(time + 1) # Silent => heard.samples[i] = LoudAt(time)

\* What counts as silence begins behind the last loud sample; the first buffer
\* is not part of it, for start_track clears silence_time.
SilentSince == IF filter.silence_time = 0 THEN buf_size ELSE filter.silence_time + 1

\* No sound is in what was dropped from the beginning, nor in what counts as
\* silence (Track_Filter.cpp:57-87, 185-247); a track ends only for a silence that
\* has lasted longer than max_silence, or at the end of its song with all its
\* sound played.
EndsForAReason ==
  song # None =>
    /\ trim <= max_initial + buf_size /\ ~SoundIn(-trim, 0)
    /\ ~SoundIn(SilentSince, filter.emu_time)
    /\ filter.track_ended =>
         \/ filter.emu_time - filter.silence_time > max_silence
         \/ song \notin Loops /\ ~SoundIn(filter.out_time, Finish(song) - trim)

\* A song with an end, or one that is silent for ever, does not play for ever:
\* when nobody seeks any more, play (Track_Filter.cpp:230-293) comes to tell it.
FallsSilent(s) == s \notin Loops \/ \A i \in 1 .. Finish(s) : ~Sound[s][i]
TrackEnds == (song # None /\ FallsSilent(song) /\ seeks = MaxSeeks) ~> filter.track_ended

=============================================================================
