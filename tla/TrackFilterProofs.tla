-------------------------- MODULE TrackFilterProofs --------------------------
(***************************************************************************)
(* The silence filter loses nothing: theorems for every set of songs, with *)
(* and without an end, and every setting of the filter.                    *)
(***************************************************************************)
EXTENDS TrackFilter, SequenceLemmas

\* The settings with the size of a frame put in.
LEMMA Settings ==
  /\ buf_size \in Nat /\ buf_size >= 2 /\ buf_size % 2 = 0 /\ lookahead \in Nat /\ lookahead >= 1
  /\ max_initial \in Nat /\ max_silence \in Nat /\ max_silence >= buf_size
  /\ Counts \subseteq Nat /\ Targets \subseteq Nat
  /\ \A n \in Counts : n >= 2 /\ n % 2 = 0
  /\ \A n \in Targets : n % 2 = 0
BY TrackFilterAssumption DEF stereo

-----------------------------------------------------------------------------
(* FillUntil is a number of rounds of FillMore.                             *)

Filling(g, s, f, time, n) ==
  g = [i \in 0 .. n |-> IF i = 0 THEN f ELSE FillMore(s, g[i - 1], time)]

\* FillUntil's recursive function exists: the least length for which it would not
\* is one more than a length for which it does.
LEMMA FillingExists ==
  ASSUME NEW s, NEW f, NEW time, NEW n \in Nat
  PROVE  \E g : Filling(g, s, f, time, n)
<1> DEFINE S == {m \in Nat : ~ \E g : Filling(g, s, f, time, m)}
<1>1. SUFFICES ASSUME S # {} PROVE FALSE
  OBVIOUS
<1>2. PICK m \in S : \A u \in S : m <= u
  <2> HIDE DEF S
  <2>1. S \in SUBSET Nat
    BY DEF S
  <2> QED
    BY <1>1, <2>1, LeastExists
<1>3. CASE m = 0
  <2>1. Filling([i \in 0 .. 0 |-> f], s, f, time, 0)
    BY DEF Filling
  <2> QED
    BY <1>2, <1>3, <2>1
<1>4. CASE m # 0
  <2>1. m - 1 \in Nat /\ m - 1 \notin S
    BY <1>2, <1>4
  <2>2. PICK g : Filling(g, s, f, time, m - 1)
    BY <2>1
  <2> DEFINE h == [i \in 0 .. m |-> IF i = m THEN FillMore(s, g[m - 1], time) ELSE g[i]]
  <2>3. \A i \in 0 .. m - 1 : h[i] = g[i]
    BY <1>2, <1>4
  <2>4. h[m] = FillMore(s, h[m - 1], time)
    BY <1>2, <1>4, <2>3
  <2>5. \A i \in 0 .. m : h[i] = IF i = 0 THEN f ELSE FillMore(s, h[i - 1], time)
    BY <1>2, <1>4, <2>2, <2>3, <2>4 DEF Filling
  <2>6. Filling(h, s, f, time, m)
    BY <2>5 DEF Filling
  <2> QED
    BY <1>2, <2>6
<1> QED
  BY <1>3, <1>4

\* What FillUntil returns is the last of the filters its rounds go through.
LEMMA FillUntilRounds ==
  ASSUME NEW s, NEW f, NEW time, Rounds(f, time) \in Nat
  PROVE  \E g : /\ FillUntil(s, f, time) = g[Rounds(f, time)]
                /\ g[0] = f
                /\ \A i \in 1 .. Rounds(f, time) : g[i] = FillMore(s, g[i - 1], time)
<1> DEFINE n == Rounds(f, time)
           g == CHOOSE h : h = [i \in 0 .. n |-> IF i = 0 THEN f ELSE FillMore(s, h[i - 1], time)]
<1>1. FillUntil(s, f, time) = g[n]
  BY DEF FillUntil
<1>2. g = [i \in 0 .. n |-> IF i = 0 THEN f ELSE FillMore(s, g[i - 1], time)]
  BY FillingExists DEF Filling
<1>3. \A m \in Nat : \A h :
        h = [i \in 0 .. m |-> IF i = 0 THEN f ELSE FillMore(s, h[i - 1], time)]
        => h[0] = f /\ \A i \in 1 .. m : h[i] = FillMore(s, h[i - 1], time)
  OBVIOUS
<1> HIDE DEF g
<1> QED
  BY <1>1, <1>2, <1>3, ZenonT(30)

-----------------------------------------------------------------------------
(* The samples of a song, by the time at which they are due when the first  *)
(* tr of them have been dropped.                                            *)

At(s, tr, time) == Sample(s, tr + time)

Pair(s, tr, time) == At(s, tr, time) # Silent /\ At(s, tr, time + 1) # Silent

\* No two samples in a row that both sound, from the time a to the time b, and
\* nothing right before b.
Quiet(s, tr, a, b) ==
  /\ \A t \in a .. b - 2 : ~Pair(s, tr, t)
  /\ b > a => At(s, tr, b - 1) = Silent

\* A quiet stretch goes on through silent samples.  The sample where it ended may
\* sound, as the sentinel of count_silence is not looked at.
LEMMA QuietExtended ==
  ASSUME NEW s, NEW tr, NEW a \in Nat, NEW b \in Nat, NEW c \in Nat, c >= b + 2,
         Quiet(s, tr, a, b), \A t \in b + 1 .. c - 1 : At(s, tr, t) = Silent
  PROVE  Quiet(s, tr, a, c)
<1>1. c - 1 \in b + 1 .. c - 1
  OBVIOUS
<1>2. At(s, tr, c - 1) = Silent
  BY <1>1
<1>3. ASSUME NEW t \in a .. c - 2 PROVE ~Pair(s, tr, t)
  <2>1. CASE t >= b
    <3>1. t + 1 \in b + 1 .. c - 1
      BY <2>1
    <3> QED
      BY <3>1 DEF Pair
  <2>2. CASE t = b - 1
    <3>1. At(s, tr, t) = Silent
      BY <2>2 DEF Quiet
    <3> QED
      BY <3>1 DEF Pair
  <2>3. CASE t <= b - 2
    BY <2>3 DEF Quiet
  <2> QED
    BY <2>1, <2>2, <2>3
<1> QED
  BY <1>2, <1>3 DEF Quiet

\* Where all samples are silent it is quiet.
LEMMA QuietSilent ==
  ASSUME NEW s, NEW tr, NEW a \in Nat, NEW b \in Nat, \A t \in a .. b - 1 : At(s, tr, t) = Silent
  PROVE  Quiet(s, tr, a, b)
<1>1. \A t \in a .. b - 2 : t \in a .. b - 1
  OBVIOUS
<1>2. b > a => b - 1 \in a .. b - 1
  OBVIOUS
<1> QED
  BY <1>1, <1>2 DEF Quiet, Pair

\* The end of a quiet stretch is quiet.
LEMMA QuietLater ==
  ASSUME NEW s, NEW tr, NEW a \in Nat, NEW b \in Nat, NEW c \in Nat, a <= c, Quiet(s, tr, a, b)
  PROVE  Quiet(s, tr, c, b)
BY DEF Quiet

\* Behind the end of a song there is silence.
LEMMA SilentBehind ==
  ASSUME NEW s \in Songs, s \notin Loops, NEW place \in Nat, place >= Finish(s)
  PROVE  Sample(s, place) = Silent
<1>1. Finish(s) \in Nat
  BY TrackFilterAssumption DEF Finish
<1> QED
  BY <1>1 DEF Sample

\* Samples are numbers, Silent or a place counted from 1.
LEMMA SampleNat ==
  ASSUME NEW s, NEW place \in Nat
  PROVE  Sample(s, place) \in Nat
BY DEF Sample, Silent

\* The emulator makes the samples that follow in the song.
LEMMA MadeSamples ==
  ASSUME NEW s, NEW f, f.src \in Nat, NEW count \in Nat
  PROVE  /\ Made(s, f, count) \in Seq(Nat) /\ Len(Made(s, f, count)) = count
         /\ \A i \in 1 .. count : Made(s, f, count)[i] = Sample(s, f.src + i - 1)
<1>1. \A i \in 1 .. count : Sample(s, f.src + i - 1) \in Nat
  BY SampleNat
<1> QED
  BY <1>1 DEF Made

\* count_silence (Track_Filter.cpp:185-194) counts at least one sample, and all that
\* it counts are silent but the first.
LEMMA SilenceCounted ==
  ASSUME NEW q \in Seq(Nat), Len(q) >= 1
  PROVE  /\ count_silence(q) \in 1 .. Len(q)
         /\ \A i \in Len(q) - count_silence(q) + 2 .. Len(q) : q[i] = Silent
<1> DEFINE stops == {1} \cup {i \in 2 .. Len(q) : q[i] # Silent}
           last == CHOOSE i \in stops : \A j \in stops : j <= i
<1>1. stops \in SUBSET (0 .. Len(q)) /\ stops # {} /\ Len(q) \in Nat
  OBVIOUS
<1>2. \E i \in stops : \A j \in stops : j <= i
  <2> HIDE DEF stops
  <2> QED
    BY <1>1, GreatestExists
<1>3. last \in stops /\ \A j \in stops : j <= last
  BY <1>2
<1>4. count_silence(q) = Len(q) - last + 1
  BY DEF count_silence
<1>5. last \in 1 .. Len(q)
  BY <1>3
<1>6. ASSUME NEW i \in last + 1 .. Len(q) PROVE q[i] = Silent
  <2>1. i \in 2 .. Len(q) /\ ~(i <= last)
    BY <1>5
  <2>2. i \notin stops
    BY <1>3, <2>1
  <2> QED
    BY <2>1, <2>2
<1> HIDE DEF last
<1> QED
  BY <1>4, <1>5, <1>6

\* The end of a buffer, and its beginning.
LEMMA BufferCut ==
  ASSUME NEW q \in Seq(Nat), NEW n \in 0 .. Len(q)
  PROVE  /\ SubSeq(q, n + 1, Len(q)) \in Seq(Nat) /\ Len(SubSeq(q, n + 1, Len(q))) = Len(q) - n
         /\ \A i \in 1 .. Len(q) - n : SubSeq(q, n + 1, Len(q))[i] = q[n + i]
         /\ Len(SubSeq(q, 1, n)) = n /\ SubSeq(q, 1, n) \in Seq(Nat)
         /\ \A i \in 1 .. n : SubSeq(q, 1, n)[i] = q[i]
<1>1. Len(q) \in Nat /\ \A i \in 1 .. Len(q) : q[i] \in Nat
  OBVIOUS
<1>2. (\A i \in n + 1 .. Len(q) : q[i] \in Nat) /\ (\A i \in 1 .. n : q[i] \in Nat)
  BY <1>1
<1>3. /\ SubSeq(q, n + 1, Len(q)) \in Seq(Nat)
      /\ Len(SubSeq(q, n + 1, Len(q))) = IF n + 1 <= Len(q) THEN Len(q) - (n + 1) + 1 ELSE 0
      /\ \A i \in 1 .. Len(q) - (n + 1) + 1 : SubSeq(q, n + 1, Len(q))[i] = q[n + 1 + i - 1]
  BY <1>1, <1>2, SubSeqProperties
<1>4. /\ SubSeq(q, 1, n) \in Seq(Nat)
      /\ Len(SubSeq(q, 1, n)) = IF 1 <= n THEN n - 1 + 1 ELSE 0
      /\ \A i \in 1 .. n - 1 + 1 : SubSeq(q, 1, n)[i] = q[1 + i - 1]
  BY <1>1, <1>2, SubSeqProperties
<1> QED
  BY <1>1, <1>3, <1>4

-----------------------------------------------------------------------------
(* A filter in order, for a song s of which the first tr samples have been  *)
(* dropped.                                                                 *)

Filters ==
  [src : Nat, out_time : Nat, emu_time : Nat, silence_time : Nat, silence_count : Nat,
   buf : Seq(Nat), emu_track_ended : BOOLEAN, track_ended : BOOLEAN]

\* The time from which on what silence_time stands for is really silent: the sample
\* of the sentinel may sound, and so may the first buffer.
SilentFrom(silent) == IF silent = 0 THEN buf_size ELSE silent + 1

\* Frames are not torn apart.
Framed(out, emu, quiet, buf) == out % 2 = 0 /\ emu % 2 = 0 /\ quiet % 2 = 0 /\ Len(buf) % 2 = 0

\* What the emulator is ahead by is silence to play and the buffer, and it has
\* made what was dropped besides.
Sums(tr, out, emu, quiet, src, buf) == emu = out + quiet + Len(buf) /\ src = tr + emu

\* The emulator says that the song has ended only when it has.
ToldEnd(s, src, ended) == ended => s \notin Loops /\ src >= Finish(s)

\* silence_time is not in the future, and a buffer with sound is not too long a
\* silence.
SilentEnough(out, emu, silent, buf) == IF buf = <<>> THEN silent <= out ELSE emu - silent <= buf_size

\* The buffer holds the samples due from that time on.
Ready(s, tr, from, buf) == \A i \in 1 .. Len(buf) : buf[i] = At(s, tr, from + i - 1)

\* How far the emulator is ahead, while the track goes on: of the members out_time,
\* emu_time, silence_time, silence_count, src, buf and emu_track_ended.
Ahead(s, tr, out, emu, silent, quiet, src, buf, ended) ==
  /\ Framed(out, emu, quiet, buf)
  /\ Sums(tr, out, emu, quiet, src, buf)
  /\ ToldEnd(s, src, ended)
  /\ SilentEnough(out, emu, silent, buf)
  /\ Ready(s, tr, out + quiet, buf)
  /\ Quiet(s, tr, out, out + quiet)

\* Why it has ended.
Ended(s, tr, out, emu, silent) ==
  \/ emu - silent > max_silence
  \/ s \notin Loops /\ tr + out >= Finish(s)

\* Filter f is in order for song s, of which the first tr samples were dropped.
Good(s, f, tr) ==
  /\ f \in Filters /\ f.silence_time <= f.emu_time /\ Len(f.buf) <= buf_size
  /\ Quiet(s, tr, SilentFrom(f.silence_time), f.emu_time)
  /\ IF f.track_ended
     THEN f.emu_track_ended /\ f.buf = <<>> /\ Ended(s, tr, f.out_time, f.emu_time, f.silence_time)
     ELSE Ahead(s, tr, f.out_time, f.emu_time, f.silence_time, f.silence_count, f.src, f.buf, f.emu_track_ended)

\* Sums and differences of whole frames are whole frames.
LEMMA EvenSum ==
  ASSUME NEW a \in Nat, NEW b \in Nat, a % 2 = 0, b % 2 = 0
  PROVE  (a + b) % 2 = 0 /\ (a >= b => (a - b) % 2 = 0) /\ (a # 0 => a >= 2)
OBVIOUS

\* The types of the members of Track_Filter.
LEMMA Members ==
  ASSUME NEW f \in Filters
  PROVE  /\ f.out_time \in Nat /\ f.emu_time \in Nat /\ f.silence_time \in Nat /\ f.silence_count \in Nat
         /\ f.src \in Nat /\ f.buf \in Seq(Nat) /\ Len(f.buf) \in Nat
         /\ f.emu_track_ended \in BOOLEAN /\ f.track_ended \in BOOLEAN
BY DEF Filters

\* What the emulator makes next, and how much of its end is silent.
Due(f, tr) == f.emu_time \in Nat /\ f.src = tr + f.emu_time

Coming(s, tr, emu, count, q, k) ==
  /\ q \in Seq(Nat) /\ Len(q) = count
  /\ \A i \in 1 .. count : q[i] = At(s, tr, emu + i - 1)
  /\ k \in 1 .. count
  /\ \A t \in emu + count - k + 1 .. emu + count - 1 : At(s, tr, t) = Silent

\* A buffer made where the emulator stands holds the samples due there.
LEMMA MakesNext ==
  ASSUME NEW s, NEW f, NEW tr \in Nat, Due(f, tr), NEW count \in Nat, count >= 1
  PROVE  Coming(s, tr, f.emu_time, count, Made(s, f, count), count_silence(Made(s, f, count)))
<1> DEFINE q == Made(s, f, count)
           k == count_silence(q)
           emu == f.emu_time
<1>0. f.src = tr + emu /\ emu \in Nat
  BY DEF Due
<1>1. f.src \in Nat
  BY <1>0
<1>2. /\ q \in Seq(Nat) /\ Len(q) = count
      /\ \A i \in 1 .. count : q[i] = Sample(s, f.src + i - 1)
  BY <1>1, MadeSamples
<1>3. k \in 1 .. count /\ \A i \in count - k + 2 .. count : q[i] = Silent
  BY <1>2, SilenceCounted
<1> SUFFICES Coming(s, tr, emu, count, q, k)
  OBVIOUS
<1> HIDE DEF q, k, emu
<1>4. ASSUME NEW i \in 1 .. count PROVE q[i] = At(s, tr, emu + i - 1)
  <2>1. f.src + i - 1 = tr + (emu + i - 1)
    BY <1>0
  <2> QED
    BY <1>2, <2>1 DEF At
<1>5. ASSUME NEW t \in emu + count - k + 1 .. emu + count - 1
      PROVE  At(s, tr, t) = Silent
  <2> DEFINE i == t - emu + 1
  <2>1. i \in count - k + 2 .. count /\ i \in 1 .. count /\ emu + i - 1 = t
    BY <1>0, <1>3
  <2> QED
    BY <1>3, <1>4, <2>1
<1> QED
  BY <1>2, <1>3, <1>4, <1>5 DEF Coming

\* Another count samples of the emulator, and what they leave silent.
LEMMA SilentOn ==
  ASSUME NEW s, NEW tr, NEW emu \in Nat, NEW silent \in Nat, NEW count \in Nat, NEW k \in 1 .. count,
         count >= 2, Quiet(s, tr, SilentFrom(silent), emu), NEW q, Coming(s, tr, emu, count, q, k)
  PROVE  /\ k < count => Quiet(s, tr, SilentFrom(emu + count - k), emu + count)
         /\ k = count => Quiet(s, tr, SilentFrom(silent), emu + count)
<1>0. \A t \in emu + count - k + 1 .. emu + count - 1 : At(s, tr, t) = Silent
  BY DEF Coming
<1>1. SilentFrom(silent) \in Nat
  BY Settings DEF SilentFrom
<1>2. ASSUME k < count PROVE Quiet(s, tr, SilentFrom(emu + count - k), emu + count)
  <2> DEFINE from == emu + count - k + 1
  <2>1. SilentFrom(emu + count - k) = from /\ from \in Nat
    BY <1>2 DEF SilentFrom
  <2>2. Quiet(s, tr, from, emu + count)
    BY <1>0, <2>1, QuietSilent
  <2> QED
    BY <2>1, <2>2
<1>3. ASSUME k = count PROVE Quiet(s, tr, SilentFrom(silent), emu + count)
  <2>1. \A t \in emu + 1 .. emu + count - 1 : At(s, tr, t) = Silent
    BY <1>0, <1>3
  <2> QED
    BY <1>1, <2>1, QuietExtended
<1> QED
  BY <1>2, <1>3

-----------------------------------------------------------------------------
(* fill_buf.                                                                *)

\* The buffer has sound in it.
LEMMA FillsWithSound ==
  ASSUME NEW s, NEW tr \in Nat, NEW out \in Nat, NEW emu \in Nat, NEW silent \in Nat,
         NEW quiet \in Nat, NEW src \in Nat, Ahead(s, tr, out, emu, silent, quiet, src, <<>>, FALSE),
         NEW q, NEW k, Coming(s, tr, emu, buf_size, q, k), NEW ended, ToldEnd(s, src + buf_size, ended)
  PROVE  Ahead(s, tr, out, emu + buf_size, emu + buf_size - k, quiet, src + buf_size, q, ended)
<1>1. buf_size \in Nat /\ buf_size >= 2 /\ Len(<<>>) = 0
  BY Settings
<1>2. buf_size % 2 = 0
  BY Settings
<1>3. out % 2 = 0 /\ emu % 2 = 0 /\ quiet % 2 = 0
  BY DEF Ahead, Framed
<1>4. emu = out + quiet /\ src = tr + emu /\ Quiet(s, tr, out, out + quiet)
  BY <1>1 DEF Ahead, Sums
<1>5. q \in Seq(Nat) /\ Len(q) = buf_size /\ k \in 1 .. buf_size
  BY DEF Coming
<1>6. (emu + buf_size) % 2 = 0
  BY <1>1, <1>2, <1>3, EvenSum
<1>7. Framed(out, emu + buf_size, quiet, q)
  BY <1>2, <1>3, <1>5, <1>6 DEF Framed
<1>8. Sums(tr, out, emu + buf_size, quiet, src + buf_size, q)
  BY <1>1, <1>4, <1>5 DEF Sums
<1>9. SilentEnough(out, emu + buf_size, emu + buf_size - k, q)
  BY <1>1, <1>5 DEF SilentEnough
<1>10. Ready(s, tr, out + quiet, q)
  BY <1>4, <1>5 DEF Ready, Coming
<1> QED
  BY <1>4, <1>7, <1>8, <1>9, <1>10 DEF Ahead

\* It is silent.
LEMMA FillsWithSilence ==
  ASSUME NEW s, NEW tr \in Nat, NEW out \in Nat, NEW emu \in Nat, NEW silent \in Nat,
         NEW quiet \in Nat, NEW src \in Nat, Ahead(s, tr, out, emu, silent, quiet, src, <<>>, FALSE),
         NEW q, Coming(s, tr, emu, buf_size, q, buf_size), NEW ended, ToldEnd(s, src + buf_size, ended)
  PROVE  Ahead(s, tr, out, emu + buf_size, silent, quiet + buf_size, src + buf_size, <<>>, ended)
<1>1. buf_size \in Nat /\ buf_size >= 2 /\ Len(<<>>) = 0
  BY Settings
<1>2. buf_size % 2 = 0 /\ 0 % 2 = 0
  BY Settings
<1>3. out % 2 = 0 /\ emu % 2 = 0 /\ quiet % 2 = 0
  BY DEF Ahead, Framed
<1>4. emu = out + quiet /\ src = tr + emu /\ Quiet(s, tr, out, out + quiet)
  BY <1>1 DEF Ahead, Sums
<1>5. (emu + buf_size) % 2 = 0 /\ (quiet + buf_size) % 2 = 0
  BY <1>1, <1>2, <1>3, EvenSum
<1>6. Framed(out, emu + buf_size, quiet + buf_size, <<>>)
  BY <1>1, <1>2, <1>3, <1>5 DEF Framed
<1>7. Sums(tr, out, emu + buf_size, quiet + buf_size, src + buf_size, <<>>)
  BY <1>1, <1>4 DEF Sums
<1>8. SilentEnough(out, emu + buf_size, silent, <<>>)
  BY DEF SilentEnough, Ahead
<1>9. Ready(s, tr, out + (quiet + buf_size), <<>>)
  BY <1>1 DEF Ready
<1>10. Quiet(s, tr, out, out + (quiet + buf_size))
  <2> DEFINE c == emu + buf_size
  <2>1. c \in Nat /\ c >= emu + 2
    BY <1>1
  <2>2. c = out + (quiet + buf_size)
    BY <1>1, <1>4
  <2>3. \A t \in emu + 1 .. c - 1 : At(s, tr, t) = Silent
    <3>1. \A t \in emu + buf_size - buf_size + 1 .. c - 1 : At(s, tr, t) = Silent
      BY DEF Coming
    <3>2. emu + buf_size - buf_size + 1 = emu + 1
      BY <1>1
    <3> QED
      BY <3>1, <3>2
  <2>4. Quiet(s, tr, out, emu)
    BY <1>4
  <2> HIDE DEF c
  <2>5. Quiet(s, tr, out, c)
    BY <2>1, <2>3, <2>4, QuietExtended
  <2> QED
    BY <2>2, <2>5
<1> QED
  BY <1>6, <1>7, <1>8, <1>9, <1>10 DEF Ahead

\* fill_buf (Track_Filter.cpp:196-212) keeps a filter in order and takes it one buffer
\* further, whether it finds sound or not.
LEMMA FillBufGood ==
  ASSUME NEW s \in Songs, NEW f, NEW tr \in Nat, Good(s, f, tr),
         ~f.track_ended, ~f.emu_track_ended, f.buf = <<>>
  PROVE  LET g == fill_buf(s, f)
         IN  /\ Good(s, g, tr) /\ ~g.track_ended /\ g.out_time = f.out_time
             /\ g.emu_time = f.emu_time + buf_size
<1> DEFINE g == fill_buf(s, f)
           q == Made(s, f, buf_size)
           k == count_silence(q)
           out == f.out_time   emu == f.emu_time   silent == f.silence_time
           quiet == f.silence_count   src == f.src
           ended == s \notin Loops /\ src + buf_size >= Finish(s)
           h == emu_play(s, f, buf_size)
<1>1. /\ f \in Filters /\ out \in Nat /\ emu \in Nat /\ silent \in Nat /\ quiet \in Nat /\ src \in Nat
      /\ silent <= emu /\ Quiet(s, tr, SilentFrom(silent), emu)
      /\ Ahead(s, tr, out, emu, silent, quiet, src, <<>>, FALSE)
  BY Members DEF Good
<1>2. Due(f, tr)
  BY <1>1 DEF Ahead, Sums, Due
<1>3. buf_size \in Nat /\ buf_size >= 1 /\ buf_size >= 2
  BY Settings
<1>4. Coming(s, tr, emu, buf_size, q, k)
  BY <1>2, <1>3, MakesNext
<1>5. /\ h.emu_time = emu + buf_size /\ h.src = src + buf_size /\ h.emu_track_ended = ended
      /\ h.out_time = out /\ h.silence_time = silent /\ h.silence_count = quiet
      /\ h.track_ended = FALSE /\ h.buf = <<>> /\ h \in Filters
  <2>1. Ran(s, f, buf_size).emu_track_ended = ended
    BY <1>1 DEF Ran, Filters
  <2>2. h = [f EXCEPT !.emu_time = emu + buf_size, !.src = src + buf_size, !.emu_track_ended = ended]
    BY <1>1, <2>1 DEF emu_play, Filters
  <2>3. emu + buf_size \in Nat /\ src + buf_size \in Nat /\ ended \in BOOLEAN
    BY <1>1, <1>3
  <2> HIDE DEF h, ended
  <2> QED
    BY <1>1, <2>2, <2>3 DEF Filters
<1>6. g = IF k < buf_size THEN [h EXCEPT !.silence_time = h.emu_time - k, !.buf = q]
          ELSE [h EXCEPT !.silence_count = @ + buf_size]
  BY DEF fill_buf
<1>7. ToldEnd(s, src + buf_size, ended)
  BY DEF ToldEnd
<1> SUFFICES Good(s, g, tr) /\ g.track_ended = FALSE /\ g.out_time = out /\ g.emu_time = emu + buf_size
  OBVIOUS
<1> HIDE DEF g, q, k, out, emu, silent, quiet, src, ended, h
<1>8. q \in Seq(Nat) /\ Len(q) = buf_size /\ k \in 1 .. buf_size
  BY <1>4 DEF Coming
<1>9. /\ k < buf_size => Quiet(s, tr, SilentFrom(emu + buf_size - k), emu + buf_size)
      /\ k = buf_size => Quiet(s, tr, SilentFrom(silent), emu + buf_size)
  BY <1>1, <1>3, <1>4, <1>8, SilentOn
<1>10. CASE k < buf_size
  <2> DEFINE from == emu + buf_size - k
  <2>1. from \in Nat /\ from <= emu + buf_size
    BY <1>1, <1>3, <1>8
  <2>2. Ahead(s, tr, out, emu + buf_size, from, quiet, src + buf_size, q, ended)
    BY <1>1, <1>4, <1>7, FillsWithSound
  <2>3. Quiet(s, tr, SilentFrom(from), emu + buf_size)
    BY <1>9, <1>10
  <2>4. g = [h EXCEPT !.silence_time = from, !.buf = q]
    <3>1. h.emu_time = emu + buf_size
      BY <1>5
    <3>2. g = [h EXCEPT !.silence_time = h.emu_time - k, !.buf = q]
      BY <1>6, <1>10
    <3>3. h.emu_time - k = from
      <4> DEFINE now == h.emu_time
      <4>1. now = emu + buf_size
        BY <3>1
      <4> HIDE DEF now
      <4>2. now - k = from
        BY <4>1, <1>1, <1>3, <1>8
      <4> QED
        BY <4>2 DEF now
    <3> HIDE DEF from
    <3> QED
      BY <3>2, <3>3
  <2> HIDE DEF from
  <2>5. /\ g \in Filters /\ g.emu_time = emu + buf_size /\ g.src = src + buf_size
        /\ g.emu_track_ended = ended /\ g.silence_time = from /\ g.buf = q
        /\ g.out_time = out /\ g.silence_count = quiet /\ g.track_ended = FALSE
    BY <1>5, <1>8, <2>1, <2>4 DEF Filters
  <2>6. Len(q) <= buf_size
    BY <1>3, <1>8
  <2> QED
    BY <2>1, <2>2, <2>3, <2>5, <2>6 DEF Good
<1>11. CASE k = buf_size
  <2>1. Coming(s, tr, emu, buf_size, q, buf_size)
    BY <1>4, <1>11
  <2>2. Ahead(s, tr, out, emu + buf_size, silent, quiet + buf_size, src + buf_size, <<>>, ended)
    BY <1>1, <1>7, <2>1, FillsWithSilence
  <2>3. Quiet(s, tr, SilentFrom(silent), emu + buf_size)
    BY <1>9, <1>11
  <2>4. g = [h EXCEPT !.silence_count = quiet + buf_size]
    <3>1. ~(k < buf_size)
      BY <1>3, <1>11
    <3> QED
      BY <1>5, <1>6, <3>1
  <2>5. quiet + buf_size \in Nat /\ silent <= emu + buf_size /\ Len(<<>>) <= buf_size
    BY <1>1, <1>3
  <2>6. /\ g \in Filters /\ g.emu_time = emu + buf_size /\ g.src = src + buf_size
        /\ g.emu_track_ended = ended /\ g.silence_time = silent /\ g.buf = <<>>
        /\ g.out_time = out /\ g.silence_count = quiet + buf_size /\ g.track_ended = FALSE
    BY <1>5, <2>4, <2>5 DEF Filters
  <2> QED
    BY <2>2, <2>3, <2>5, <2>6 DEF Good
<1>12. k < buf_size \/ k = buf_size
  BY <1>3, <1>8
<1> QED
  BY <1>10, <1>11, <1>12

-----------------------------------------------------------------------------
(* FillUntil.                                                               *)

LEMMA RoundsSuffice ==
  ASSUME NEW a \in Nat, NEW b \in Nat, b >= 1
  PROVE  a \div b \in Nat /\ (a \div b + 1) * b > a
OBVIOUS

\* What one more round adds.
LEMMA OneMoreRound ==
  ASSUME NEW i \in Nat, NEW b \in Nat
  PROVE  (i + 1) * b = i * b + b
OBVIOUS

\* After i rounds.
Filled(s, f, tr, time, i, g) ==
  /\ Good(s, g, tr) /\ ~g.track_ended /\ g.out_time = f.out_time
  /\ g.emu_time \in Nat
  /\ g.emu_time < time + buf_size \/ g.emu_time = f.emu_time
  /\ \/ g.emu_time >= f.emu_time + i * buf_size
     \/ g.emu_time >= time \/ g.buf # <<>> \/ g.emu_track_ended
  /\ f.buf # <<>> => g = f

\* A round keeps what the rounds before have reached.
LEMMA FillMoreGood ==
  ASSUME NEW s \in Songs, NEW f \in Filters, NEW tr \in Nat, NEW time \in Int, NEW i \in Nat,
         NEW g, Filled(s, f, tr, time, i, g)
  PROVE  Filled(s, f, tr, time, i + 1, FillMore(s, g, time))
<1> DEFINE h == FillMore(s, g, time)
           now == g.emu_time
           begin == f.emu_time
<1>1. now \in Nat /\ begin \in Nat /\ buf_size \in Nat
  BY Members, Settings DEF Filled, Good
<1>2. CASE now < time /\ g.buf = <<>> /\ ~g.emu_track_ended
  <2>1. h = fill_buf(s, g)
    BY <1>2 DEF FillMore
  <2>2. Good(s, h, tr) /\ ~h.track_ended /\ h.out_time = f.out_time /\ h.emu_time = now + buf_size
    BY <1>2, <2>1, FillBufGood DEF Filled
  <2>9. f.buf = <<>>
    BY <1>2 DEF Filled
  <2>0. now >= begin + i * buf_size \/ now >= time
    BY <1>2 DEF Filled
  <2> HIDE DEF h, now, begin
  <2>3. now >= begin + i * buf_size
    BY <1>1, <1>2, <2>0
  <2>4. (i + 1) * buf_size = i * buf_size + buf_size
    BY <1>1, OneMoreRound
  <2>8. i * buf_size \in Int
    BY <1>1
  <2>5. now + buf_size < time + buf_size /\ now + buf_size \in Nat
    BY <1>1, <1>2
  <2>6. now + buf_size >= begin + (i + 1) * buf_size
    BY <1>1, <2>3, <2>4, <2>8
  <2> QED
    BY <2>2, <2>5, <2>6, <2>9 DEF Filled, begin, h
<1>3. CASE ~(now < time /\ g.buf = <<>> /\ ~g.emu_track_ended)
  <2>1. h = g
    BY <1>3 DEF FillMore
  <2>2. now >= time \/ g.buf # <<>> \/ g.emu_track_ended
    BY <1>1, <1>3
  <2> QED
    BY <2>1, <2>2 DEF Filled
<1> QED
  BY <1>2, <1>3

FilledUp(s, f, tr, time, g) ==
  /\ Good(s, g, tr) /\ ~g.track_ended /\ g.out_time = f.out_time
  /\ g.emu_time < time + buf_size \/ g.emu_time = f.emu_time
  /\ g.emu_time >= time \/ g.buf # <<>> \/ g.emu_track_ended
  /\ f.buf # <<>> => g = f

\* The loops over fill_buf leave a filter in order which is far enough, has sound in
\* its buffer, or has come to the end of the song.
LEMMA FillUntilGood ==
  ASSUME NEW s \in Songs, NEW f, NEW tr \in Nat, Good(s, f, tr), ~f.track_ended, NEW time \in Int
  PROVE  FilledUp(s, f, tr, time, FillUntil(s, f, time))
<1> DEFINE n == Rounds(f, time)
           begin == f.emu_time
<1>1. f \in Filters /\ begin \in Nat /\ buf_size \in Nat /\ buf_size >= 1
  BY Members, Settings DEF Good
<1>2. n \in Nat /\ begin + n * buf_size >= time
  <2> HIDE DEF begin
  <2>1. CASE time > begin
    <3> DEFINE a == time - begin
    <3>1. a \in Nat
      BY <1>1, <2>1
    <3>2. n = a \div buf_size + 1
      BY <2>1 DEF Rounds, begin
    <3> HIDE DEF n, a
    <3>3. n \in Nat /\ n * buf_size > a /\ n * buf_size \in Int
      BY <1>1, <3>1, <3>2, RoundsSuffice
    <3> QED
      BY <1>1, <3>3 DEF a
  <2>2. CASE ~(time > begin)
    <3>1. n = 0
      BY <2>2 DEF Rounds, begin
    <3> HIDE DEF n
    <3> QED
      BY <1>1, <2>2, <3>1
  <2> QED
    BY <2>1, <2>2
<1>3. PICK g : /\ FillUntil(s, f, time) = g[n] /\ g[0] = f
               /\ \A i \in 1 .. n : g[i] = FillMore(s, g[i - 1], time)
  BY <1>2, FillUntilRounds
<1> HIDE DEF n
<1>4. Filled(s, f, tr, time, 0, f)
  <2>1. 0 * buf_size = 0
    BY <1>1
  <2> HIDE DEF begin
  <2>2. begin >= begin + 0 * buf_size
    BY <1>1, <2>1
  <2> QED
    BY <2>2, <1>1 DEF Filled, begin
<1>5. \A i \in 0 .. n : Filled(s, f, tr, time, i, g[i])
  <2> DEFINE T == {i \in Nat : i <= n /\ ~Filled(s, f, tr, time, i, g[i])}
  <2>1. SUFFICES ASSUME T # {} PROVE FALSE
    BY <1>2
  <2>2. PICK i \in T : \A j \in T : i <= j
    <3>1. T \in SUBSET Nat
      OBVIOUS
    <3> HIDE DEF T
    <3> QED
      BY <2>1, <3>1, LeastExists
  <2>3. i # 0
    BY <1>3, <1>4, <2>2
  <2>4. i - 1 \in Nat /\ i - 1 <= n /\ i \in 1 .. n /\ ~(i <= i - 1) /\ (i - 1) + 1 = i
    BY <1>2, <2>2, <2>3
  <2>5. Filled(s, f, tr, time, i - 1, g[i - 1])
    BY <2>2, <2>4
  <2>6. Filled(s, f, tr, time, (i - 1) + 1, FillMore(s, g[i - 1], time))
    BY <1>1, <2>4, <2>5, FillMoreGood
  <2>7. Filled(s, f, tr, time, i, g[i])
    BY <1>3, <2>4, <2>6
  <2> QED
    BY <2>2, <2>7
<1>6. Filled(s, f, tr, time, n, g[n])
  <2>1. n \in 0 .. n
    BY <1>2
  <2> QED
    BY <1>5, <2>1
<1> DEFINE h == g[n]
           now == h.emu_time
<1>7. now \in Nat
  BY <1>6, Members DEF Filled, Good
<1>8. now >= begin + n * buf_size => now >= time
  <2>1. n * buf_size \in Int
    BY <1>1, <1>2
  <2> HIDE DEF h, now, begin
  <2> QED
    BY <1>1, <1>2, <1>7, <2>1
<1> HIDE DEF h, now
<1> QED
  BY <1>3, <1>6, <1>8 DEF FilledUp, Filled, h, now

-----------------------------------------------------------------------------
(* start_track.                                                             *)

\* No two samples in a row that both sound are among the first tr ones.
QuietDropped(s, tr) == \A t \in -tr .. -2 : ~Pair(s, tr, t)

\* The filter is in order when clear_time_vars has been called.
LEMMA Begins ==
  ASSUME NEW s \in Songs
  PROVE  LET f == [Stopped EXCEPT !.emu_track_ended = FALSE, !.track_ended = FALSE]
         IN  Good(s, f, 0) /\ ~f.track_ended /\ f.out_time = 0 /\ f.emu_time = 0
<1> DEFINE f == [Stopped EXCEPT !.emu_track_ended = FALSE, !.track_ended = FALSE]
<1>1. /\ Stopped.src = 0 /\ Stopped.out_time = 0 /\ Stopped.emu_time = 0 /\ Stopped.silence_time = 0
      /\ Stopped.silence_count = 0 /\ Stopped.buf = <<>> /\ Stopped \in Filters
  BY DEF Stopped, Filters
<1>2. /\ f.src = 0 /\ f.out_time = 0 /\ f.emu_time = 0 /\ f.silence_time = 0 /\ f.silence_count = 0
      /\ f.buf = <<>> /\ f.emu_track_ended = FALSE /\ f.track_ended = FALSE /\ f \in Filters
  BY <1>1 DEF Filters
<1> HIDE DEF f
<1>3. buf_size \in Nat /\ buf_size >= 2 /\ Len(<<>>) = 0
  BY Settings
<1>4. Quiet(s, 0, SilentFrom(0), 0)
  BY <1>3 DEF Quiet, SilentFrom
<1>5. Ahead(s, 0, 0, 0, 0, 0, 0, <<>>, FALSE)
  <2>1. 0 % 2 = 0
    OBVIOUS
  <2>2. Framed(0, 0, 0, <<>>)
    BY <1>3, <2>1 DEF Framed
  <2>3. Sums(0, 0, 0, 0, 0, <<>>)
    BY <1>3 DEF Sums
  <2>4. ToldEnd(s, 0, FALSE)
    BY DEF ToldEnd
  <2>5. SilentEnough(0, 0, 0, <<>>)
    BY DEF SilentEnough
  <2>6. Ready(s, 0, 0 + 0, <<>>)
    BY <1>3 DEF Ready
  <2>7. Quiet(s, 0, 0, 0 + 0)
    BY DEF Quiet
  <2> QED
    BY <2>2, <2>3, <2>4, <2>5, <2>6, <2>7 DEF Ahead
<1>6. Good(s, f, 0)
  <2>1. 0 <= 0 /\ Len(<<>>) <= buf_size
    BY <1>3
  <2> QED
    BY <1>2, <2>1, <1>4, <1>5 DEF Good
<1> QED
  BY <1>2, <1>6 DEF f

\* The silence is dropped, the buffer comes first.
LEMMA Drops ==
  ASSUME NEW s, NEW emu \in Nat, NEW silent \in Nat, NEW quiet \in Nat, NEW src \in Nat,
         NEW buf \in Seq(Nat), NEW ended, Ahead(s, 0, 0, emu, silent, quiet, src, buf, ended),
         Len(buf) <= buf_size
  PROVE  /\ emu = quiet + Len(buf) /\ src - Len(buf) = quiet
         /\ Ahead(s, quiet, 0, Len(buf), 0, 0, src, buf, ended)
         /\ QuietDropped(s, quiet)
<1>1. Len(buf) \in Nat /\ buf_size \in Nat
  BY Settings
<1>2. emu = quiet + Len(buf) /\ src = emu
  BY <1>1 DEF Ahead, Sums
<1>3. Framed(0, Len(buf), 0, buf)
  <2>1. 0 % 2 = 0
    OBVIOUS
  <2> QED
    BY <2>1 DEF Ahead, Framed
<1>4. Sums(quiet, 0, Len(buf), 0, src, buf)
  BY <1>1, <1>2 DEF Sums
<1>5. ToldEnd(s, src, ended)
  BY DEF Ahead
<1>6. SilentEnough(0, Len(buf), 0, buf)
  BY <1>1 DEF SilentEnough
<1>7. \A t \in Int : At(s, quiet, t) = At(s, 0, quiet + t)
  BY DEF At
<1>8. Ready(s, quiet, 0 + 0, buf)
  <2>1. ASSUME NEW i \in 1 .. Len(buf) PROVE buf[i] = At(s, quiet, 0 + 0 + i - 1)
    <3>1. buf[i] = At(s, 0, 0 + quiet + i - 1)
      BY DEF Ahead, Ready
    <3>2. i - 1 \in Int /\ 0 + quiet + i - 1 = quiet + (i - 1) /\ 0 + 0 + i - 1 = i - 1
      OBVIOUS
    <3> QED
      BY <1>7, <3>1, <3>2
  <2> QED
    BY <2>1 DEF Ready
<1>9. Quiet(s, quiet, 0, 0 + 0)
  BY DEF Quiet
<1>10. QuietDropped(s, quiet)
  <2>1. \A t \in 0 .. quiet - 2 : ~Pair(s, 0, t)
    <3>1. Quiet(s, 0, 0, 0 + quiet)
      BY DEF Ahead
    <3>2. 0 + quiet = quiet
      OBVIOUS
    <3> QED
      BY <3>1, <3>2 DEF Quiet
  <2>2. ASSUME NEW t \in -quiet .. -2 PROVE ~Pair(s, quiet, t)
    <3>1. quiet + t \in 0 .. quiet - 2 /\ t \in Int /\ t + 1 \in Int /\ quiet + t + 1 = quiet + (t + 1)
      OBVIOUS
    <3>2. ~Pair(s, 0, quiet + t)
      BY <2>1, <3>1
    <3> QED
      BY <1>7, <3>1, <3>2 DEF Pair
  <2> QED
    BY <2>2 DEF QuietDropped
<1> QED
  BY <1>1, <1>2, <1>3, <1>4, <1>5, <1>6, <1>8, <1>9, <1>10 DEF Ahead

\* start_track (Track_Filter.cpp:57-78) drops only silence, no more than max_initial
\* and a buffer, and leaves the filter in order for the rest of the song.
LEMMA StartGood ==
  ASSUME NEW s \in Songs
  PROVE  LET f == start_track(s)
         IN  /\ Dropped(f) \in Nat /\ Good(s, f, Dropped(f)) /\ ~f.track_ended /\ f.out_time = 0
             /\ Dropped(f) <= max_initial + buf_size /\ QuietDropped(s, Dropped(f))
<1> DEFINE b == [Stopped EXCEPT !.emu_track_ended = FALSE, !.track_ended = FALSE]
           g == FillUntil(s, b, max_initial)
           f == start_track(s)
           emu == g.emu_time   silent == g.silence_time   quiet == g.silence_count
           src == g.src   buf == g.buf   ended == g.emu_track_ended
<1>1. f = [g EXCEPT !.emu_time = Len(g.buf), !.silence_time = 0, !.silence_count = 0]
  BY DEF start_track
<1>2. Good(s, b, 0) /\ ~b.track_ended /\ b.out_time = 0 /\ b.emu_time = 0
  BY Begins
<1>3. buf_size \in Nat /\ buf_size >= 2 /\ max_initial \in Nat /\ max_initial \in Int
  BY Settings
<1> HIDE DEF b, f
<1>4. /\ Good(s, g, 0) /\ ~g.track_ended /\ g.out_time = 0
      /\ g.emu_time < max_initial + buf_size \/ g.emu_time = b.emu_time
  <2>1. FilledUp(s, b, 0, max_initial, g)
    BY <1>2, <1>3, FillUntilGood
  <2> QED
    BY <1>2, <2>1 DEF FilledUp
<1> HIDE DEF g
<1>5. /\ g \in Filters /\ emu \in Nat /\ silent \in Nat /\ quiet \in Nat /\ src \in Nat
      /\ buf \in Seq(Nat) /\ Len(buf) \in Nat /\ Len(buf) <= buf_size
      /\ Ahead(s, 0, 0, emu, silent, quiet, src, buf, ended)
  BY <1>4, Members DEF Good
<1>6. f = [g EXCEPT !.emu_time = Len(buf), !.silence_time = 0, !.silence_count = 0]
  BY <1>1
<1>7. /\ f \in Filters /\ f.emu_time = Len(buf) /\ f.silence_time = 0 /\ f.silence_count = 0
      /\ f.src = src /\ f.buf = buf /\ f.emu_track_ended = ended /\ f.out_time = 0 /\ f.track_ended = FALSE
  <2>1. g.track_ended = FALSE
    BY <1>4, <1>5 DEF Filters
  <2> QED
    BY <1>4, <1>5, <1>6, <2>1 DEF Filters
<1> HIDE DEF emu, silent, quiet, src, buf, ended
<1>8. /\ emu = quiet + Len(buf) /\ src - Len(buf) = quiet
      /\ Ahead(s, quiet, 0, Len(buf), 0, 0, src, buf, ended) /\ QuietDropped(s, quiet)
  BY <1>5, Drops
<1>9. Dropped(f) = quiet
  BY <1>7, <1>8 DEF Dropped
<1>10. quiet <= max_initial + buf_size
  <2>1. emu < max_initial + buf_size \/ emu = 0
    BY <1>2, <1>4 DEF emu
  <2> QED
    BY <1>3, <1>5, <1>8, <2>1
<1>11. Quiet(s, quiet, SilentFrom(0), Len(buf))
  <2>1. \A t \in buf_size .. Len(buf) - 2 : FALSE
    BY <1>3, <1>5
  <2>2. ~(Len(buf) > buf_size)
    BY <1>3, <1>5
  <2> QED
    BY <2>1, <2>2 DEF Quiet, SilentFrom
<1>12. Good(s, f, quiet)
  BY <1>5, <1>7, <1>8, <1>11 DEF Good
<1> QED
  BY <1>5, <1>7, <1>8, <1>9, <1>10, <1>12 DEF f


-----------------------------------------------------------------------------
(* skip.                                                                    *)

\* Of n samples the silence gives q, the buffer r and the emulator the rest.
Shared(n, quiet, len, q, r) ==
  /\ q \in Nat /\ r \in Nat /\ q <= quiet /\ r <= len /\ q + r <= n
  /\ q % 2 = 0 /\ r % 2 = 0
  /\ r > 0 => q = quiet
  /\ q + r < n => q = quiet /\ r = len

\* skip and play share out what they are asked for alike, whole frames at a time.
LEMMA Shares ==
  ASSUME NEW n \in Nat, NEW quiet \in Nat, NEW len \in Nat, n % 2 = 0, quiet % 2 = 0, len % 2 = 0
  PROVE  /\ LET q == LesserOf(n, quiet) IN Shared(n, quiet, len, q, LesserOf(n - q, len))
         /\ LET q == LesserOf(quiet, n) IN Shared(n, quiet, len, q, LesserOf(len, n - q))
<1>1. LesserOf(n, quiet) = LesserOf(quiet, n)
  BY DEF LesserOf
<1> DEFINE q == LesserOf(n, quiet)
<1>2. q \in Nat /\ q <= n /\ q <= quiet /\ (q = n \/ q = quiet) /\ q % 2 = 0
  BY DEF LesserOf
<1> HIDE DEF q
<1> DEFINE m == n - q
           r == LesserOf(m, len)
<1>3. m \in Nat /\ m % 2 = 0 /\ q + m = n
  BY <1>2, EvenSum
<1> HIDE DEF m
<1>4. LesserOf(m, len) = LesserOf(len, m)
  BY <1>3 DEF LesserOf
<1>5. r \in Nat /\ r <= m /\ r <= len /\ (r = m \/ r = len)
  BY <1>3 DEF LesserOf
<1>6. r % 2 = 0
  BY <1>3 DEF LesserOf
<1> HIDE DEF r
<1>7. /\ q + r <= n
      /\ r > 0 => q = quiet
      /\ q + r < n => q = quiet /\ r = len
  BY <1>2, <1>3, <1>5
<1>8. Shared(n, quiet, len, q, r)
  BY <1>2, <1>5, <1>6, <1>7 DEF Shared
<1> QED
  BY <1>1, <1>4, <1>8 DEF q, m, r

SharedLeft(s, tr, out, emu, silent, quiet, src, buf, ended, n, q, r) ==
  LET left == SubSeq(buf, r + 1, Len(buf))
  IN  /\ left \in Seq(Nat) /\ Len(left) = Len(buf) - r /\ (out + n) % 2 = 0
      /\ q + r = n => Ahead(s, tr, out + n, emu, silent, quiet - q, src, left, ended)
      /\ q + r < n => /\ quiet - q = 0 /\ left = <<>> /\ emu = out + q + r
                      /\ n - q - r >= 2 /\ silent <= out + n

\* What a filter in order has left when silence and buffer have been shared out: it
\* is in order still, or it has come to where the emulator is.
LEMMA SharedOut ==
  ASSUME NEW s, NEW tr \in Nat, NEW out \in Nat, NEW emu \in Nat, NEW silent \in Nat,
         NEW quiet \in Nat, NEW src \in Nat, NEW buf \in Seq(Nat), NEW ended,
         Ahead(s, tr, out, emu, silent, quiet, src, buf, ended), silent <= emu,
         NEW n \in Nat, n % 2 = 0, NEW q, NEW r, Shared(n, quiet, Len(buf), q, r)
  PROVE  SharedLeft(s, tr, out, emu, silent, quiet, src, buf, ended, n, q, r)
<1> DEFINE left == SubSeq(buf, r + 1, Len(buf))
           len == Len(buf)
<1>1. len \in Nat
  OBVIOUS
<1>2. out % 2 = 0 /\ emu % 2 = 0 /\ quiet % 2 = 0 /\ len % 2 = 0
  BY DEF Ahead, Framed
<1>3. emu = out + quiet + len /\ src = tr + emu
  BY DEF Ahead, Sums
<1>4. /\ q \in Nat /\ r \in Nat /\ q <= quiet /\ r <= len /\ q + r <= n
      /\ r > 0 => q = quiet
      /\ q + r < n => q = quiet /\ r = len
  BY DEF Shared
<1>5. q % 2 = 0 /\ r % 2 = 0
  BY DEF Shared
<1>6. /\ left \in Seq(Nat) /\ Len(left) = len - r
      /\ \A i \in 1 .. len - r : left[i] = buf[r + i]
  <2>1. r \in 0 .. Len(buf)
    BY <1>4
  <2> QED
    BY <2>1, BufferCut
<1>7. SilentEnough(out, emu, silent, buf) /\ Quiet(s, tr, out, out + quiet) /\ Ready(s, tr, out + quiet, buf)
      /\ ToldEnd(s, src, ended)
  BY DEF Ahead
<1>8. buf_size \in Nat
  BY Settings
<1>9. (len = 0 => silent <= out) /\ (len # 0 => emu - silent <= buf_size)
  BY <1>7 DEF SilentEnough
<1>10. \A i \in 1 .. len : buf[i] = At(s, tr, out + quiet + i - 1)
  BY <1>7 DEF Ready
<1>11. Len(left) = 0 => left = <<>>
  BY <1>6
<1>12. left = <<>> => Len(left) = 0
  OBVIOUS
<1> SUFFICES /\ left \in Seq(Nat) /\ Len(left) = len - r /\ (out + n) % 2 = 0
             /\ q + r = n => Ahead(s, tr, out + n, emu, silent, quiet - q, src, left, ended)
             /\ q + r < n => /\ quiet - q = 0 /\ left = <<>> /\ emu = out + q + r
                             /\ n - q - r >= 2 /\ silent <= out + n
  BY DEF SharedLeft
<1> HIDE DEF left, len
<1>13. (out + n) % 2 = 0
  BY <1>2, EvenSum
<1>14. ASSUME q + r = n
       PROVE  Ahead(s, tr, out + n, emu, silent, quiet - q, src, left, ended)
  <2>1. quiet - q \in Nat /\ len - r \in Nat /\ (quiet - q) % 2 = 0 /\ (len - r) % 2 = 0
    <3>1. quiet >= q /\ len >= r
      BY <1>1, <1>4
    <3>2. (quiet - q) % 2 = 0
      BY <1>2, <1>4, <1>5, <3>1, EvenSum
    <3>3. (len - r) % 2 = 0
      BY <1>1, <1>2, <1>4, <1>5, <3>1, EvenSum
    <3>4. quiet - q \in Nat /\ len - r \in Nat
      BY <1>1, <1>4
    <3> QED
      BY <3>2, <3>3, <3>4
  <2>2. Framed(out + n, emu, quiet - q, left)
    BY <1>2, <1>6, <1>13, <2>1 DEF Framed
  <2>3. emu = (out + n) + (quiet - q) + (len - r)
    BY <1>1, <1>3, <1>4, <1>14
  <2>4. Sums(tr, out + n, emu, quiet - q, src, left)
    BY <1>3, <1>6, <2>3 DEF Sums
  <2>5. SilentEnough(out + n, emu, silent, left)
    <3>1. CASE left = <<>>
      <4>1. len - r = 0
        BY <1>6, <1>12, <3>1
      <4>2. silent <= out + n
        <5>1. CASE len = 0
          <6>1. silent <= out
            BY <1>9, <5>1
          <6> QED
            BY <6>1
        <5>2. CASE len # 0
          <6>1. emu = out + n
            BY <1>1, <1>3, <1>4, <1>14, <4>1, <5>2
          <6> QED
            BY <6>1
        <5> QED
          BY <5>1, <5>2
      <4> QED
        BY <3>1, <4>2 DEF SilentEnough
    <3>2. CASE left # <<>>
      <4>1. len # 0
        BY <1>1, <1>4, <1>6, <1>11, <3>2
      <4> QED
        BY <1>9, <3>2, <4>1 DEF SilentEnough
    <3> QED
      BY <3>1, <3>2
  <2>6. Ready(s, tr, (out + n) + (quiet - q), left)
    <3>1. ASSUME NEW i \in 1 .. Len(left)
          PROVE  left[i] = At(s, tr, (out + n) + (quiet - q) + i - 1)
      <4>1. i \in 1 .. len - r
        BY <1>6
      <4>2. r + i \in 1 .. len /\ (out + n) + (quiet - q) + i - 1 = out + quiet + (r + i) - 1
        BY <1>1, <1>4, <1>14, <4>1
      <4>3. left[i] = buf[r + i]
        BY <1>6, <4>1
      <4> QED
        BY <1>10, <4>2, <4>3
    <3> QED
      BY <3>1 DEF Ready
  <2>7. Quiet(s, tr, out + n, (out + n) + (quiet - q))
    <3>1. CASE q = quiet
      <4>1. (out + n) + (quiet - q) = out + n
        BY <3>1
      <4>2. Quiet(s, tr, out + n, out + n)
        BY DEF Quiet
      <4> QED
        BY <4>1, <4>2
    <3>2. CASE q # quiet
      <4>1. (out + n) + (quiet - q) = out + quiet /\ out <= out + n /\ out + n \in Nat /\ out + quiet \in Nat
        BY <1>4, <1>14, <3>2
      <4>2. Quiet(s, tr, out + n, out + quiet)
        BY <1>7, <4>1, QuietLater
      <4> QED
        BY <4>1, <4>2
    <3> QED
      BY <3>1, <3>2
  <2> QED
    BY <1>7, <2>2, <2>4, <2>5, <2>6, <2>7 DEF Ahead
<1>15. ASSUME q + r < n
       PROVE  /\ quiet - q = 0 /\ left = <<>> /\ emu = out + q + r
              /\ n - q - r >= 2 /\ silent <= out + n
  <2>1. q = quiet /\ r = len
    BY <1>4, <1>15
  <2>2. Len(left) = 0
    BY <1>1, <1>6, <2>1
  <2>3. emu = out + q + r /\ silent <= out + n /\ quiet - q = 0
    BY <1>1, <1>3, <1>4, <1>15, <2>1
  <2>4. n - q - r >= 2
    <3> DEFINE m == n - q
    <3>0. n >= q
      BY <1>4
    <3>1. m \in Nat /\ m % 2 = 0
      BY <1>4, <1>5, <3>0, EvenSum
    <3>2. m >= r /\ m # r
      BY <1>4, <1>15
    <3> HIDE DEF m
    <3>5. m - r \in Nat
      BY <1>4, <3>1, <3>2
    <3>3. m - r \in Nat /\ (m - r) % 2 = 0
      BY <1>4, <1>5, <3>1, <3>2, <3>5, EvenSum
    <3>4. m - r >= 2
      BY EvenSum, <1>4, <3>1, <3>2, <3>3
    <3> QED
      BY <3>4 DEF m
  <2> QED
    BY <1>11, <2>2, <2>3, <2>4
<1> QED
  BY <1>6, <1>13, <1>14, <1>15


\* The emulator is where the player is.
LEMMA AheadOfNothing ==
  ASSUME NEW s, NEW tr \in Nat, NEW now \in Nat, now % 2 = 0, NEW silent \in Nat, silent <= now,
         NEW src, src = tr + now, NEW ended, ToldEnd(s, src, ended)
  PROVE  Ahead(s, tr, now, now, silent, 0, src, <<>>, ended)
<1>1. Len(<<>>) = 0 /\ 0 % 2 = 0
  OBVIOUS
<1>2. Framed(now, now, 0, <<>>)
  BY <1>1 DEF Framed
<1>3. Sums(tr, now, now, 0, src, <<>>)
  BY <1>1 DEF Sums
<1>4. SilentEnough(now, now, silent, <<>>)
  BY DEF SilentEnough
<1>5. Ready(s, tr, now + 0, <<>>)
  BY <1>1 DEF Ready
<1>6. Quiet(s, tr, now, now + 0)
  BY DEF Quiet
<1> QED
  BY <1>2, <1>3, <1>4, <1>5, <1>6 DEF Ahead

\* A song whose emulator has told its end, and has nothing left to play, is over.
LEMMA EndedAtPlace ==
  ASSUME NEW s \in Songs, NEW tr \in Nat, NEW out \in Nat, NEW src \in Nat,
         ToldEnd(s, src, TRUE), src <= tr + out, NEW emu, NEW silent
  PROVE  Ended(s, tr, out, emu, silent)
<1>1. Finish(s) \in Nat
  BY TrackFilterAssumption DEF Finish
<1> QED
  BY <1>1 DEF ToldEnd, Ended

\* A track that has ended stays so.
LEMMA EndedLater ==
  ASSUME NEW s \in Songs, NEW tr \in Nat, NEW out \in Nat, NEW n \in Nat, NEW emu, NEW silent,
         Ended(s, tr, out, emu, silent)
  PROVE  Ended(s, tr, out + n, emu, silent)
<1>1. Finish(s) \in Nat
  BY TrackFilterAssumption DEF Finish
<1> QED
  BY <1>1 DEF Ended

\* What a method of Track_Filter leaves has the members it is about.
Holds(f, src, out, emu, silent, quiet, buf, ended, track) ==
  f = [src |-> src, out_time |-> out, emu_time |-> emu, silence_time |-> silent,
       silence_count |-> quiet, buf |-> buf, emu_track_ended |-> ended, track_ended |-> track]

\* The members of a filter that is known as a whole.
LEMMA HoldsMembers ==
  ASSUME NEW f, NEW src, NEW out, NEW emu, NEW silent, NEW quiet, NEW buf, NEW ended, NEW track,
         Holds(f, src, out, emu, silent, quiet, buf, ended, track)
  PROVE  /\ f.src = src /\ f.out_time = out /\ f.emu_time = emu /\ f.silence_time = silent
         /\ f.silence_count = quiet /\ f.buf = buf /\ f.emu_track_ended = ended /\ f.track_ended = track
BY DEF Holds

\* A filter is known by its members.
LEMMA HoldsSome ==
  ASSUME NEW f \in Filters
  PROVE  Holds(f, f.src, f.out_time, f.emu_time, f.silence_time, f.silence_count, f.buf,
               f.emu_track_ended, f.track_ended)
BY DEF Holds, Filters

\* A filter whose members are in order.
LEMMA GoodAhead ==
  ASSUME NEW s, NEW tr, NEW f \in Filters, NEW src, NEW out, NEW emu, NEW silent, NEW quiet, NEW buf, NEW ended,
         Holds(f, src, out, emu, silent, quiet, buf, ended, FALSE),
         silent <= emu, Len(buf) <= buf_size, Quiet(s, tr, SilentFrom(silent), emu),
         Ahead(s, tr, out, emu, silent, quiet, src, buf, ended)
  PROVE  Good(s, f, tr)
BY HoldsMembers, ZenonT(30) DEF Good

\* A filter whose track has ended for a reason is in order.
LEMMA GoodEnded ==
  ASSUME NEW s, NEW tr, NEW f, NEW src \in Nat, NEW out \in Nat, NEW emu \in Nat, NEW silent \in Nat,
         NEW quiet \in Nat,
         Holds(f, src, out, emu, silent, quiet, <<>>, TRUE, TRUE),
         silent <= emu, Quiet(s, tr, SilentFrom(silent), emu), Ended(s, tr, out, emu, silent)
  PROVE  Good(s, f, tr)
<1>1. f \in Filters
  BY DEF Holds, Filters
<1>2. Len(<<>>) <= buf_size
  BY Settings
<1> QED
  BY <1>1, <1>2, HoldsMembers DEF Good


\* What skip leaves: it has come to the emulator, or not.
SkipLeaves(h, s, n, src, out, emu, silent, quiet, buf, ended, track) ==
  LET q == LesserOf(n, quiet)
      r == LesserOf(n - q, Len(buf))
      rest == n - q - r
      left == SubSeq(buf, r + 1, Len(buf))
      told == s \notin Loops /\ src + rest >= Finish(s)
  IN  IF rest > 0 /\ ~ended
      THEN Holds(h, src + rest, out + n, emu + rest, emu + rest, quiet - q, left, told,
                 track \/ (quiet - q = 0 /\ left = <<>> /\ told))
      ELSE Holds(h, src, out + n, emu, silent, quiet - q, left, ended,
                 track \/ (quiet - q = 0 /\ left = <<>> /\ ended))

\* skip (Track_Filter.cpp:80-116), member by member.
LEMMA SkipHolds ==
  ASSUME NEW s, NEW f, NEW n \in Nat, NEW src \in Nat, NEW out, NEW emu \in Nat, NEW silent, NEW quiet,
         NEW buf, NEW ended \in {TRUE, FALSE}, NEW track \in {TRUE, FALSE},
         Holds(f, src, out, emu, silent, quiet, buf, ended, track)
  PROVE  SkipLeaves(skip(s, f, n), s, n, src, out, emu, silent, quiet, buf, ended, track)
<1> DEFINE q == LesserOf(n, quiet)
           r == LesserOf(n - q, Len(buf))
           rest == n - q - r
           left == SubSeq(buf, r + 1, Len(buf))
           told == s \notin Loops /\ src + rest >= Finish(s)
           g == [f EXCEPT !.out_time = @ + n, !.silence_count = @ - q,
                          !.buf = SubSeq(@, r + 1, Len(@))]
           h == IF rest > 0 /\ ~g.emu_track_ended
                THEN [Ran(s, g, rest) EXCEPT !.emu_time = @ + rest, !.silence_time = g.emu_time + rest]
                ELSE g
<1>1. f = [src |-> src, out_time |-> out, emu_time |-> emu, silence_time |-> silent,
           silence_count |-> quiet, buf |-> buf, emu_track_ended |-> ended, track_ended |-> track]
  BY DEF Holds
<1>2. skip(s, f, n) = [h EXCEPT !.track_ended = @ \/ (h.silence_count = 0 /\ h.buf = <<>> /\ h.emu_track_ended)]
  BY <1>1 DEF skip
<1> HIDE DEF q, r, rest
<1>3. g = [src |-> src, out_time |-> out + n, emu_time |-> emu, silence_time |-> silent,
           silence_count |-> quiet - q, buf |-> left, emu_track_ended |-> ended, track_ended |-> track]
  <2>1. f.out_time = out /\ f.silence_count = quiet /\ f.buf = buf
    BY <1>1
  <2>2. g = [f EXCEPT !.out_time = out + n, !.silence_count = quiet - q, !.buf = left]
    BY <2>1
  <2> HIDE DEF g, left
  <2> QED
    BY <1>1, <2>2
<1>4. told \in BOOLEAN
  OBVIOUS
<1> HIDE DEF g, left, told
<1>5. CASE rest > 0 /\ ~ended
  <2>1. Ran(s, g, rest) = [g EXCEPT !.src = src + rest, !.emu_track_ended = told]
    BY <1>3, <1>5 DEF Ran, told
  <2>2. h = [Ran(s, g, rest) EXCEPT !.emu_time = @ + rest, !.silence_time = g.emu_time + rest]
    BY <1>3, <1>5
  <2> HIDE DEF h
  <2>3. h = [src |-> src + rest, out_time |-> out + n, emu_time |-> emu + rest, silence_time |-> emu + rest,
             silence_count |-> quiet - q, buf |-> left, emu_track_ended |-> told, track_ended |-> track]
    BY <1>3, <2>1, <2>2
  <2>4. Holds(skip(s, f, n), src + rest, out + n, emu + rest, emu + rest, quiet - q, left, told,
              track \/ (quiet - q = 0 /\ left = <<>> /\ told))
    BY <1>2, <2>3 DEF Holds
  <2> QED
    BY <1>5, <2>4 DEF SkipLeaves, q, r, rest, left, told
<1>6. CASE ~(rest > 0 /\ ~ended)
  <2>1. h = g
    BY <1>3, <1>6
  <2> HIDE DEF h
  <2>2. Holds(skip(s, f, n), src, out + n, emu, silent, quiet - q, left, ended,
              track \/ (quiet - q = 0 /\ left = <<>> /\ ended))
    BY <1>2, <1>3, <2>1 DEF Holds
  <2> QED
    BY <1>6, <2>2 DEF SkipLeaves, q, r, rest, left, told
<1> QED
  BY <1>5, <1>6

\* skip keeps a filter in order: what is skipped of silence and buffer is subtracted,
\* and the rest is skipped by the emulator.
LEMMA SkipGood ==
  ASSUME NEW s \in Songs, NEW f, NEW tr \in Nat, Good(s, f, tr), NEW n \in Nat,
         ~f.track_ended => n % 2 = 0
  PROVE  Good(s, skip(s, f, n), tr)
<1> DEFINE out == f.out_time   emu == f.emu_time   silent == f.silence_time
           quiet == f.silence_count   src == f.src   buf == f.buf
           ended == f.emu_track_ended   track == f.track_ended
           q == LesserOf(n, quiet)
           r == LesserOf(n - q, Len(buf))
           rest == n - q - r
           left == SubSeq(buf, r + 1, Len(buf))
           told == s \notin Loops /\ src + rest >= Finish(s)
           h == skip(s, f, n)
<1>1. /\ f \in Filters /\ out \in Nat /\ emu \in Nat /\ silent \in Nat /\ quiet \in Nat /\ src \in Nat
      /\ buf \in Seq(Nat) /\ Len(buf) \in Nat /\ ended \in BOOLEAN /\ track \in BOOLEAN
  BY Members DEF Good
<1>2. /\ silent <= emu /\ Len(buf) <= buf_size /\ Quiet(s, tr, SilentFrom(silent), emu)
      /\ track => ended /\ buf = <<>> /\ Ended(s, tr, out, emu, silent)
      /\ ~track => Ahead(s, tr, out, emu, silent, quiet, src, buf, ended)
  BY DEF Good
<1>3. ~track => n % 2 = 0
  OBVIOUS
<1>4. Holds(f, src, out, emu, silent, quiet, buf, ended, track)
  BY <1>1, HoldsSome
<1> HIDE DEF out, emu, silent, quiet, src, buf, ended, track
<1>5. IF rest > 0 /\ ~ended
      THEN Holds(h, src + rest, out + n, emu + rest, emu + rest, quiet - q, left, told,
                 track \/ (quiet - q = 0 /\ left = <<>> /\ told))
      ELSE Holds(h, src, out + n, emu, silent, quiet - q, left, ended,
                 track \/ (quiet - q = 0 /\ left = <<>> /\ ended))
  <2>1. SkipLeaves(h, s, n, src, out, emu, silent, quiet, buf, ended, track)
    <3>1. ended \in {TRUE, FALSE} /\ track \in {TRUE, FALSE}
      BY <1>1
    <3> HIDE DEF h
    <3>2. src \in Nat /\ emu \in Nat /\ n \in Nat
      BY <1>1
    <3> QED
      BY <1>4, <3>1, <3>2, SkipHolds, Zenon DEF h
  <2> QED
    BY <2>1 DEF SkipLeaves
<1>6. q \in Nat /\ q <= n /\ q <= quiet /\ quiet - q \in Nat
  BY <1>1 DEF LesserOf
<1>7. track => r = 0 /\ left = <<>>
  <2>1. SUFFICES ASSUME track PROVE r = 0 /\ left = <<>>
    OBVIOUS
  <2>2. buf = <<>> /\ Len(buf) = 0
    BY <1>2, <2>1
  <2>3. r = 0
    BY <1>6, <2>2 DEF LesserOf
  <2> QED
    BY <2>2, <2>3
<1>8. out + n \in Nat
  BY <1>1
<1>9. CASE track
  <2>1. Holds(h, src, out + n, emu, silent, quiet - q, <<>>, TRUE, TRUE)
    BY <1>1, <1>2, <1>5, <1>7, <1>9
  <2>2. Ended(s, tr, out + n, emu, silent)
    BY <1>1, <1>2, <1>9, EndedLater
  <2> HIDE DEF h, q, r, left
  <2> QED
    BY <1>1, <1>2, <1>6, <1>8, <2>1, <2>2, GoodEnded DEF h
<1>10. ASSUME ~track PROVE Good(s, h, tr)
  <2>1. Ahead(s, tr, out, emu, silent, quiet, src, buf, ended)
    BY <1>2, <1>10
  <2>2. Shared(n, quiet, Len(buf), q, r)
    <3>1. n % 2 = 0 /\ quiet % 2 = 0 /\ Len(buf) % 2 = 0
      BY <1>3, <1>10, <2>1 DEF Ahead, Framed
    <3> QED
      BY <1>1, <3>1, Shares
  <2> HIDE DEF h, q, r
  <2>3. /\ left \in Seq(Nat) /\ Len(left) = Len(buf) - r /\ (out + n) % 2 = 0
        /\ q + r = n => Ahead(s, tr, out + n, emu, silent, quiet - q, src, left, ended)
        /\ q + r < n => /\ quiet - q = 0 /\ left = <<>> /\ emu = out + q + r
                        /\ n - q - r >= 2 /\ silent <= out + n
    <3>1. n % 2 = 0
      BY <1>3, <1>10
    <3>2. SharedLeft(s, tr, out, emu, silent, quiet, src, buf, ended, n, q, r)
      BY <1>1, <1>2, <2>1, <2>2, <3>1, SharedOut
    <3> QED
      BY <3>2 DEF SharedLeft
  <2>4. r \in Nat /\ q + r <= n /\ rest = n - q - r
    BY <2>2 DEF Shared
  <2>5. src = tr + emu /\ ToldEnd(s, src, ended)
    BY <2>1 DEF Ahead, Sums
  <2>6. buf_size \in Nat /\ buf_size >= 2
    BY Settings
  <2> DEFINE now == out + n
  <2>7. now \in Nat /\ now % 2 = 0
    BY <1>8, <2>3
  <2> HIDE DEF rest, left, told
  <2>8. CASE rest > 0 /\ ~ended
    <3>1. q + r < n
      BY <1>6, <2>4, <2>8
    <3>2. quiet - q = 0 /\ left = <<>> /\ emu + rest = now /\ src + rest = tr + now /\ src + rest \in Nat
      BY <1>1, <1>6, <2>3, <2>4, <2>5, <3>1
    <3>3. Holds(h, src + rest, now, now, now, 0, <<>>, told, track \/ told)
      BY <1>5, <2>8, <3>2
    <3>4. track \/ told <=> told
      BY <1>10
    <3>5. told \in BOOLEAN /\ ToldEnd(s, src + rest, told)
      BY DEF told, ToldEnd
    <3>6. Quiet(s, tr, SilentFrom(now), now)
      <4>1. SilentFrom(now) >= now /\ SilentFrom(now) \in Nat
        BY <2>6, <2>7 DEF SilentFrom
      <4> HIDE DEF now
      <4> QED
        BY <2>7, <4>1 DEF Quiet
    <3>7. 0 <= now /\ now <= now /\ 0 \in Nat /\ <<>> \in Seq(Nat) /\ Len(<<>>) <= buf_size
      BY <2>6, <2>7
    <3>8. CASE told
      <4>1. Holds(h, src + rest, now, now, now, 0, <<>>, TRUE, TRUE)
        BY <1>1, <3>3, <3>5, <3>8
      <4>2. Ended(s, tr, now, now, now)
        <5>1. ToldEnd(s, src + rest, TRUE)
          BY <3>5, <3>8 DEF ToldEnd
        <5>2. src + rest <= tr + now
          BY <2>7, <3>2
        <5> HIDE DEF now
        <5> QED
          BY <2>7, <3>2, <5>1, <5>2, EndedAtPlace
      <4> HIDE DEF now
      <4> QED
        BY <2>7, <3>2, <3>6, <3>7, <4>1, <4>2, GoodEnded
    <3>9. CASE ~told
      <4>1. Holds(h, src + rest, now, now, now, 0, <<>>, told, FALSE)
        BY <1>1, <1>10, <3>3, <3>5, <3>9
      <4> HIDE DEF now
      <4>2. Ahead(s, tr, now, now, now, 0, src + rest, <<>>, told)
        BY <2>7, <3>2, <3>5, <3>7, AheadOfNothing
      <4> QED
        <5>1. h \in Filters
          BY <2>7, <3>2, <3>5, <4>1 DEF Holds, Filters
        <5> QED
          BY <3>6, <3>7, <4>1, <4>2, <5>1, GoodAhead
    <3> QED
      BY <3>8, <3>9
  <2>9. CASE ~(rest > 0 /\ ~ended)
    <3> DEFINE over == quiet - q = 0 /\ left = <<>> /\ ended
    <3>1. Holds(h, src, now, emu, silent, quiet - q, left, ended, track \/ over)
      BY <1>5, <2>9
    <3>2. over \in BOOLEAN /\ Len(left) <= buf_size
      BY <1>1, <1>2, <2>3, <2>4, <2>6
    <3>3. q + r = n \/ q + r < n
      BY <1>6, <2>4
    <3>4. q + r < n => over
      BY <1>6, <2>3, <2>4, <2>9
    <3>5. CASE over
      <4>1. Holds(h, src, now, emu, silent, quiet - q, <<>>, TRUE, TRUE)
        BY <1>1, <3>1, <3>5
      <4>2. emu <= now
        <5>1. CASE q + r = n
          <6>1. Sums(tr, now, emu, quiet - q, src, left)
            BY <2>3, <5>1 DEF Ahead
          <6>2. emu = now + (quiet - q) + Len(left)
            BY <6>1 DEF Sums
          <6>3. quiet - q = 0 /\ Len(left) = 0
            BY <3>5
          <6> HIDE DEF now
          <6> QED
            BY <1>1, <2>7, <6>2, <6>3
        <5>2. CASE q + r < n
          BY <1>1, <1>6, <2>3, <2>4, <5>2
        <5> QED
          BY <3>3, <5>1, <5>2
      <4>3. ToldEnd(s, src, TRUE)
        BY <2>5, <3>5 DEF ToldEnd
      <4> HIDE DEF now, over
      <4>4. src <= tr + now
        BY <1>1, <2>5, <2>7, <4>2
      <4>5. Ended(s, tr, now, emu, silent)
        BY <1>1, <2>7, <4>3, <4>4, EndedAtPlace
      <4> QED
        BY <1>1, <1>2, <1>6, <2>7, <4>1, <4>5, GoodEnded
    <3>6. CASE ~over
      <4>1. Holds(h, src, now, emu, silent, quiet - q, left, ended, FALSE)
        BY <1>1, <1>10, <3>1, <3>2, <3>6
      <4>2. Ahead(s, tr, now, emu, silent, quiet - q, src, left, ended)
        BY <2>3, <3>3, <3>4, <3>6
      <4> HIDE DEF now, over
      <4> QED
        <5>1. h \in Filters
          BY <1>1, <1>6, <2>3, <2>7, <4>1 DEF Holds, Filters
        <5>2. silent <= emu /\ Len(left) <= buf_size /\ Quiet(s, tr, SilentFrom(silent), emu)
          BY <1>2, <3>2
        <5> QED
          BY <4>1, <4>2, <5>1, <5>2, GoodAhead
    <3> QED
      BY <3>5, <3>6
  <2> QED
    BY <2>8, <2>9
<1> QED
  BY <1>9, <1>10


-----------------------------------------------------------------------------
(* play: the emulator gets ahead.                                           *)

LEMMA TimesAtLeast ==
  ASSUME NEW a \in Nat, NEW b \in Nat, a >= 1
  PROVE  a * b >= b /\ a * b \in Int
OBVIOUS

NoPair(s, tr, a, b) == \A t \in a .. b - 1 : ~Pair(s, tr, t)

\* Too much silence, and none of what is played in its place sounds.
TooSilent(s, tr, g, out, n) ==
  /\ g \in Filters /\ g.out_time = out /\ g.track_ended /\ g.emu_track_ended
  /\ g.silence_count = n /\ g.buf = <<>> /\ g.silence_time <= g.emu_time
  /\ Quiet(s, tr, SilentFrom(g.silence_time), g.emu_time)
  /\ g.emu_time - g.silence_time > max_silence
  /\ NoPair(s, tr, out, out + n)

\* What the emulator did not make for the end of the song is silent.
LEMMA PairNotBehind ==
  ASSUME NEW s \in Songs, NEW tr \in Nat, NEW out \in Nat, NEW emu \in Nat, Quiet(s, tr, out, emu),
         NEW to \in Nat, emu < to => s \notin Loops /\ tr + emu >= Finish(s)
  PROVE  NoPair(s, tr, out, to)
<1> SUFFICES ASSUME NEW t \in out .. to - 1 PROVE ~Pair(s, tr, t)
  BY DEF NoPair
<1>1. CASE t <= emu - 2
  BY <1>1 DEF Quiet
<1>2. CASE t = emu - 1
  <2>1. At(s, tr, t) = Silent
    BY <1>2 DEF Quiet
  <2> QED
    BY <2>1 DEF Pair
<1>3. CASE t >= emu
  <2>1. Finish(s) \in Nat
    BY TrackFilterAssumption DEF Finish
  <2>2. tr + t \in Nat /\ tr + t >= Finish(s) /\ s \notin Loops
    BY <1>3, <2>1
  <2>3. At(s, tr, t) = Silent
    BY <2>2, SilentBehind DEF At
  <2> QED
    BY <2>3 DEF Pair
<1> QED
  BY <1>1, <1>2, <1>3

\* Looking ahead in a silence (Track_Filter.cpp:230-248) keeps the filter in order, or
\* finds that the silence is too long and ends the track.
LEMMA LookAheadGood ==
  ASSUME NEW s \in Songs, NEW f, NEW tr \in Nat, Good(s, f, tr), ~f.track_ended, NEW n \in Nat
  PROVE  LET g == LookAhead(s, f, n)
         IN  \/ Good(s, g, tr) /\ ~g.track_ended /\ g.out_time = f.out_time
             \/ TooSilent(s, tr, g, f.out_time, n)
<1> DEFINE out == f.out_time   silent == f.silence_time
           time == lookahead * (out + n - silent) + silent
           g == FillUntil(s, f, time)
           now == g.emu_time   from == g.silence_time
           h == [g EXCEPT !.track_ended = TRUE, !.emu_track_ended = TRUE, !.silence_count = n, !.buf = <<>>]
<1>1. /\ f \in Filters /\ out \in Nat /\ silent \in Nat /\ lookahead \in Nat /\ lookahead >= 1
      /\ buf_size \in Nat /\ max_silence \in Nat /\ max_silence >= buf_size
  BY Members, Settings DEF Good
<1>2. time \in Int
  <2> HIDE DEF out, silent
  <2>1. out + n - silent \in Int
    BY <1>1
  <2> QED
    BY <1>1, <2>1
<1>3. LookAhead(s, f, n) = IF f.silence_count = 0 THEN f
                           ELSE IF now - from > max_silence THEN h ELSE g
  BY DEF LookAhead
<1> HIDE DEF time
<1>4. /\ Good(s, g, tr) /\ ~g.track_ended /\ g.out_time = out
      /\ now >= time \/ g.buf # <<>> \/ g.emu_track_ended
      /\ f.buf # <<>> => g = f
  <2>1. FilledUp(s, f, tr, time, g)
    BY <1>2, FillUntilGood
  <2> QED
    BY <2>1 DEF FilledUp
<1>5. CASE f.silence_count = 0
  BY <1>3, <1>5
<1>6. CASE f.silence_count # 0 /\ ~(now - from > max_silence)
  BY <1>3, <1>4, <1>6
<1>7. CASE f.silence_count # 0 /\ now - from > max_silence
  <2>1. LookAhead(s, f, n) = h
    BY <1>3, <1>7
  <2> HIDE DEF g
  <2> DEFINE quiet == g.silence_count   src == g.src
  <2>2. /\ g \in Filters /\ now \in Nat /\ from \in Nat /\ quiet \in Nat /\ src \in Nat
        /\ from <= now /\ Quiet(s, tr, SilentFrom(from), now)
        /\ Ahead(s, tr, out, now, from, quiet, src, g.buf, g.emu_track_ended)
    BY <1>4, Members DEF Good
  <2>3. /\ h \in Filters /\ h.out_time = out /\ h.track_ended /\ h.emu_track_ended /\ h.silence_count = n
        /\ h.buf = <<>> /\ h.silence_time = from /\ h.emu_time = now
    <3>1. g.out_time = out /\ g \in Filters
      BY <1>4, <2>2
    <3> HIDE DEF out, g
    <3>2. <<>> \in Seq(Nat) /\ n \in Nat
      OBVIOUS
    <3>3. h \in Filters
      BY <3>1, <3>2 DEF Filters
    <3>4. h.silence_time = from /\ h.emu_time = now /\ h.out_time = out
      BY <3>1 DEF Filters
    <3>5. h.track_ended /\ h.emu_track_ended /\ h.silence_count = n /\ h.buf = <<>>
      BY <3>1 DEF Filters
    <3> QED
      BY <3>3, <3>4, <3>5
  <2>4. g.buf = <<>>
    <3>1. SilentEnough(out, now, from, g.buf)
      BY <2>2 DEF Ahead
    <3> HIDE DEF now, from
    <3>2. ~(now - from <= buf_size)
      BY <1>1, <1>7, <2>2
    <3> QED
      BY <3>1, <3>2 DEF SilentEnough
  <2>5. f.buf = <<>>
    BY <1>4, <2>4
  <2>6. silent <= out
    <3>1. SilentEnough(out, f.emu_time, silent, f.buf)
      BY DEF Good, Ahead
    <3> QED
      BY <2>5, <3>1 DEF SilentEnough
  <2>7. time >= out + n
    <3> HIDE DEF out, silent
    <3> DEFINE d == out + n - silent
    <3>1. d \in Nat /\ d + silent = out + n
      BY <1>1, <2>6
    <3>2. time = lookahead * d + silent
      BY DEF time
    <3> HIDE DEF d
    <3>3. lookahead * d >= d /\ lookahead * d \in Int
      BY <1>1, <3>1, TimesAtLeast
    <3> QED
      BY <1>1, <3>1, <3>2, <3>3
  <2>8. now = out + quiet /\ src = tr + now /\ Quiet(s, tr, out, now)
    <3>1. Len(<<>>) = 0 /\ Sums(tr, out, now, quiet, src, <<>>) /\ Quiet(s, tr, out, out + quiet)
      BY <2>2, <2>4 DEF Ahead
    <3> HIDE DEF now, out, quiet, src
    <3>2. now = out + quiet
      BY <1>1, <2>2, <3>1 DEF Sums
    <3> QED
      BY <3>1, <3>2 DEF Sums
  <2>9. now < out + n => s \notin Loops /\ tr + now >= Finish(s)
    <3>1. ToldEnd(s, src, g.emu_track_ended)
      BY <2>2 DEF Ahead
    <3>2. now >= time \/ g.emu_track_ended
      BY <1>4, <2>4
    <3>3. src = tr + now
      BY <2>8
    <3> HIDE DEF now, out, src
    <3> SUFFICES ASSUME now < out + n PROVE s \notin Loops /\ tr + now >= Finish(s)
      OBVIOUS
    <3>4. ~(now >= time)
      BY <1>1, <1>2, <2>2, <2>7
    <3> QED
      BY <3>1, <3>2, <3>3, <3>4 DEF ToldEnd
  <2>10. NoPair(s, tr, out, out + n)
    <3> DEFINE to == out + n
    <3>1. to \in Nat
      BY <1>1
    <3>2. now < to => s \notin Loops /\ tr + now >= Finish(s)
      BY <2>9
    <3> HIDE DEF now, out, to
    <3>3. NoPair(s, tr, out, to)
      BY <1>1, <2>2, <2>8, <3>1, <3>2, PairNotBehind
    <3> QED
      BY <3>3 DEF to
  <2>11. TooSilent(s, tr, h, out, n)
    <3> HIDE DEF h
    <3> QED
      BY <1>7, <2>2, <2>3, <2>10 DEF TooSilent
  <2> QED
    BY <2>1, <2>11
<1> QED
  BY <1>5, <1>6, <1>7


-----------------------------------------------------------------------------
(* play: the emulator makes what is missing.                                *)

LEMMA RendersNext ==
  ASSUME NEW s \in Songs, NEW f, NEW tr \in Nat, Due(f, tr), ToldEnd(s, f.src, f.emu_track_ended),
         NEW count \in Nat, count >= 1
  PROVE  Coming(s, tr, f.emu_time, count, Rendered(s, f, count), count_silence(Rendered(s, f, count)))
<1>1. CASE ~f.emu_track_ended
  <2>1. Rendered(s, f, count) = Made(s, f, count)
    BY <1>1 DEF Rendered
  <2> QED
    BY <2>1, MakesNext
<1>2. CASE f.emu_track_ended
  <2> DEFINE q == Rendered(s, f, count)
             k == count_silence(q)
             emu == f.emu_time
  <2>1. q = [i \in 1 .. count |-> Silent]
    BY <1>2 DEF Rendered
  <2>2. emu \in Nat /\ f.src = tr + emu /\ s \notin Loops /\ f.src >= Finish(s)
    BY <1>2 DEF Due, ToldEnd
  <2> HIDE DEF q, emu
  <2>3. Silent \in Nat
    BY DEF Silent
  <2>4. q \in Seq(Nat) /\ Len(q) = count
    BY <2>1, <2>3
  <2>5. \A i \in 1 .. count : q[i] = Silent
    BY <2>1
  <2>6. k \in 1 .. count
    BY <2>4, SilenceCounted
  <2> HIDE DEF k
  <2>7. \A t \in Nat : t >= emu => At(s, tr, t) = Silent
    <3> SUFFICES ASSUME NEW t \in Nat, t >= emu PROVE At(s, tr, t) = Silent
      OBVIOUS
    <3>1. Finish(s) \in Nat
      BY TrackFilterAssumption DEF Finish
    <3>2. tr + t \in Nat /\ tr + t >= Finish(s)
      BY <2>2, <3>1
    <3> QED
      BY <2>2, <3>2, SilentBehind DEF At
  <2>8. \A i \in 1 .. count : q[i] = At(s, tr, emu + i - 1)
    <3> SUFFICES ASSUME NEW i \in 1 .. count PROVE q[i] = At(s, tr, emu + i - 1)
      OBVIOUS
    <3>1. emu + i - 1 \in Nat /\ emu + i - 1 >= emu
      BY <2>2
    <3> QED
      BY <2>5, <2>7, <3>1
  <2>9. \A t \in emu + count - k + 1 .. emu + count - 1 : At(s, tr, t) = Silent
    <3> SUFFICES ASSUME NEW t \in emu + count - k + 1 .. emu + count - 1 PROVE At(s, tr, t) = Silent
      OBVIOUS
    <3>1. t \in Nat /\ t >= emu
      BY <2>2, <2>6
    <3> QED
      BY <2>7, <3>1
  <2> QED
    BY <2>4, <2>6, <2>8, <2>9 DEF Coming, q, k, emu
<1> QED
  BY <1>1, <1>2

\* fill_buf does not look at the time that is played.
OnlyTime(f, now, g) == g = [f EXCEPT !.out_time = now]

\* fill_buf does not look at out_time, which play has advanced before.
LEMMA FillBufAnyTime ==
  ASSUME NEW s, NEW f \in Filters, NEW now, NEW g, OnlyTime(f, now, g)
  PROVE  OnlyTime(fill_buf(s, f), now, fill_buf(s, g))
<1> DEFINE told == s \notin Loops /\ f.src + buf_size >= Finish(s)
           q == Made(s, f, buf_size)
           k == count_silence(q)
<1>0. g = [f EXCEPT !.out_time = now]
  BY DEF OnlyTime
<1> SUFFICES [fill_buf(s, f) EXCEPT !.out_time = now] = fill_buf(s, g)
  BY DEF OnlyTime
<1>1. /\ g.src = f.src /\ g.emu_time = f.emu_time /\ g.silence_count = f.silence_count
      /\ g.emu_track_ended = f.emu_track_ended
  BY <1>0 DEF Filters
<1>2. Made(s, g, buf_size) = q
  BY <1>1 DEF Made
<1>3. /\ Ran(s, f, buf_size).emu_track_ended = (f.emu_track_ended \/ told)
      /\ Ran(s, g, buf_size).emu_track_ended = (f.emu_track_ended \/ told)
  BY <1>1 DEF Ran, Filters
<1> HIDE DEF q, k, told
<1>4. CASE f.emu_track_ended
  <2>1. /\ fill_buf(s, f) = [f EXCEPT !.silence_count = f.silence_count + buf_size]
        /\ fill_buf(s, g) = [g EXCEPT !.silence_count = f.silence_count + buf_size]
    BY <1>1, <1>4 DEF fill_buf
  <2> QED
    BY <1>0, <2>1 DEF Filters
<1>5. CASE ~f.emu_track_ended
  <2> DEFINE e == emu_play(s, f, buf_size)
             d == emu_play(s, g, buf_size)
             emu == f.emu_time + buf_size
  <2>1. /\ e = [f EXCEPT !.emu_time = emu, !.src = f.src + buf_size, !.emu_track_ended = (f.emu_track_ended \/ told)]
        /\ d = [g EXCEPT !.emu_time = emu, !.src = f.src + buf_size, !.emu_track_ended = (f.emu_track_ended \/ told)]
    BY <1>1, <1>3, <1>5 DEF emu_play
  <2>2. /\ fill_buf(s, f) = IF k < buf_size THEN [e EXCEPT !.silence_time = e.emu_time - k, !.buf = q]
                            ELSE [e EXCEPT !.silence_count = @ + buf_size]
        /\ fill_buf(s, g) = IF k < buf_size THEN [d EXCEPT !.silence_time = d.emu_time - k, !.buf = q]
                            ELSE [d EXCEPT !.silence_count = @ + buf_size]
    BY <1>1, <1>2, <1>5 DEF fill_buf, k, q
  <2> HIDE DEF e, d, emu
  <2>3. d = [e EXCEPT !.out_time = now]
    BY <1>0, <2>1 DEF Filters
  <2>4. e.emu_time = emu /\ d.emu_time = emu /\ e.silence_count = f.silence_count /\ d.silence_count = f.silence_count
    BY <1>0, <1>1, <2>1 DEF Filters
  <2>5. CASE k < buf_size
    <3> DEFINE from == emu - k
               o == fill_buf(s, f)
               p == fill_buf(s, g)
    <3>1. o = [e EXCEPT !.silence_time = from, !.buf = q] /\ p = [d EXCEPT !.silence_time = from, !.buf = q]
      BY <2>2, <2>4, <2>5
    <3> HIDE DEF from, o, p
    <3>2. [o EXCEPT !.out_time = now] = p
      BY <2>3, <3>1
    <3> QED
      BY <3>2 DEF o, p
  <2>6. CASE ~(k < buf_size)
    <3>1. /\ fill_buf(s, f) = [e EXCEPT !.silence_count = f.silence_count + buf_size]
          /\ fill_buf(s, g) = [d EXCEPT !.silence_count = f.silence_count + buf_size]
      BY <2>2, <2>4, <2>6
    <3>2. [fill_buf(s, f) EXCEPT !.out_time = now] = fill_buf(s, g)
      BY <2>1, <2>3, <3>1, ZenonT(30) DEF Filters
    <3> QED
      BY <3>2
  <2> QED
    BY <2>5, <2>6
<1> QED
  BY <1>4, <1>5


\* What play does when silence and buffer are used up (Track_Filter.cpp:264-287) leaves
\* the filter in order, whether the samples end in a long silence or not.
LEMMA RemainingGood ==
  ASSUME NEW s \in Songs, NEW p \in Filters, NEW tr \in Nat, NEW src \in Nat, NEW out \in Nat, NEW emu \in Nat,
         NEW silent \in Nat, NEW ended, Holds(p, src, out, emu, silent, 0, <<>>, ended, FALSE),
         src = tr + emu, ToldEnd(s, src, ended), silent <= emu, Quiet(s, tr, SilentFrom(silent), emu),
         NEW rest \in Nat, rest >= 2, NEW n \in Nat, emu + rest = out + n, (out + n) % 2 = 0
  PROVE  Good(s, [Remaining(s, p, rest) EXCEPT !.out_time = @ + n], tr)
<1> DEFINE q == Rendered(s, p, rest)
           k == count_silence(q)
           told == ended \/ (s \notin Loops /\ src + rest >= Finish(s))
           new == IF ended THEN src ELSE src + rest
           from == IF k < rest THEN emu + rest - k ELSE silent
           now == out + n
           g == emu_play(s, p, rest)
           h == [g EXCEPT !.track_ended = @ \/ g.emu_track_ended,
                          !.silence_time = IF k < rest THEN g.emu_time - k ELSE @]
           H == [h EXCEPT !.out_time = now]
           R == Remaining(s, p, rest)
<1>1. ended \in BOOLEAN
  BY HoldsMembers DEF Filters
<1>2. p = [src |-> src, out_time |-> out, emu_time |-> emu, silence_time |-> silent, silence_count |-> 0,
           buf |-> <<>>, emu_track_ended |-> ended, track_ended |-> FALSE]
  BY DEF Holds
<1>3. Coming(s, tr, emu, rest, q, k)
  <2>1. p.src = src /\ p.emu_time = emu /\ p.emu_track_ended = ended
    BY <1>2
  <2>2. Due(p, tr) /\ ToldEnd(s, p.src, p.emu_track_ended)
    BY <2>1 DEF Due
  <2>3. rest >= 1
    OBVIOUS
  <2>4. Coming(s, tr, p.emu_time, rest, q, k)
    BY <2>2, <2>3, RendersNext
  <2> QED
    BY <2>1, <2>4
<1>4. g = [src |-> new, out_time |-> out, emu_time |-> emu + rest, silence_time |-> silent, silence_count |-> 0,
           buf |-> <<>>, emu_track_ended |-> told, track_ended |-> FALSE]
  <2>1. Ran(s, p, rest).emu_track_ended = told
    BY <1>1, <1>2 DEF Ran
  <2>2. g = [p EXCEPT !.emu_time = emu + rest, !.src = new, !.emu_track_ended = told]
    BY <1>2, <2>1 DEF emu_play
  <2> HIDE DEF g, new, told
  <2> QED
    BY <1>2, <2>2
<1>5. R = IF h.emu_time - h.silence_time >= buf_size THEN fill_buf(s, h) ELSE h
  <2>1. rest # 0
    OBVIOUS
  <2> QED
    BY <2>1 DEF Remaining
<1>6. told \in BOOLEAN /\ new \in Nat /\ k \in 1 .. rest
  BY <1>3 DEF Coming
<1>7. from \in Nat /\ from <= now /\ now \in Nat
  <2> HIDE DEF k, told, new
  <2> QED
    BY <1>6
<1>8. Quiet(s, tr, SilentFrom(from), now)
  <2> HIDE DEF q, k
  <2>1. /\ k < rest => Quiet(s, tr, SilentFrom(emu + rest - k), emu + rest)
        /\ k = rest => Quiet(s, tr, SilentFrom(silent), emu + rest)
    BY <1>3, <1>6, SilentOn
  <2>2. k < rest \/ k = rest
    BY <1>6
  <2>3. ~(k = rest /\ k < rest)
    BY <1>6
  <2>4. now = emu + rest
    OBVIOUS
  <2> HIDE DEF now
  <2> QED
    BY <2>1, <2>2, <2>3, <2>4
<1>9. ToldEnd(s, new, told) /\ new <= tr + now /\ (~told => new = tr + now)
  <2>1. Finish(s) \in Nat
    BY TrackFilterAssumption DEF Finish
  <2> QED
    BY <1>1, <2>1 DEF ToldEnd
<1>10. /\ h = [src |-> new, out_time |-> out, emu_time |-> now, silence_time |-> from, silence_count |-> 0,
               buf |-> <<>>, emu_track_ended |-> told, track_ended |-> told]
       /\ H = [src |-> new, out_time |-> now, emu_time |-> now, silence_time |-> from, silence_count |-> 0,
               buf |-> <<>>, emu_track_ended |-> told, track_ended |-> told]
  <2>1. g.track_ended = FALSE /\ g.emu_track_ended = told /\ g.emu_time = emu + rest /\ g.silence_time = silent
    BY <1>4
  <2> HIDE DEF g, told, new, k
  <2>2. h = [g EXCEPT !.track_ended = told, !.silence_time = from]
    <3>1. (g.track_ended \/ g.emu_track_ended) = told
      BY <1>6, <2>1
    <3>2. (IF k < rest THEN g.emu_time - k ELSE g.silence_time) = from
      <4> DEFINE a == g.emu_time   b == g.silence_time
      <4>1. a = emu + rest /\ b = silent
        BY <2>1
      <4> HIDE DEF a, b
      <4>2. (IF k < rest THEN a - k ELSE b) = from
        BY <1>6, <4>1
      <4> QED
        BY <4>2 DEF a, b
    <3> HIDE DEF from
    <3>3. h = [g EXCEPT !.track_ended = (g.track_ended \/ g.emu_track_ended),
                        !.silence_time = IF k < rest THEN g.emu_time - k ELSE g.silence_time]
      OBVIOUS
    <3> HIDE DEF h
    <3> QED
      BY <3>1, <3>2, <3>3, Zenon
  <2>3. emu + rest = now
    OBVIOUS
  <2> HIDE DEF h, from, now
  <2>4. h = [src |-> new, out_time |-> out, emu_time |-> now, silence_time |-> from, silence_count |-> 0,
             buf |-> <<>>, emu_track_ended |-> told, track_ended |-> told]
    BY <1>4, <2>2, <2>3
  <2> QED
    BY <2>4, SMTT(30)
<1> HIDE DEF q, k, told, new, from, now, g, h, H
<1>11. h \in Filters
  <2>1. <<>> \in Seq(Nat)
    OBVIOUS
  <2> QED
    BY <1>6, <1>7, <1>10, <2>1 DEF Filters
<1>12. buf_size \in Nat /\ Len(<<>>) <= buf_size /\ <<>> \in Seq(Nat)
  BY Settings
<1>13. [R EXCEPT !.out_time = @ + n] = IF now - from >= buf_size THEN fill_buf(s, H) ELSE H
  <2>1. h.out_time = out /\ h.emu_time = now /\ h.silence_time = from
    BY <1>10
  <2>2. CASE now - from >= buf_size
    <3>1. R = fill_buf(s, h)
      BY <1>5, <2>1, <2>2
    <3>2. fill_buf(s, h).out_time = out
      <4>1. fill_buf(s, h).out_time = h.out_time
        BY <1>11 DEF fill_buf, emu_play, Filters
      <4> QED
        BY <2>1, <4>1
    <3>3. [R EXCEPT !.out_time = @ + n] = [fill_buf(s, h) EXCEPT !.out_time = now]
      BY <3>1, <3>2 DEF now
    <3>4. [fill_buf(s, h) EXCEPT !.out_time = now] = fill_buf(s, H)
      <4>1. OnlyTime(h, now, H)
        BY DEF OnlyTime, H
      <4>2. OnlyTime(fill_buf(s, h), now, fill_buf(s, H))
        BY <1>11, <4>1, FillBufAnyTime
      <4> QED
        BY <4>2 DEF OnlyTime
    <3> QED
      BY <2>2, <3>3, <3>4
  <2>3. CASE ~(now - from >= buf_size)
    <3>1. R = h
      BY <1>5, <2>1, <2>3
    <3>2. [R EXCEPT !.out_time = @ + n] = H
      BY <2>1, <3>1 DEF H, now
    <3> QED
      BY <2>3, <3>2
  <2> QED
    BY <2>2, <2>3
<1> HIDE DEF R
<1>14. CASE told
  <2> DEFINE c == IF now - from >= buf_size THEN buf_size ELSE 0
             E == [R EXCEPT !.out_time = @ + n]
  <2>1. Ended(s, tr, now, now, from)
    <3>1. ToldEnd(s, new, TRUE)
      BY <1>9, <1>14 DEF ToldEnd
    <3> QED
      BY <1>6, <1>7, <1>9, <3>1, EndedAtPlace
  <2>2. H.emu_track_ended = TRUE /\ H.silence_count = 0
    BY <1>6, <1>10, <1>14
  <2>3. E = [H EXCEPT !.silence_count = c]
    <3>1. fill_buf(s, H) = [H EXCEPT !.silence_count = buf_size]
      <4>1. fill_buf(s, H) = [H EXCEPT !.silence_count = H.silence_count + buf_size]
        BY <2>2 DEF fill_buf
      <4>2. H.silence_count + buf_size = buf_size
        BY <1>12, <2>2
      <4> QED
        BY <4>1, <4>2, Zenon
    <3>2. H = [H EXCEPT !.silence_count = 0]
      BY <1>10
    <3> QED
      BY <1>13, <3>1, <3>2
  <2>4. c \in Nat
    BY <1>12
  <2> HIDE DEF c, E
  <2>5. Holds(E, new, now, now, from, c, <<>>, TRUE, TRUE)
    BY <1>6, <1>10, <1>14, <2>3 DEF Holds
  <2>6. Good(s, E, tr)
    <3>1. new \in Nat
      BY <1>6
    <3> QED
      BY <1>7, <1>8, <2>1, <2>4, <2>5, <3>1, GoodEnded
  <2> QED
    BY <2>6 DEF E, R
<1>15. CASE ~told
  <2>1. Holds(H, new, now, now, from, 0, <<>>, told, FALSE)
    BY <1>6, <1>10, <1>15 DEF Holds
  <2>2. Ahead(s, tr, now, now, from, 0, new, <<>>, told)
    <3>1. now % 2 = 0
      BY DEF now
    <3> QED
      BY <1>7, <1>9, <1>15, <3>1, AheadOfNothing
  <2>3. H \in Filters
    BY <1>7, <1>11 DEF H, Filters
  <2>4. Good(s, H, tr)
    BY <1>7, <1>8, <1>12, <2>1, <2>2, <2>3, GoodAhead
  <2>5. ~H.track_ended /\ ~H.emu_track_ended /\ H.buf = <<>>
    BY <1>6, <1>10, <1>15
  <2>6. Good(s, fill_buf(s, H), tr)
    BY <2>4, <2>5, FillBufGood
  <2> DEFINE E == [R EXCEPT !.out_time = @ + n]
  <2>7. E = fill_buf(s, H) \/ E = H
    BY <1>13
  <2> HIDE DEF E
  <2>8. Good(s, E, tr)
    BY <2>4, <2>6, <2>7
  <2> QED
    BY <2>8 DEF E, R
<1> QED
  BY <1>14, <1>15


-----------------------------------------------------------------------------
(* play.                                                                    *)

\* The samples are those of the song; one before a silent one may be silent.
HeardRight(s, tr, from, samples) ==
  \A i \in 1 .. Len(samples) :
    /\ samples[i] \in {At(s, tr, from + i - 1), Silent}
    /\ At(s, tr, from + i) # Silent => samples[i] = At(s, tr, from + i - 1)

Due3(s, tr, from, q) == \A i \in 1 .. Len(q) : q[i] = At(s, tr, from + i - 1)

\* The places of three sequences in their concatenation.
LEMMA ThreeParts ==
  ASSUME NEW a \in Seq(Nat), NEW b \in Seq(Nat), NEW c \in Seq(Nat)
  PROVE  LET all == (a \o b) \o c
         IN  /\ Len(all) = Len(a) + Len(b) + Len(c)
             /\ \A i \in 1 .. Len(a) : all[i] = a[i]
             /\ \A i \in Len(a) + 1 .. Len(a) + Len(b) : all[i] = b[i - Len(a)]
             /\ \A i \in Len(a) + Len(b) + 1 .. Len(a) + Len(b) + Len(c) : all[i] = c[i - Len(a) - Len(b)]
<1> DEFINE d == a \o b
<1>1. /\ d \in Seq(Nat) /\ Len(d) = Len(a) + Len(b)
      /\ \A i \in 1 .. Len(a) : d[i] = a[i]
      /\ \A i \in Len(a) + 1 .. Len(a) + Len(b) : d[i] = b[i - Len(a)]
  OBVIOUS
<1> HIDE DEF d
<1> DEFINE e == d \o c
<1>2. /\ Len(e) = Len(d) + Len(c)
      /\ \A i \in 1 .. Len(d) : e[i] = d[i]
      /\ \A i \in Len(d) + 1 .. Len(d) + Len(c) : e[i] = c[i - Len(d)]
  <2>1. d \in Seq(Nat)
    BY <1>1
  <2> QED
    BY <2>1
<1> HIDE DEF e
<1>3. Len(a) \in Nat /\ Len(b) \in Nat /\ Len(c) \in Nat
  OBVIOUS
<1>4. \A i \in 1 .. Len(a) : e[i] = a[i]
  BY <1>1, <1>2, <1>3
<1>5. \A i \in Len(a) + 1 .. Len(a) + Len(b) : e[i] = b[i - Len(a)]
  BY <1>1, <1>2, <1>3
<1>6. \A i \in Len(a) + Len(b) + 1 .. Len(a) + Len(b) + Len(c) : e[i] = c[i - Len(a) - Len(b)]
  <2> SUFFICES ASSUME NEW i \in Len(a) + Len(b) + 1 .. Len(a) + Len(b) + Len(c)
               PROVE  e[i] = c[i - Len(a) - Len(b)]
    OBVIOUS
  <2>1. i \in Len(d) + 1 .. Len(d) + Len(c) /\ i - Len(d) = i - Len(a) - Len(b)
    BY <1>1, <1>3
  <2>2. e[i] = c[i - Len(d)]
    BY <1>2, <2>1
  <2> QED
    BY <2>1, <2>2
<1> QED
  BY <1>1, <1>2, <1>4, <1>5, <1>6 DEF e, d

\* Silence for a quiet stretch, then the samples due, then the next ones due, is the
\* song as it should be heard.
LEMMA HeardParts ==
  ASSUME NEW s, NEW tr \in Nat, NEW out \in Nat, NEW a \in Seq(Nat), NEW b \in Seq(Nat), NEW c \in Seq(Nat),
         \A i \in 1 .. Len(a) : a[i] = Silent, NoPair(s, tr, out, out + Len(a)),
         Due3(s, tr, out + Len(a), b), Due3(s, tr, out + Len(a) + Len(b), c)
  PROVE  HeardRight(s, tr, out, (a \o b) \o c)
<1> DEFINE all == (a \o b) \o c
           m == Len(a)   n == Len(b)   o == Len(c)
<1>1. m \in Nat /\ n \in Nat /\ o \in Nat
  OBVIOUS
<1>2. /\ Len(all) = m + n + o
      /\ \A i \in 1 .. m : all[i] = a[i]
      /\ \A i \in m + 1 .. m + n : all[i] = b[i - m]
      /\ \A i \in m + n + 1 .. m + n + o : all[i] = c[i - m - n]
  BY ThreeParts
<1>3. \A i \in 1 .. m : a[i] = Silent
  OBVIOUS
<1>4. NoPair(s, tr, out, out + m)
  OBVIOUS
<1>5. (\A i \in 1 .. n : b[i] = At(s, tr, out + m + i - 1))
  BY DEF Due3
<1>6. (\A i \in 1 .. o : c[i] = At(s, tr, out + m + n + i - 1))
  BY DEF Due3
<1> HIDE DEF all, m, n, o
<1> SUFFICES ASSUME NEW i \in 1 .. m + n + o
             PROVE  /\ all[i] \in {At(s, tr, out + i - 1), Silent}
                    /\ At(s, tr, out + i) # Silent => all[i] = At(s, tr, out + i - 1)
  BY <1>2 DEF HeardRight, all
<1>7. CASE i <= m
  <2>1. i \in 1 .. m
    BY <1>1, <1>7
  <2>2. all[i] = Silent
    BY <1>2, <1>3, <2>1
  <2> DEFINE now == out + i - 1
  <2>3. now \in out .. out + m - 1 /\ now + 1 = out + i
    BY <1>1, <2>1
  <2> HIDE DEF now
  <2>4. ~Pair(s, tr, now)
    BY <1>1, <1>4, <2>3 DEF NoPair
  <2>5. At(s, tr, now) = Silent \/ At(s, tr, now + 1) = Silent
    BY <2>4 DEF Pair
  <2>6. At(s, tr, out + i - 1) = Silent \/ At(s, tr, out + i) = Silent
    BY <2>3, <2>5 DEF now
  <2> QED
    BY <2>2, <2>6
<1>8. CASE i > m /\ i <= m + n
  <2>1. i \in m + 1 .. m + n /\ i - m \in 1 .. n /\ out + m + (i - m) - 1 = out + i - 1
    BY <1>1, <1>8
  <2>2. all[i] = b[i - m]
    BY <1>2, <2>1
  <2>3. all[i] = At(s, tr, out + i - 1)
    BY <1>5, <2>1, <2>2
  <2> QED
    BY <2>3
<1>9. CASE i > m + n
  <2>1. /\ i \in m + n + 1 .. m + n + o /\ i - m - n \in 1 .. o
        /\ out + m + n + (i - m - n) - 1 = out + i - 1
    BY <1>1, <1>9
  <2>2. all[i] = c[i - m - n]
    BY <1>2, <2>1
  <2>3. all[i] = At(s, tr, out + i - 1)
    BY <1>6, <2>1, <2>2
  <2> QED
    BY <2>3
<1> QED
  BY <1>1, <1>7, <1>8, <1>9


\* As many samples come from the emulator as it is asked for.
LEMMA RenderedSamples ==
  ASSUME NEW s, NEW f, f.src \in Nat, NEW count \in Nat
  PROVE  Rendered(s, f, count) \in Seq(Nat) /\ Len(Rendered(s, f, count)) = count
<1>1. Made(s, f, count) \in Seq(Nat) /\ Len(Made(s, f, count)) = count
  BY MadeSamples
<1>2. Silent \in Nat
  BY DEF Silent
<1> QED
  BY <1>1, <1>2 DEF Rendered

\* What play takes from silence and buffer, and what is left to the emulator.
Took(s, g, n, p, q, r, rest) ==
  /\ q = LesserOf(g.silence_count, n) /\ r = LesserOf(Len(g.buf), n - q) /\ rest = n - q - r
  /\ p = [g EXCEPT !.silence_count = @ - q, !.buf = SubSeq(@, r + 1, Len(@))]

Gives(s, f, n, g, p, q, r, rest) ==
  /\ Took(s, g, n, p, q, r, rest)
  /\ Played(s, f, n) = [Remaining(s, p, rest) EXCEPT !.out_time = @ + n]
  /\ PlayedOut(s, f, n) = ([i \in 1 .. q |-> Silent] \o SubSeq(g.buf, 1, r)) \o Rendered(s, p, rest)

\* play has three parts: silence, the buffer and what the emulator makes.
LEMMA PlayedParts ==
  ASSUME NEW s, NEW f, NEW n
  PROVE  \E p, q, r, rest : Gives(s, f, n, LookAhead(s, f, n), p, q, r, rest)
<1> DEFINE g == LookAhead(s, f, n)
           q == LesserOf(g.silence_count, n)
           r == LesserOf(Len(g.buf), n - q)
           rest == n - q - r
           p == [g EXCEPT !.silence_count = @ - q, !.buf = SubSeq(@, r + 1, Len(@))]
<1>1. Took(s, g, n, p, q, r, rest)
  BY DEF Took
<1>2. Played(s, f, n) = [Remaining(s, p, rest) EXCEPT !.out_time = @ + n]
  BY DEF Played, Parts
<1>3. PlayedOut(s, f, n) = ([i \in 1 .. q |-> Silent] \o SubSeq(g.buf, 1, r)) \o Rendered(s, p, rest)
  BY DEF PlayedOut, Parts, FromBuffer
<1>4. Gives(s, f, n, g, p, q, r, rest)
  BY <1>1, <1>2, <1>3 DEF Gives
<1> HIDE DEF q, r, rest, p
<1> QED
  BY <1>4

\* Nothing but silence, for too long.
LEMMA PlaysSilence ==
  ASSUME NEW s \in Songs, NEW tr \in Nat, NEW g, NEW out \in Nat, NEW n \in Nat, TooSilent(s, tr, g, out, n),
         NEW p, NEW q, NEW r, NEW rest, Took(s, g, n, p, q, r, rest)
  PROVE  /\ Good(s, [Remaining(s, p, rest) EXCEPT !.out_time = @ + n], tr)
         /\ HeardRight(s, tr, out, ([i \in 1 .. q |-> Silent] \o SubSeq(g.buf, 1, r)) \o Rendered(s, p, rest))
<1> DEFINE emu == g.emu_time   silent == g.silence_time   src == g.src
<1>1. /\ g \in Filters /\ g.out_time = out /\ g.track_ended /\ g.emu_track_ended
      /\ g.silence_count = n /\ g.buf = <<>> /\ silent <= emu
      /\ Quiet(s, tr, SilentFrom(silent), emu)
      /\ emu - silent > max_silence
      /\ NoPair(s, tr, out, out + n)
  BY DEF TooSilent
<1>2. emu \in Nat /\ silent \in Nat /\ src \in Nat
  BY <1>1, Members
<1>3. Len(<<>>) = 0 /\ SubSeq(<<>>, 1, 0) = <<>>
  OBVIOUS
<1>4. q = n /\ r = 0 /\ rest = 0
  <2>1. q = n
    BY <1>1 DEF Took, LesserOf
  <2>2. r = 0
    BY <1>1, <1>3, <2>1 DEF Took, LesserOf
  <2> QED
    BY <2>1, <2>2 DEF Took
<1>5. p = [g EXCEPT !.silence_count = 0, !.buf = <<>>]
  <2>1. p = [g EXCEPT !.silence_count = g.silence_count - q, !.buf = SubSeq(g.buf, r + 1, Len(g.buf))]
    BY DEF Took
  <2>2. g.silence_count - q = 0
    BY <1>1, <1>4
  <2>3. SubSeq(g.buf, r + 1, Len(g.buf)) = <<>>
    BY <1>1, <1>3, <1>4
  <2> QED
    BY <2>1, <2>2, <2>3, Zenon
<1>6. Holds(g, src, out, emu, silent, n, <<>>, TRUE, TRUE)
  <2>1. g.track_ended = TRUE /\ g.emu_track_ended = TRUE
    BY <1>1, Members
  <2>2. Holds(g, g.src, g.out_time, g.emu_time, g.silence_time, g.silence_count, g.buf,
              g.emu_track_ended, g.track_ended)
    BY <1>1, HoldsSome
  <2> QED
    BY <1>1, <2>1, <2>2
<1> HIDE DEF emu, silent, src
<1> DEFINE E == [Remaining(s, p, rest) EXCEPT !.out_time = @ + n]
<1>7. Holds(E, src, out + n, emu, silent, 0, <<>>, TRUE, TRUE)
  <2>1. Remaining(s, p, rest) = p
    BY <1>4 DEF Remaining
  <2>2. p = [src |-> src, out_time |-> out, emu_time |-> emu, silence_time |-> silent,
             silence_count |-> 0, buf |-> <<>>, emu_track_ended |-> TRUE, track_ended |-> TRUE]
    BY <1>5, <1>6 DEF Holds
  <2> HIDE DEF E
  <2>3. E = [p EXCEPT !.out_time = out + n]
    BY <2>1, <2>2 DEF E
  <2> QED
    BY <2>2, <2>3 DEF Holds
<1>8. Good(s, E, tr)
  <2>1. Ended(s, tr, out + n, emu, silent)
    BY <1>1 DEF Ended
  <2>2. out + n \in Nat /\ 0 \in Nat
    OBVIOUS
  <2> HIDE DEF E
  <2> QED
    BY <1>1, <1>2, <1>7, <2>1, <2>2, GoodEnded
<1>9. HeardRight(s, tr, out, ([i \in 1 .. q |-> Silent] \o SubSeq(g.buf, 1, r)) \o Rendered(s, p, rest))
  <2> DEFINE a == [i \in 1 .. q |-> Silent]
             b == SubSeq(g.buf, 1, r)
             c == Rendered(s, p, rest)
  <2>1. a \in Seq(Nat) /\ Len(a) = n /\ \A i \in 1 .. Len(a) : a[i] = Silent
    BY <1>4 DEF Silent
  <2>2. b = <<>> /\ b \in Seq(Nat) /\ Len(b) = 0
    BY <1>1, <1>3, <1>4
  <2>3. p.src \in Nat
    BY <1>1, <1>5, Members DEF Filters
  <2>4. c \in Seq(Nat) /\ Len(c) = 0
    BY <1>4, <2>3, RenderedSamples
  <2> HIDE DEF a, b, c
  <2>5. Due3(s, tr, out + Len(a), b) /\ Due3(s, tr, out + Len(a) + Len(b), c)
    BY <2>2, <2>4 DEF Due3
  <2>6. NoPair(s, tr, out, out + Len(a))
    BY <1>1, <2>1
  <2>7. HeardRight(s, tr, out, (a \o b) \o c)
    BY <2>1, <2>2, <2>4, <2>5, <2>6, HeardParts
  <2> QED
    BY <2>7 DEF a, b, c
<1> QED
  BY <1>8, <1>9


\* A filter of which silence and buffer have been used.
LEMMA HoldsLess ==
  ASSUME NEW g, NEW src, NEW out, NEW emu, NEW silent, NEW quiet, NEW buf, NEW ended, NEW track,
         Holds(g, src, out, emu, silent, quiet, buf, ended, track),
         NEW p, NEW less, NEW left, p = [g EXCEPT !.silence_count = less, !.buf = left]
  PROVE  Holds(p, src, out, emu, silent, less, left, ended, track)
BY DEF Holds

\* The silence, the buffer and what the emulator makes are the song.
LEMMA PlaysSong ==
  ASSUME NEW s \in Songs, NEW tr \in Nat, NEW g, Good(s, g, tr), ~g.track_ended, NEW out, out = g.out_time,
         NEW n \in Nat, n % 2 = 0, NEW p, NEW q, NEW r, NEW rest, Took(s, g, n, p, q, r, rest)
  PROVE  /\ Good(s, [Remaining(s, p, rest) EXCEPT !.out_time = @ + n], tr)
         /\ HeardRight(s, tr, out, ([i \in 1 .. q |-> Silent] \o SubSeq(g.buf, 1, r)) \o Rendered(s, p, rest))
<1> DEFINE emu == g.emu_time   silent == g.silence_time   src == g.src   quiet == g.silence_count
           buf == g.buf   ended == g.emu_track_ended
           left == SubSeq(buf, r + 1, Len(buf))
           E == [Remaining(s, p, rest) EXCEPT !.out_time = @ + n]
           now == out + n
<1>1. /\ g \in Filters /\ out \in Nat /\ emu \in Nat /\ silent \in Nat /\ quiet \in Nat /\ src \in Nat
      /\ buf \in Seq(Nat) /\ Len(buf) \in Nat /\ ended \in BOOLEAN
      /\ silent <= emu /\ Len(buf) <= buf_size /\ Quiet(s, tr, SilentFrom(silent), emu)
      /\ Ahead(s, tr, out, emu, silent, quiet, src, buf, ended)
  BY Members DEF Good
<1>2. Holds(g, src, out, emu, silent, quiet, buf, ended, FALSE)
  <2>1. Holds(g, g.src, g.out_time, g.emu_time, g.silence_time, g.silence_count, g.buf,
              g.emu_track_ended, g.track_ended)
    BY <1>1, HoldsSome
  <2>2. g.track_ended = FALSE
    BY <1>1, Members
  <2> QED
    BY <2>1, <2>2
<1>3. q = LesserOf(quiet, n) /\ r = LesserOf(Len(buf), n - q) /\ rest = n - q - r
      /\ p = [g EXCEPT !.silence_count = g.silence_count - q, !.buf = left]
  BY DEF Took
<1> SUFFICES /\ Good(s, E, tr)
             /\ HeardRight(s, tr, out, ([i \in 1 .. q |-> Silent] \o SubSeq(buf, 1, r)) \o Rendered(s, p, rest))
  OBVIOUS
<1>4. p = [src |-> src, out_time |-> out, emu_time |-> emu, silence_time |-> silent,
           silence_count |-> quiet - q, buf |-> left, emu_track_ended |-> ended, track_ended |-> FALSE]
  <2>1. p = [g EXCEPT !.silence_count = quiet - q, !.buf = left]
    BY <1>3
  <2> DEFINE less == quiet - q
  <2> HIDE DEF emu, silent, src, quiet, buf, ended, left, less
  <2>2. p = [g EXCEPT !.silence_count = less, !.buf = left]
    BY <2>1 DEF less
  <2>3. p = [src |-> src, out_time |-> out, emu_time |-> emu, silence_time |-> silent,
             silence_count |-> less, buf |-> left, emu_track_ended |-> ended, track_ended |-> FALSE]
    <3>1. Holds(p, src, out, emu, silent, less, left, ended, FALSE)
      BY <1>2, <2>2, HoldsLess
    <3> QED
      BY <3>1 DEF Holds
  <2> QED
    BY <2>3 DEF less
<1> HIDE DEF emu, silent, src, quiet, buf, ended, left, E, now
<1>5. Shared(n, quiet, Len(buf), q, r)
  <2>1. quiet % 2 = 0 /\ Len(buf) % 2 = 0
    BY <1>1 DEF Ahead, Framed
  <2> QED
    BY <1>1, <1>3, <2>1, Shares
<1>6. /\ q \in Nat /\ r \in Nat /\ q <= quiet /\ r <= Len(buf) /\ q + r <= n /\ rest \in Nat
      /\ r > 0 => q = quiet
      /\ q + r < n => q = quiet /\ r = Len(buf)
  BY <1>1, <1>3, <1>5, SMTT(30) DEF Shared
<1>7. SharedLeft(s, tr, out, emu, silent, quiet, src, buf, ended, n, q, r)
  BY <1>1, <1>5, SharedOut
<1>8. /\ left \in Seq(Nat) /\ Len(left) = Len(buf) - r /\ now % 2 = 0
      /\ q + r = n => Ahead(s, tr, now, emu, silent, quiet - q, src, left, ended)
      /\ q + r < n => /\ quiet - q = 0 /\ left = <<>> /\ emu = out + q + r
                      /\ n - q - r >= 2 /\ silent <= now
  BY <1>7 DEF SharedLeft, left, now
<1>9. src = tr + emu /\ ToldEnd(s, src, ended) /\ Ready(s, tr, out + quiet, buf) /\ Quiet(s, tr, out, out + quiet)
  BY <1>1 DEF Ahead, Sums
<1>10. quiet - q \in Nat /\ now \in Nat /\ p \in Filters
  <2>1. quiet - q \in Nat /\ now \in Nat
    BY <1>1, <1>6, SMTT(30) DEF now
  <2> QED
    BY <1>1, <1>4, <1>8, <2>1 DEF Filters
<1>11. q + r = n \/ q + r < n
  BY <1>6
<1>12. Good(s, E, tr)
  <2>1. CASE q + r = n
    <3>1. rest = 0
      BY <1>3, <1>6, <2>1
    <3>2. Remaining(s, p, rest) = p
      BY <3>1 DEF Remaining
    <3>3. E = [p EXCEPT !.out_time = now]
      <4>1. p.out_time = out
        BY <1>4
      <4> QED
        BY <3>2, <4>1 DEF E, now
    <3>4. Holds(E, src, now, emu, silent, quiet - q, left, ended, FALSE)
      BY <1>4, <3>3 DEF Holds
    <3>5. E \in Filters
      BY <1>10, <3>3 DEF Filters
    <3>6. Len(left) <= buf_size
      BY <1>1, <1>6, <1>8, Settings
    <3>7. Ahead(s, tr, now, emu, silent, quiet - q, src, left, ended)
      BY <1>8, <2>1
    <3>8. silent <= emu /\ Quiet(s, tr, SilentFrom(silent), emu)
      BY <1>1
    <3> QED
      BY <3>4, <3>5, <3>6, <3>7, <3>8, GoodAhead
  <2>2. CASE q + r < n
    <3>1. /\ quiet - q = 0 /\ left = <<>> /\ emu = out + q + r /\ rest >= 2
      BY <1>3, <1>8, <2>2
    <3>2. Holds(p, src, out, emu, silent, 0, <<>>, ended, FALSE)
      BY <1>4, <3>1 DEF Holds
    <3>3. emu + rest = out + n /\ (out + n) % 2 = 0
      <4>1. emu + rest = out + n
        BY <1>1, <1>3, <1>6, <3>1, SMTT(30)
      <4> QED
        BY <4>1, <1>8 DEF now
    <3>4. Good(s, [Remaining(s, p, rest) EXCEPT !.out_time = @ + n], tr)
      BY <1>1, <1>6, <1>9, <1>10, <3>1, <3>2, <3>3, RemainingGood
    <3> QED
      BY <3>4 DEF E
  <2> QED
    BY <1>11, <2>1, <2>2
<1>13. HeardRight(s, tr, out, ([i \in 1 .. q |-> Silent] \o SubSeq(buf, 1, r)) \o Rendered(s, p, rest))
  <2> DEFINE a == [i \in 1 .. q |-> Silent]
             b == SubSeq(buf, 1, r)
             c == Rendered(s, p, rest)
  <2>1. a \in Seq(Nat) /\ Len(a) = q /\ \A i \in 1 .. Len(a) : a[i] = Silent
    BY <1>6 DEF Silent
  <2>2. b \in Seq(Nat) /\ Len(b) = r /\ \A i \in 1 .. r : b[i] = buf[i]
    <3>1. r \in 0 .. Len(buf)
      BY <1>1, <1>6
    <3> QED
      BY <1>1, <3>1, BufferCut
  <2>3. p.src = src /\ p.emu_time = emu /\ p.emu_track_ended = ended
    BY <1>4
  <2>4. c \in Seq(Nat) /\ Len(c) = rest
    BY <1>1, <1>6, <2>3, RenderedSamples
  <2>5. Due3(s, tr, out + Len(a), b)
    <3> SUFFICES ASSUME NEW i \in 1 .. r PROVE b[i] = At(s, tr, out + q + i - 1)
      <4> HIDE DEF a, b
      <4> QED
        BY <2>1, <2>2 DEF Due3
    <3>1. i \in 1 .. Len(buf) /\ q = quiet
      BY <1>1, <1>6
    <3>2. buf[i] = At(s, tr, out + quiet + i - 1)
      BY <1>9, <3>1 DEF Ready
    <3> HIDE DEF b
    <3> QED
      BY <2>2, <3>1, <3>2
  <2>6. Due3(s, tr, out + Len(a) + Len(b), c)
    <3>1. CASE rest = 0
      <4> HIDE DEF a, b, c
      <4> QED
        BY <2>4, <3>1 DEF Due3
    <3>2. CASE rest # 0
      <4>1. q + r < n
        BY <1>3, <1>6, <1>11, <3>2
      <4>2. emu = out + q + r /\ rest >= 1
        BY <1>3, <1>6, <1>8, <3>2, <4>1
      <4>3. Due(p, tr) /\ ToldEnd(s, p.src, p.emu_track_ended)
        BY <1>1, <1>9, <2>3 DEF Due
      <4>4. Coming(s, tr, p.emu_time, rest, c, count_silence(c))
        BY <1>6, <4>2, <4>3, RendersNext
      <4> HIDE DEF a, b, c
      <4>5. \A i \in 1 .. rest : c[i] = At(s, tr, emu + i - 1)
        BY <2>3, <4>4 DEF Coming
      <4>6. Due3(s, tr, emu, c)
        BY <2>4, <4>5 DEF Due3
      <4>7. emu = out + Len(a) + Len(b)
        BY <2>1, <2>2, <4>2
      <4> QED
        BY <4>6, <4>7
    <3> QED
      BY <3>1, <3>2
  <2>7. NoPair(s, tr, out, out + Len(a))
    <3> DEFINE to == out + q
               ahead == out + quiet
    <3>1. to \in Nat /\ ahead \in Nat /\ ~(ahead < to)
      BY <1>1, <1>6, SMTT(30)
    <3>2. Quiet(s, tr, out, ahead)
      BY <1>9
    <3> HIDE DEF to, ahead
    <3>3. NoPair(s, tr, out, to)
      BY <1>1, <3>1, <3>2, PairNotBehind
    <3> QED
      BY <2>1, <3>3 DEF to
  <2> HIDE DEF a, b, c
  <2>8. HeardRight(s, tr, out, (a \o b) \o c)
    BY <1>1, <2>1, <2>2, <2>4, <2>5, <2>6, <2>7, HeardParts
  <2> QED
    BY <2>8 DEF a, b, c
<1> QED
  BY <1>12, <1>13

\* play (Track_Filter.cpp:214-293) keeps a filter in order and gives the samples that are
\* due.
LEMMA PlayedGood ==
  ASSUME NEW s \in Songs, NEW f, NEW tr \in Nat, Good(s, f, tr), ~f.track_ended, NEW n \in Nat, n % 2 = 0
  PROVE  Good(s, Played(s, f, n), tr) /\ HeardRight(s, tr, f.out_time, PlayedOut(s, f, n))
<1> DEFINE g == LookAhead(s, f, n)
           out == f.out_time
<1>1. \/ Good(s, g, tr) /\ ~g.track_ended /\ g.out_time = out
      \/ TooSilent(s, tr, g, out, n)
  BY LookAheadGood
<1>2. out \in Nat
  BY Members DEF Good
<1> HIDE DEF g, out
<1>5. PICK p, q, r, rest : Gives(s, f, n, g, p, q, r, rest)
  BY PlayedParts DEF g
<1>3. /\ Took(s, g, n, p, q, r, rest)
      /\ Played(s, f, n) = [Remaining(s, p, rest) EXCEPT !.out_time = @ + n]
      /\ PlayedOut(s, f, n) = ([i \in 1 .. q |-> Silent] \o SubSeq(g.buf, 1, r)) \o Rendered(s, p, rest)
  BY <1>5 DEF Gives
<1>4. /\ Good(s, [Remaining(s, p, rest) EXCEPT !.out_time = @ + n], tr)
      /\ HeardRight(s, tr, out, ([i \in 1 .. q |-> Silent] \o SubSeq(g.buf, 1, r)) \o Rendered(s, p, rest))
  <2>1. CASE TooSilent(s, tr, g, out, n)
    BY <1>2, <1>3, <2>1, PlaysSilence
  <2>2. CASE Good(s, g, tr) /\ ~g.track_ended /\ g.out_time = out
    BY <1>2, <1>3, <2>2, PlaysSong
  <2> QED
    BY <1>1, <2>1, <2>2
<1> QED
  BY <1>3, <1>4 DEF out


-----------------------------------------------------------------------------
(* The inductive invariant: before the first track the filter is Stopped;   *)
(* then it is in order for the song and what was dropped, only silence was  *)
(* dropped, and what was heard last is the song.                            *)

FilterInv ==
  /\ song \in Songs \cup {None} /\ trim \in Nat /\ heard.from \in Nat
  /\ song = None => filter = Stopped /\ heard = Nothing
  /\ song # None => /\ Good(song, filter, trim)
                    /\ trim <= max_initial + buf_size /\ QuietDropped(song, trim)
                    /\ HeardRight(song, trim, heard.from, heard.samples)

\* The filter is made by stop.
LEMMA InvInit == Init => FilterInv
BY DEF Init, FilterInv, Nothing

\* Before the first play there is nothing to be wrong.
LEMMA NothingHeard ==
  ASSUME NEW s, NEW tr
  PROVE  Nothing.from \in Nat /\ HeardRight(s, tr, Nothing.from, Nothing.samples)
<1>1. Nothing.from = 0 /\ Nothing.samples = <<>> /\ Len(<<>>) = 0
  BY DEF Nothing
<1> QED
  BY <1>1 DEF HeardRight

\* A seek forwards is a skip of whole frames.
LEMMA SeekGood ==
  ASSUME NEW s \in Songs, NEW f, NEW tr \in Nat, Good(s, f, tr), NEW time \in Targets, ~(time < f.out_time)
  PROVE  Good(s, skip(s, f, time - f.out_time), tr)
<1> DEFINE out == f.out_time
           n == time - out
<1>1. out \in Nat /\ time \in Nat
  BY Members, Settings DEF Good
<1>2. time % 2 = 0
  BY Settings
<1>3. ~f.track_ended => out % 2 = 0
  <2>1. ~f.track_ended => Ahead(s, tr, out, f.emu_time, f.silence_time, f.silence_count, f.src, f.buf,
                                f.emu_track_ended)
    BY DEF Good
  <2> QED
    BY <2>1 DEF Ahead, Framed
<1>4. time >= out
  <2> HIDE DEF n
  <2>1. ~(time < out)
    OBVIOUS
  <2> HIDE DEF out
  <2> QED
    BY <1>1, <2>1
<1> SUFFICES Good(s, skip(s, f, n), tr)
  OBVIOUS
<1> HIDE DEF out
<1>5. n \in Nat
  BY <1>1, <1>4
<1>6. out % 2 = 0 => n % 2 = 0
  BY <1>1, <1>2, <1>4, EvenSum
<1> HIDE DEF n
<1>7. ~f.track_ended => n % 2 = 0
  BY <1>3, <1>6
<1> QED
  BY <1>5, <1>7, SkipGood

\* Each of StartTrack, Seek and Play keeps the invariant.
LEMMA InvNext == FilterInv /\ [Next]_vars => FilterInv'
<1> SUFFICES ASSUME FilterInv, [Next]_vars PROVE FilterInv'
  OBVIOUS
<1>1. ASSUME NEW s \in Songs, StartTrack(s) PROVE FilterInv'
  <2>1. song' = s /\ filter' = start_track(s) /\ trim' = Dropped(filter') /\ heard' = Nothing
    BY <1>1 DEF StartTrack
  <2>2. s # None
    BY TrackFilterAssumption
  <2>3. /\ trim' \in Nat /\ Good(song', filter', trim')
        /\ trim' <= max_initial + buf_size /\ QuietDropped(song', trim')
    BY <2>1, StartGood
  <2>4. heard'.from \in Nat /\ HeardRight(song', trim', heard'.from, heard'.samples)
    BY <2>1, NothingHeard
  <2>5. song' \in Songs /\ song' # None
    BY <2>1, <2>2
  <2> QED
    BY <2>3, <2>4, <2>5 DEF FilterInv
<1>2. ASSUME NEW time \in Targets, Seek(time) PROVE FilterInv'
  <2> DEFINE f == IF time < filter.out_time THEN start_track(song) ELSE filter
  <2>1. /\ song # None /\ song' = song /\ filter' = skip(song, f, time - f.out_time) /\ heard' = Nothing
        /\ trim' = IF time < filter.out_time THEN Dropped(start_track(song)) ELSE trim
    BY <1>2 DEF Seek
  <2>2. /\ song \in Songs /\ trim \in Nat /\ Good(song, filter, trim)
        /\ trim <= max_initial + buf_size /\ QuietDropped(song, trim)
    BY <2>1 DEF FilterInv
  <2>3. /\ trim' \in Nat /\ Good(song, f, trim') /\ ~(time < f.out_time)
        /\ trim' <= max_initial + buf_size /\ QuietDropped(song, trim')
    <3>1. CASE time < filter.out_time
      <4>1. f = start_track(song) /\ trim' = Dropped(start_track(song))
        BY <2>1, <3>1
      <4>2. f.out_time = 0 /\ time \in Nat
        BY <2>2, <4>1, StartGood, Settings
      <4>3. ~(time < f.out_time)
        <5>1. ~(time < 0)
          BY <4>2
        <5> QED
          BY <4>2, <5>1
      <4> HIDE DEF f
      <4> QED
        BY <2>2, <4>1, <4>3, StartGood
    <3>2. CASE ~(time < filter.out_time)
      <4>1. f = filter /\ trim' = trim
        BY <2>1, <3>2
      <4> HIDE DEF f
      <4> QED
        BY <2>2, <3>2, <4>1
    <3> QED
      BY <3>1, <3>2
  <2> HIDE DEF f
  <2>4. Good(song', filter', trim')
    BY <2>1, <2>2, <2>3, SeekGood
  <2>5. heard'.from \in Nat /\ HeardRight(song', trim', heard'.from, heard'.samples)
    BY <2>1, NothingHeard
  <2>6. song' \in Songs /\ song' # None /\ song' = song
    BY <2>1, <2>2
  <2> QED
    BY <2>3, <2>4, <2>5, <2>6 DEF FilterInv
<1>3. ASSUME NEW n \in Counts, Play(n) PROVE FilterInv'
  <2>1. /\ ~filter.track_ended /\ filter' = Played(song, filter, n) /\ song' = song /\ trim' = trim
        /\ heard' = [from |-> filter.out_time, samples |-> PlayedOut(song, filter, n)]
    BY <1>3 DEF Play
  <2>2. song # None
    <3>1. Stopped.track_ended = TRUE
      BY DEF Stopped
    <3> QED
      BY <2>1, <3>1 DEF FilterInv
  <2>3. /\ song \in Songs /\ trim \in Nat /\ Good(song, filter, trim)
        /\ trim <= max_initial + buf_size /\ QuietDropped(song, trim)
    BY <2>2 DEF FilterInv
  <2>4. n \in Nat /\ n % 2 = 0
    BY Settings
  <2>5. Good(song, filter', trim) /\ HeardRight(song, trim, filter.out_time, PlayedOut(song, filter, n))
    BY <2>1, <2>3, <2>4, PlayedGood
  <2>6. heard'.from = filter.out_time /\ heard'.samples = PlayedOut(song, filter, n)
    BY <2>1
  <2>7. filter.out_time \in Nat
    BY <2>3, Members DEF Good
  <2> QED
    BY <2>1, <2>2, <2>3, <2>5, <2>6, <2>7 DEF FilterInv
<1>4. CASE UNCHANGED vars
  BY <1>4 DEF vars, FilterInv
<1> QED
  BY <1>1, <1>2, <1>3, <1>4 DEF Next

\* The sums of Ahead are what TimesAgree says of the clocks.
LEMMA InvTimesAgree == FilterInv => TimesAgree
<1> SUFFICES ASSUME FilterInv PROVE TimesAgree
  OBVIOUS
<1>1. CASE song = None
  <2>1. /\ filter.silence_count = 0 /\ filter.silence_time = 0 /\ filter.emu_time = 0 /\ filter.buf = <<>>
        /\ filter.track_ended = TRUE /\ filter.emu_track_ended = TRUE
    BY <1>1 DEF FilterInv, Stopped
  <2>2. 0 >= 0 /\ 0 <= 0 /\ Len(<<>>) <= buf_size
    BY Settings
  <2> QED
    BY <2>1, <2>2 DEF TimesAgree
<1>2. CASE song # None
  <2> DEFINE out == filter.out_time   emu == filter.emu_time   silent == filter.silence_time
             quiet == filter.silence_count   src == filter.src   buf == filter.buf
  <2>1. Good(song, filter, trim) /\ trim \in Nat
    BY <1>2 DEF FilterInv
  <2>2. /\ out \in Nat /\ emu \in Nat /\ quiet \in Nat /\ Len(buf) \in Nat /\ silent <= emu
        /\ Len(buf) <= buf_size
        /\ filter.track_ended => filter.emu_track_ended
        /\ ~filter.track_ended => Ahead(song, trim, out, emu, silent, quiet, src, buf, filter.emu_track_ended)
    BY <2>1, Members DEF Good
  <2>3. ~filter.track_ended => emu = out + quiet + Len(buf) /\ src = trim + emu
    BY <2>2 DEF Ahead, Sums
  <2> HIDE DEF out, emu, silent, quiet, src, buf
  <2>4. emu = out + quiet + Len(buf) => emu >= out /\ emu - out = quiet + Len(buf)
    BY <2>2
  <2>5. quiet >= 0
    BY <2>2
  <2> QED
    BY <2>2, <2>3, <2>4, <2>5 DEF TimesAgree, out, emu, silent, quiet, src, buf
<1> QED
  BY <1>1, <1>2

\* HeardRight is InStep, for the song and the place it begins at.
LEMMA InvInStep == FilterInv => InStep
<1> SUFFICES ASSUME FilterInv, NEW i \in 1 .. Len(heard.samples)
             PROVE  LET time == heard.from + i - 1
                    IN  /\ heard.samples[i] \in {LoudAt(time), Silent}
                        /\ LoudAt(time + 1) # Silent => heard.samples[i] = LoudAt(time)
  BY DEF InStep
<1>1. song # None
  <2>1. Nothing.samples = <<>> /\ Len(<<>>) = 0
    BY DEF Nothing
  <2> QED
    BY <2>1 DEF FilterInv
<1> DEFINE from == heard.from
           q == heard.samples
<1>2. HeardRight(song, trim, from, q) /\ from \in Nat
  BY <1>1 DEF FilterInv
<1>3. /\ q[i] \in {At(song, trim, from + i - 1), Silent}
      /\ At(song, trim, from + i) # Silent => q[i] = At(song, trim, from + i - 1)
  BY <1>2 DEF HeardRight
<1>4. \A time : LoudAt(time) = At(song, trim, time)
  BY <1>1 DEF LoudAt, At
<1> HIDE DEF q, from
<1>5. from + i - 1 + 1 = from + i
  BY <1>2
<1> QED
  BY <1>3, <1>4, <1>5 DEF q, from

\* QuietDropped, Quiet and Ended are what EndsForAReason says of the beginning, of
\* the silence that is timed and of the end.
LEMMA InvEndsForAReason == FilterInv => EndsForAReason
<1> SUFFICES ASSUME FilterInv, song # None PROVE EndsForAReason
  BY DEF EndsForAReason
<1> DEFINE out == filter.out_time   emu == filter.emu_time   silent == filter.silence_time
<1>1. /\ song \in Songs /\ trim \in Nat /\ Good(song, filter, trim)
      /\ trim <= max_initial + buf_size /\ QuietDropped(song, trim)
  BY DEF FilterInv
<1>2. /\ out \in Nat /\ emu \in Nat /\ silent \in Nat /\ Quiet(song, trim, SilentFrom(silent), emu)
      /\ filter.track_ended => Ended(song, trim, out, emu, silent)
  BY <1>1, Members DEF Good
<1>3. \A time : LoudAt(time) = At(song, trim, time)
  BY DEF LoudAt, At
<1>4. \A time : (LoudAt(time) # Silent /\ LoudAt(time + 1) # Silent) <=> Pair(song, trim, time)
  BY <1>3 DEF Pair
<1>5. ~SoundIn(-trim, 0)
  <2>1. 0 - 2 = -2
    OBVIOUS
  <2>2. \A t \in -trim .. 0 - 2 : ~Pair(song, trim, t)
    BY <1>1, <2>1 DEF QuietDropped
  <2> QED
    BY <1>4, <2>2 DEF SoundIn
<1>6. SilentSince = SilentFrom(silent)
  BY DEF SilentSince, SilentFrom
<1>7. ~SoundIn(SilentSince, emu)
  <2>1. \A t \in SilentFrom(silent) .. emu - 2 : ~Pair(song, trim, t)
    BY <1>2 DEF Quiet
  <2> HIDE DEF emu, silent
  <2> QED
    BY <1>4, <1>6, <2>1 DEF SoundIn
<1>8. ASSUME filter.track_ended
      PROVE  \/ emu - silent > max_silence
             \/ song \notin Loops /\ ~SoundIn(out, Finish(song) - trim)
  <2>1. CASE song \notin Loops /\ trim + out >= Finish(song)
    <3>1. Finish(song) \in Nat
      BY <1>1, TrackFilterAssumption DEF Finish
    <3> HIDE DEF out
    <3>2. \A t \in out .. (Finish(song) - trim) - 2 : FALSE
      BY <1>1, <1>2, <2>1, <3>1
    <3>3. ~SoundIn(out, Finish(song) - trim)
      BY <3>2 DEF SoundIn
    <3> QED
      BY <2>1, <3>3
  <2> QED
    BY <1>2, <1>8, <2>1 DEF Ended
<1> QED
  BY <1>1, <1>5, <1>7, <1>8 DEF EndsForAReason

\* FilterInv holds in every behaviour.
LEMMA Invariance == Spec => []FilterInv
<1> QED
  BY InvInit, InvNext, PTL DEF Spec

\* The counters of Track_Filter mean what their names say, and play never finds
\* the emulator behind (Track_Filter.h:82-98, the assertion in Track_Filter.cpp's
\* play): for every song, every size of the buffer and every order of starting,
\* seeking and playing.
THEOREM CountsAgree == Spec => []TimesAgree
BY Invariance, InvTimesAgree, PTL

\* What is heard is the song (Track_Filter.cpp:214-292): no sound is lost, repeated
\* or moved, whatever the emulator was ahead by, but that a loud sample with a
\* silent one behind it may be heard as silence.
THEOREM PlaysTheSong == Spec => []InStep
BY Invariance, InvInStep, PTL

\* Only silence is dropped from the beginning, and a track ends for too long a
\* silence or at the end of its song (Track_Filter.cpp:57-87, 185-247).
THEOREM EndsRightly == Spec => []EndsForAReason
BY Invariance, InvEndsForAReason, PTL


=============================================================================
