---------------------------- MODULE MCSequencer ----------------------------
(***************************************************************************)
(* Three channels and five songs for Sequencer: two tracks that take the   *)
(* channels from each other, tied notes that lose theirs to another track, *)
(* calls and loops as deep as the stack and deeper, a fast one with random *)
(* lengths, and one that opens tracks for ever.                            *)
(***************************************************************************)
EXTENDS Sequencer

note(k, n) == [cmd |-> "note", kind |-> k, n |-> n]
num(c, n) == [cmd |-> c, n |-> n]
to(c, p) == [cmd |-> c, to |-> p]
set(c, b) == [cmd |-> c, on |-> b]
plain(c) == [cmd |-> c]

MCOrders == [pcm |-> <<2, 1, 3>>, psg |-> <<3>>]

MCData == [
  duet |-> <<to("opentrack", 7), note("pcm", 2), num("prio", 100), note("psg", 1),
             note("pcm", 1), to("goto", 2),
             set("notewait", FALSE), note("pcm", 3), note("psg", 2), num("rest", 1), to("goto", 8)>>,
  tied |-> <<to("opentrack", 16), set("notewait", FALSE), note("pcm", 2), num("loopstart", 258),
             note("none", 1), plain("loopend"), note("pcm", 1), set("tie", TRUE), set("notewait", TRUE),
             note("pcm", 1), note("psg", 2), note("pcm", 1), set("tie", FALSE), num("rest", 2), plain("end"),
             num("prio", 100), note("pcm", 2), note("psg", 1), plain("end")>>,
  deep |-> <<num("loopstart", 2), to("call", 7), plain("loopend"), num("rest", 1), to("call", 12),
             to("goto", 1),
             num("loopstart", 3), to("call", 16), note("pcm", 1), plain("loopend"), plain("ret"),
             num("loopstart", 2), to("call", 16), plain("loopend"), plain("ret"),
             note("pcm", 2), plain("other"), plain("ret"), plain("end")>>,
  fast |-> <<num("tempo", 480), to("opentrack", 8), plain("compare"), plain("if"), note("pcm", 2),
             [cmd |-> "random", of |-> num("rest", 0), values |-> {-1, 1, 3}], to("goto", 3),
             note("psg", 3), plain("end")>>,
  many |-> <<to("opentrack", 4), num("rest", 1), to("goto", 1), num("rest", 2), to("goto", 4)>>]

=============================================================================
