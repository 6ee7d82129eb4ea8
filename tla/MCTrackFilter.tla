--------------------------- MODULE MCTrackFilter ---------------------------
(***************************************************************************)
(* Songs for TrackFilter, with a buffer of 4 samples instead of 2048: one  *)
(* that begins with silence and has some in the middle, one that falls     *)
(* silent long before its end, one that loops and never sounds, one of     *)
(* single samples, and one that loops with a pause.                        *)
(***************************************************************************)
EXTENDS TrackFilter

Times(n, b) == [i \in 1 .. n |-> b]

MCSound == [
  pauses |-> Times(6, FALSE) \o Times(3, TRUE) \o Times(7, FALSE) \o Times(2, TRUE) \o Times(5, FALSE) \o Times(3, TRUE),
  dies   |-> Times(5, TRUE) \o Times(40, FALSE),
  mute   |-> Times(60, FALSE),
  clicks |-> <<TRUE>> \o Times(4, FALSE) \o <<TRUE>> \o Times(6, FALSE) \o <<TRUE, TRUE>> \o Times(4, FALSE) \o <<TRUE>>,
  loop   |-> Times(3, TRUE) \o Times(6, FALSE)]

=============================================================================
