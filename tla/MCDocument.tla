----------------------------- MODULE MCDocument -----------------------------
(* Document with a directory of a file of one track, one that cannot be     *)
(* played, one of three tracks, and two more of one track.                  *)
EXTENDS Document

MCDirectory == <<"a", "txt", "b", "c", "d">>
MCcanPlay == {"a", "b", "c", "d"}
MCnumTracks == [f \in MCcanPlay |-> IF f = "b" THEN 3 ELSE 1]
=============================================================================
