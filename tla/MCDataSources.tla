---------------------------- MODULE MCDataSources ----------------------------
(* All classes, a song of a few buffers, and a ring a quarter of which is   *)
(* two frames.                                                              *)
EXTENDS DataSources

AllClasses == Skipping \cup {"AOPSF", "VioGSF", "GameMusicEmu", "VGMStream"}
=============================================================================
