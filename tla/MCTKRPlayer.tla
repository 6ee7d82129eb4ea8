----------------------------- MODULE MCTKRPlayer -----------------------------
(* TKRPlayer with two data source classes: GameMusicEmu plays files of   *)
(* several tracks that end, LazyUSF2 files with one endless track.         *)
(* Nobody plays "txt".                                                     *)
EXTENDS TKRPlayerPromise

MCSources == {"GameMusicEmu", "LazyUSF2"}
MCPlayers == <<"GameMusicEmu", "LazyUSF2">>
MCCanPlay == [c \in MCSources |-> IF c = "LazyUSF2" THEN {"usf"} ELSE {"nsf"}]
MCTrackSources == {"GameMusicEmu"}
MCEndless == {"usf"}
=============================================================================
