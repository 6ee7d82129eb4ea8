-------------------------------- MODULE PSF2 --------------------------------
(***************************************************************************)
(* PSFLoad and PSF2FS as AOPSF uses them (AOPSF.m).  openFile: asks for    *)
(* the version of the file, and loads it into a new emulator: sections of  *)
(* memory for version 1, a file system made of archives for version 2.     *)
(* setPosition: loads it again to start it from the beginning.             *)
(*                                                                         *)
(* Both run to their end in one thread.  The emulator itself and what      *)
(* psfInfo keeps of the tags are left out.                                 *)
(***************************************************************************)
EXTENDS PSFLoad, PSF2FS

CONSTANT MaxOpens     \* bound on the openings and rewinds

VARIABLES
  file,         \* _file
  psf_version,  \* _state.psf_version, -1 for a file that is none
  started,      \* _started
  busy,         \* what psf_load has been called for
  opens

vars == <<psfvars, fs, file, psf_version, started, busy, opens>>

None == "none"
Idle == busy = "idle"

NoCallbacks == [target |-> FALSE, info |-> FALSE, nested |-> FALSE]
AllCallbacks == [target |-> TRUE, info |-> TRUE, nested |-> TRUE]
NoTags == [target |-> TRUE, info |-> FALSE, nested |-> TRUE]

\* psf1Loader takes no file with a reserved section and none whose program is
\* no executable (psf_load_section), psf2fs_load_callback none that
\* makearchivedir cannot read.
Accepts(version, f) ==
  IF version = 1 THEN ~Contents[f].reserved /\ Contents[f].executable ELSE f \in DOMAIN Archives

psf1Loader ==
  /\ AtTarget /\ allowed_version = 1
  /\ LoadTarget(Accepts(1, Top.file))
  /\ UNCHANGED fs

psf2fs_load_callback ==
  /\ AtTarget /\ allowed_version = 2
  /\ LoadTarget(Accepts(2, Top.file))
  /\ IF Accepts(2, Top.file) THEN addarchive(Top.file) ELSE addarchive_fails

\* Slip: the archives are added to the file system there is.
Load_Same(version, callbacks) ==
  /\ psf_load(file, version, callbacks)
  /\ UNCHANGED fs

\* Both callers delete the file system and make another one for version 2.
Load(version, callbacks) ==
  /\ psf_load(file, version, callbacks)
  /\ IF version = 1 THEN UNCHANGED fs ELSE psf2fs_create

\* openFile: the file is replaced before anything is known of it.
openFile(f) ==
  /\ Idle /\ opens < MaxOpens
  /\ file' = f /\ opens' = opens + 1 /\ busy' = "probing"
  /\ psf_load(f, 0, NoCallbacks)
  /\ UNCHANGED <<fs, psf_version, started>>

\* Its version is known: a file of another kind leaves the emulator as it is.
Probed ==
  /\ busy = "probing" /\ stack = <<>>
  /\ psf_version' = IF result = "loaded" THEN Contents[file].version ELSE -1
  /\ IF psf_version' \in {1, 2}
     THEN started' = FALSE /\ busy' = "opening" /\ Load(psf_version', AllCallbacks)
     ELSE busy' = "idle" /\ UNCHANGED <<psfvars, fs, started>>
  /\ UNCHANGED <<file, opens>>

\* setPosition: backwards, of an emulator that has been started.
setPosition ==
  /\ Idle /\ started /\ opens < MaxOpens
  /\ opens' = opens + 1 /\ busy' = "seeking"
  /\ IF psf_version = 1 THEN Load(1, NoTags) ELSE Load(2, AllCallbacks)
  /\ UNCHANGED <<file, psf_version, started>>

\* The end of openFile:, which starts the emulator if all could be loaded, and
\* of setPosition:, which does not ask.
Starts ==
  /\ busy \in {"opening", "seeking"} /\ stack = <<>>
  /\ started' = (started \/ result = "loaded")
  /\ busy' = "idle"
  /\ UNCHANGED <<psfvars, fs, file, psf_version, opens>>

Init ==
  /\ NotLoading /\ fs = EmptyFS
  /\ file = None /\ psf_version = 0 /\ started = FALSE /\ busy = "idle" /\ opens = 0

psf_load_steps ==
  /\ psf1Loader \/ psf2fs_load_callback \/ (LoadStep /\ UNCHANGED fs)
  /\ UNCHANGED <<file, psf_version, started, busy, opens>>

Next ==
  \/ psf_load_steps \/ Probed \/ Starts
  \/ \E f \in Files : openFile(f)
  \/ setPosition

\* A call that has been made goes on until it returns.
Spec == Init /\ [][Next]_vars /\ WF_vars(psf_load_steps \/ Probed \/ Starts)

-----------------------------------------------------------------------------
(* Properties.                                                             *)

\* That a file can be loaded with left levels to go: it and all its libraries
\* are there, of the version, undamaged, accepted and not too deep.
Loadable[left \in 0 .. max_recursion_depth] ==
  [f \in Files |->
     /\ left > 0
     /\ Sound(f) /\ Contents[f].body /\ Accepts(allowed_version, f)
     /\ \A n \in {1} \cup NumberedLibs(f) :
          HasLib(f, n) => Lib(f, n) \in Files /\ Loadable[left - 1][Lib(f, n)]]

\* psf_load says yes exactly when the song and all it builds on could be
\* loaded, however deep the fault is (psflib.c:381-564), and then every program
\* was given in the order of psflib.h:50-60.  A song that names itself ends.
LoadsWhole ==
  stack = <<>> /\ want.target =>
    /\ (result = "loaded") = (file \in Files /\ Loadable[max_recursion_depth][file])
    /\ result = "loaded" => loaded = Programs[max_recursion_depth][file]

\* An emulator of version 2 that has just been opened or rewound finds in its
\* file system what that song brought, all of it and nothing of the song
\* before (AOPSF.m:144-235); after a refused archive it has none.
FreshFiles ==
  Idle /\ started /\ psf_version = 2 /\ result = "loaded" =>
    fs.sources = Programs[max_recursion_depth][file] /\ ~fs.freed

\* psf_load returns (psflib.c:381-564), whatever the libraries name, and so does
\* the method that called it.
LoadReturns == []<>Idle

=============================================================================
