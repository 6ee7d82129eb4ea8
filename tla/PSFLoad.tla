------------------------------- MODULE PSFLoad -------------------------------
(***************************************************************************)
(* psf_load (src/PSFLib/PSFLib/psflib.c): loads a PSF file with the        *)
(* libraries its tags name, which may name libraries themselves.  The      *)
(* recursion of psf_load_internal is a stack of frames.  Programs go to    *)
(* the callback load_target, tags to the callback info_target.             *)
(*                                                                         *)
(* The bytes of a file are what psf_load makes of them: Contents[f] says   *)
(* whether the header and the compressed program are sound, whether there  *)
(* is a reserved section and whether the program is an executable of the   *)
(* machine, and gives the lines of the tag section as a name and the parts *)
(* of a value, split at "; ".  What load_target does is for the module     *)
(* that extends this one.                                                  *)
(***************************************************************************)
EXTENDS Integers, Sequences, FiniteSets, SequencesExt

CONSTANTS
  Contents,             \* the files there are
  SplitNames,           \* fields_to_split: names whose value is a list
  ReservedNames,        \* names that begin with "_"
  LibNames,             \* <<"_lib", "_lib2", ...>>
  max_recursion_depth

Files == DOMAIN Contents

\* A line of the tag section has a value: psflib.c:263 and 346 pass the others
\* over, and what is split has a first part.
ASSUME PSFAssumption ==
  /\ LibNames \in Seq(ReservedNames) /\ LibNames # <<>>
  /\ max_recursion_depth \in Nat \ {0}
  /\ \A f \in Files :
       LET lines == Contents[f].lines
       IN  lines \in Seq(Range(lines)) /\ \A line \in Range(lines) : line.parts \in Seq(Range(line.parts)) \ {<<>>}

VARIABLES
  allowed_version,  \* 0: any
  want,             \* the callbacks given, and info_want_nested_tags
  depth,            \* state->depth
  stack,            \* calls of psf_load_internal, the innermost last
  open,             \* open files, as the depth of the call that opened them
  info,             \* what info_target was given: file, name and value
  loaded,           \* what load_target was given and has accepted
  result            \* "loading", "failing" while the calls return -1, or the
                    \* value of psf_load: "failed" or "loaded"

psfvars == <<allowed_version, want, depth, stack, open, info, loaded, result>>

Top == Last(stack)
Frame(f) == [file |-> f, at |-> "enter", n |-> 0]

-----------------------------------------------------------------------------
(* Tags.  The list grows at its head, so that the first tag of the file is *)
(* the last of the list.                                                   *)

Named(tags, name) == {i \in 1 .. Len(tags) : tags[i].name = name}

\* Slip: the new value is put to the tag that was there first.
FoundAt_Oldest(tags, name) == CHOOSE i \in Named(tags, name) : \A j \in Named(tags, name) : i >= j

\* find_tag: the tag of that name nearest to the head.
FoundAt(tags, name) == CHOOSE i \in Named(tags, name) : \A j \in Named(tags, name) : i <= j

Tag(name, parts) == [name |-> name, value |-> parts]

\* add_tag_multi: the first value goes on a new line of the tag there is; the
\* others become tags of their own.
AddTagMulti(tags, name, values) ==
  LET first == IF Named(tags, name) = {}
               THEN <<Tag(name, values[1])>> \o tags
               ELSE [tags EXCEPT ![FoundAt(tags, name)].value = @ \o values[1]]
      rest == [i \in 1 .. Len(values) - 1 |-> Tag(name, values[i + 1])]
  IN  Reverse(rest) \o first

\* process_tag_line with add_tag: of a name that begins with "_" the first
\* line counts.
AddTagLine(tags, line) ==
  IF line.name \in ReservedNames /\ Named(tags, line.name) # {} THEN tags
  ELSE AddTagMulti(tags, line.name,
         IF line.name \in SplitNames THEN [i \in 1 .. Len(line.parts) |-> <<line.parts[i]>>]
         ELSE <<line.parts>>)

process_tags(lines) ==
  LET tags[i \in 0 .. Len(lines)] == IF i = 0 THEN <<>> ELSE AddTagLine(tags[i - 1], lines[i])
  IN  tags[Len(lines)]

TagsOf == [f \in Files |-> process_tags(Contents[f].lines)]

HasLib(f, n) == n <= Len(LibNames) /\ Named(TagsOf[f], LibNames[n]) # {}
Lib(f, n) == TagsOf[f][FoundAt(TagsOf[f], LibNames[n])].value[1]

-----------------------------------------------------------------------------
(* psf_load_internal, in the order of its code.                            *)

\* Calls the function for another file, and goes on at p when it returns.
CallFor(f, p, n) ==
  stack' = Append([stack EXCEPT ![Len(stack)].at = p, ![Len(stack)].n = n], Frame(f))

\* Slip: libraries may go as deep as they like.
Enter_Endless ==
  /\ result = "loading" /\ stack # <<>> /\ Top.at = "enter"
  /\ depth' = depth + 1
  /\ IF Top.file \in Files /\ Contents[Top.file].header
     THEN open' = open \cup {Len(stack)} /\ stack' = [stack EXCEPT ![Len(stack)].at = "tags"] /\ UNCHANGED result
     ELSE result' = "failing" /\ UNCHANGED <<stack, open>>
  /\ UNCHANGED <<allowed_version, want, info, loaded>>

Fails == result' = "failing" /\ UNCHANGED <<stack, info, loaded>>

\* Lines 408 to 432: the depth, the file and its header.
Sound(f) == Contents[f].header /\ allowed_version \in {0, Contents[f].version}

Enter ==
  /\ result = "loading" /\ stack # <<>> /\ Top.at = "enter"
  /\ depth' = depth + 1
  /\ IF depth' > max_recursion_depth \/ Top.file \notin Files
     THEN Fails /\ UNCHANGED open
     ELSE /\ open' = open \cup {Len(stack)}
          /\ IF Sound(Top.file)
             THEN stack' = [stack EXCEPT ![Len(stack)].at = "tags"] /\ UNCHANGED <<info, loaded, result>>
             ELSE Fails
  /\ UNCHANGED <<allowed_version, want>>

\* Lines 444 to 468: the tags, given to info_target from the first to the last.
Told(f) == LET tags == Reverse(TagsOf[f]) IN [i \in 1 .. Len(tags) |-> [file |-> f, tag |-> tags[i]]]

Tags ==
  /\ result = "loading" /\ stack # <<>> /\ Top.at = "tags"
  /\ info' = IF want.info /\ (depth = 1 \/ want.nested) THEN info \o Told(Top.file) ELSE info
  /\ stack' = [stack EXCEPT ![Len(stack)].at = IF want.target THEN "lib" ELSE "done"]
  /\ UNCHANGED <<allowed_version, want, depth, open, loaded, result>>

\* Lines 470 to 474: the library the file builds on.
BaseLib ==
  /\ result = "loading" /\ stack # <<>> /\ Top.at = "lib"
  /\ IF HasLib(Top.file, 1)
     THEN CallFor(Lib(Top.file, 1), "target", 1)
     ELSE stack' = [stack EXCEPT ![Len(stack)].at = "target", ![Len(stack)].n = 1]
  /\ UNCHANGED <<allowed_version, want, depth, open, info, loaded, result>>

\* Lines 476 to 530: the program is read, the file closed, the program given
\* to load_target, which accepts it or not.
AtTarget == result = "loading" /\ stack # <<>> /\ Top.at = "target" /\ Contents[Top.file].body

LoadTarget(accepted) ==
  /\ AtTarget
  /\ open' = open \ {Len(stack)}
  /\ IF accepted
     THEN /\ loaded' = Append(loaded, Top.file)
          /\ stack' = [stack EXCEPT ![Len(stack)].at = "next", ![Len(stack)].n = 2]
          /\ UNCHANGED <<info, result>>
     ELSE Fails
  /\ UNCHANGED <<allowed_version, want, depth>>

\* Slip: a program that is damaged is decompressed again.
BadBody_Retries ==
  /\ result = "loading" /\ stack # <<>> /\ Top.at = "target" /\ ~Contents[Top.file].body
  /\ UNCHANGED psfvars

\* A program that is cut short, or damaged: before or after the file is closed.
BadBody ==
  /\ result = "loading" /\ stack # <<>> /\ Top.at = "target" /\ ~Contents[Top.file].body
  /\ open' \in {open, open \ {Len(stack)}}
  /\ Fails
  /\ UNCHANGED <<allowed_version, want, depth>>

\* Lines 532 to 543: the libraries to add, in the order of their numbers up
\* to the first number that is missing.
NextLib ==
  /\ result = "loading" /\ stack # <<>> /\ Top.at = "next"
  /\ IF HasLib(Top.file, Top.n)
     THEN CallFor(Lib(Top.file, Top.n), "next", Top.n + 1)
     ELSE stack' = [stack EXCEPT ![Len(stack)].at = "done"]
  /\ UNCHANGED <<allowed_version, want, depth, open, info, loaded, result>>

\* Slip: a failure leaves the call without closing its file.
Returns_Open ==
  /\ stack # <<>>
  /\ \/ result = "loading" /\ Top.at = "done" /\ open' = open \ {Len(stack)}
     \/ result = "failing" /\ UNCHANGED open
  /\ stack' = Front(stack)
  /\ depth' = IF result = "loading" THEN depth - 1 ELSE depth
  /\ result' = IF Len(stack) > 1 THEN result
               ELSE IF result = "loading" THEN "loaded" ELSE "failed"
  /\ UNCHANGED <<allowed_version, want, info, loaded>>

\* Slip: a library that cannot be loaded is passed over.
Returns_PassOver ==
  /\ stack # <<>>
  /\ (result = "loading" /\ Top.at = "done") \/ result = "failing"
  /\ open' = open \ {Len(stack)}
  /\ stack' = Front(stack)
  /\ depth' = depth - 1
  /\ result' = IF Len(stack) > 1 THEN "loading"
               ELSE IF result = "loading" THEN "loaded" ELSE "failed"
  /\ UNCHANGED <<allowed_version, want, info, loaded>>

\* Lines 545 to 564: the call returns.  After a failure the calls around it
\* return, too, and depth stays.
Returns ==
  /\ stack # <<>>
  /\ (result = "loading" /\ Top.at = "done") \/ result = "failing"
  /\ open' = open \ {Len(stack)}
  /\ stack' = Front(stack)
  /\ depth' = IF result = "loading" THEN depth - 1 ELSE depth
  /\ result' = IF Len(stack) > 1 THEN result
               ELSE IF result = "loading" THEN "loaded" ELSE "failed"
  /\ UNCHANGED <<allowed_version, want, info, loaded>>

\* psf_load
psf_load(uri, version, callbacks) ==
  /\ stack = <<>>
  /\ stack' = <<Frame(uri)>> /\ depth' = 0 /\ open' = {}
  /\ allowed_version' = version /\ want' = callbacks
  /\ info' = <<>> /\ loaded' = <<>> /\ result' = "loading"

\* The steps that do not concern load_target.
LoadStep == Enter \/ Tags \/ BaseLib \/ BadBody \/ NextLib \/ Returns

NotLoading ==
  /\ allowed_version = 0 /\ want = [target |-> FALSE, info |-> FALSE, nested |-> FALSE]
  /\ depth = 0 /\ stack = <<>> /\ open = {} /\ info = <<>> /\ loaded = <<>> /\ result = "failed"

-----------------------------------------------------------------------------
(* Properties.                                                             *)

\* depth says how deep the calls are, which stop at max_recursion_depth, and
\* only calls have files open (psflib.c:408).
PSFTypeOK ==
  /\ result \in {"loading", "failing", "failed", "loaded"}
  /\ \A k \in 1 .. Len(stack) :
       stack[k].at \in {"enter", "tags", "lib", "target", "next", "done"} /\ stack[k].n \in 0 .. Len(LibNames) + 1
  /\ Len(stack) <= max_recursion_depth + 1
  /\ stack # <<>> => depth <= max_recursion_depth + 1
  /\ result = "loading" => depth = Len(stack) - (IF Top.at = "enter" THEN 1 ELSE 0)
  /\ Range(loaded) \subseteq Files

\* Whatever comes in between, each call closes its file (psflib.c:545-564):
\* no file is open but those of the calls that have not returned.
FilesClosed == open \subseteq 1 .. Len(stack)

\* The order of psflib.h:50-60, as the recursion that it is: Programs[left][f] is
\* what loading f gives with left levels to go, if all goes well.
NumberedLibs(f) == {n \in 2 .. Len(LibNames) : \A m \in 2 .. n : HasLib(f, m)}

LibGives(programs, f, n) == IF HasLib(f, n) /\ Lib(f, n) \in Files THEN programs[Lib(f, n)] ELSE <<>>

Programs[left \in 0 .. max_recursion_depth] ==
  [f \in Files |->
     IF left = 0 THEN <<>>
     ELSE LibGives(Programs[left - 1], f, 1) \o <<f>>
            \o FlattenSeq([n \in 1 .. Len(LibNames) |->
                             IF n \in NumberedLibs(f) THEN LibGives(Programs[left - 1], f, n) ELSE <<>>])]

\* The values of a name in a file, split, in the order of the lines; of a name
\* that begins with "_" those of the first line.
Written(f, name) ==
  LET lines == Contents[f].lines
      named == {i \in 1 .. Len(lines) : lines[i].name = name}
      counts == IF name \in ReservedNames THEN {i \in named : \A j \in named : i <= j} ELSE named
  IN  FlattenSeq([i \in 1 .. Len(lines) |-> IF i \in counts THEN lines[i].parts ELSE <<>>])

Heard(f, name) ==
  FlattenSeq([i \in 1 .. Len(info) |->
                IF info[i].file = f /\ info[i].tag.name = name THEN info[i].tag.value ELSE <<>>])

\* However lines are joined and values split (psflib.c:190-359), a file that
\* was loaded once has each value of its tags given to info_target once, in the
\* order of the file, and nothing else.
TagsInOrder ==
  result = "loaded" /\ want.info /\ want.nested =>
    /\ \A f \in Range(loaded) :
         Cardinality({i \in 1 .. Len(loaded) : loaded[i] = f}) = 1 =>
           \A name \in {line.name : line \in Range(Contents[f].lines)} :
             Heard(f, name) = Written(f, name)
    /\ {i.file : i \in Range(info)} \subseteq Range(loaded)

=============================================================================
