----------------------------- MODULE PSF2Proofs -----------------------------
(***************************************************************************)
(* Loading a song and its libraries, and the file system that a PSF2 of    *)
(* version 2 is, for any files and archives, however they name each other. *)
(***************************************************************************)
EXTENDS PSF2, SequenceLemmas

-----------------------------------------------------------------------------
(* Archives laid over each other.                                           *)

Laid(dir, sources) ==
  /\ \A k \in 1 .. Len(sources) : \A p \in Leaves(sources[k]) :
       (\A j \in 1 .. k - 1 : \A q \in Leaves(sources[j]) : ~Clash(p, q)) => p \in DOMAIN dir
  /\ \A p \in DOMAIN dir :
       LET having == {k \in 1 .. Len(sources) : p \in Leaves(sources[k])}
       IN  \E k \in having : dir[p].source = sources[k] /\ \A j \in having : j <= k
  /\ \A p, q \in DOMAIN dir : ~Clash(p, q)

\* What one more archive does: what it brings is taken where the tree has
\* nothing in its way.
LEMMA MergeLays ==
  ASSUME NEW dir, NEW sources \in Seq(DOMAIN Archives), NEW f \in DOMAIN Archives,
         Laid(dir, sources)
  PROVE  Laid(mergedir(dir, makearchivedir(f)), Append(sources, f))
<1> DEFINE from == makearchivedir(f)
           taken == {p \in DOMAIN from : ~IsSubdir(dir, p) /\ \A q \in DOMAIN dir : ~Within(q, p)}
           new == mergedir(dir, from)
           n == Len(sources)
           after == Append(sources, f)
<1>1. DOMAIN from = Leaves(f) /\ \A p \in Leaves(f) : from[p].source = f
  BY DEF makearchivedir, Leaves
<1>2. /\ DOMAIN new = DOMAIN dir \cup taken
      /\ \A p \in DOMAIN new : new[p] = IF p \in taken THEN from[p] ELSE dir[p]
  BY DEF mergedir
<1>3. \A p : p \in taken <=> p \in Leaves(f) /\ \A q \in DOMAIN dir : ~Clash(p, q)
  BY <1>1 DEF Clash, IsSubdir
<1>4. /\ n \in Nat /\ Len(after) = n + 1 /\ after[n + 1] = f
      /\ \A k \in 1 .. n : after[k] = sources[k]
  OBVIOUS
<1> HIDE DEF from, taken, new, n, after
<1>5. /\ \A k \in 1 .. n : \A p \in Leaves(sources[k]) :
           (\A j \in 1 .. k - 1 : \A q \in Leaves(sources[j]) : ~Clash(p, q)) => p \in DOMAIN dir
      /\ \A p \in DOMAIN dir :
           \E k \in 1 .. n : /\ p \in Leaves(sources[k]) /\ dir[p].source = sources[k]
                             /\ \A j \in 1 .. n : p \in Leaves(sources[j]) => j <= k
      /\ \A p, q \in DOMAIN dir : ~Clash(p, q)
  BY DEF Laid, n
<1>6. ASSUME NEW k \in 1 .. n + 1, NEW p \in Leaves(after[k]),
             \A j \in 1 .. k - 1 : \A q \in Leaves(after[j]) : ~Clash(p, q)
      PROVE  p \in DOMAIN new
  <2>1. CASE k \in 1 .. n
    <3>1. \A j \in 1 .. k - 1 : after[j] = sources[j]
      BY <1>4, <2>1
    <3> QED
      BY <1>2, <1>4, <1>5, <1>6, <2>1, <3>1
  <2>2. CASE k = n + 1
    <3>1. p \in Leaves(f)
      BY <1>4, <1>6, <2>2
    <3>2. ASSUME NEW q \in DOMAIN dir PROVE ~Clash(p, q)
      <4>1. PICK j \in 1 .. n : q \in Leaves(sources[j])
        BY <1>5
      <4> QED
        BY <1>4, <1>6, <2>2, <4>1
    <3> QED
      BY <1>2, <1>3, <3>1, <3>2
  <2> QED
    BY <1>4, <2>1, <2>2
<1>7. ASSUME NEW p \in DOMAIN new
      PROVE  \E k \in 1 .. n + 1 : /\ p \in Leaves(after[k]) /\ new[p].source = after[k]
                                   /\ \A j \in 1 .. n + 1 : p \in Leaves(after[j]) => j <= k
  <2>1. CASE p \in taken
    <3>1. p \in Leaves(f) /\ new[p].source = f
      BY <1>1, <1>2, <1>3, <1>7, <2>1
    <3>2. n + 1 \in 1 .. n + 1 /\ \A j \in 1 .. n + 1 : j <= n + 1
      BY <1>4
    <3> QED
      BY <1>4, <3>1, <3>2
  <2>2. CASE p \notin taken
    <3>1. p \in DOMAIN dir /\ new[p] = dir[p]
      BY <1>2, <1>7, <2>2
    <3>2. PICK k \in 1 .. n : /\ p \in Leaves(sources[k]) /\ dir[p].source = sources[k]
                              /\ \A j \in 1 .. n : p \in Leaves(sources[j]) => j <= k
      BY <1>5, <3>1
    <3>3. p \notin Leaves(f)
      BY <1>3, <1>5, <2>2, <3>1
    <3>4. ASSUME NEW j \in 1 .. n + 1, p \in Leaves(after[j]) PROVE j <= k
      <4>1. j # n + 1
        BY <1>4, <3>3, <3>4
      <4>2. j \in 1 .. n
        BY <1>4, <4>1
      <4> QED
        BY <1>4, <3>2, <3>4, <4>2
    <3>5. k \in 1 .. n + 1 /\ after[k] = sources[k]
      BY <1>4
    <3> QED
      BY <3>1, <3>2, <3>4, <3>5
  <2> QED
    BY <2>1, <2>2
<1>8. ASSUME NEW p \in DOMAIN new, NEW q \in DOMAIN new PROVE ~Clash(p, q)
  <2>1. p \in Leaves(f) /\ q \in Leaves(f) => ~Clash(p, q)
    BY ArchivesAssumption DEF Clash, Leaves
  <2>2. Clash(p, q) = Clash(q, p)
    BY DEF Clash
  <2> QED
    BY <1>2, <1>3, <1>5, <2>1, <2>2
<1>9. Laid(new, after)
  BY <1>4, <1>6, <1>7, <1>8 DEF Laid
<1> QED
  BY <1>9 DEF new, after, from

FSInv ==
  /\ fs = [dir |-> fs.dir, sources |-> fs.sources, freed |-> fs.freed]
  /\ fs.sources \in Seq(DOMAIN Archives) /\ fs.freed \in BOOLEAN
  /\ Laid(fs.dir, fs.sources)

LEMMA EmptyLaid == ASSUME fs' = EmptyFS PROVE FSInv'
<1>1. fs'.dir = <<>> /\ fs'.sources = <<>> /\ fs'.freed = FALSE
  BY DEF EmptyFS
<1>2. Laid(<<>>, <<>>)
  BY DEF Laid
<1>3. fs' = [dir |-> <<>>, sources |-> <<>>, freed |-> FALSE]
  BY DEF EmptyFS
<1>4. <<>> \in Seq(DOMAIN Archives)
  OBVIOUS
<1> QED
  BY <1>1, <1>2, <1>3, <1>4 DEF FSInv, Laid

LEMMA ArchiveLaid ==
  ASSUME FSInv, NEW f, (f \in DOMAIN Archives /\ addarchive(f)) \/ addarchive_fails
  PROVE  FSInv'
<1> DEFINE d == fs.dir
           s == fs.sources
           b == fs.freed
<1>1. fs = [dir |-> d, sources |-> s, freed |-> b] /\ s \in Seq(DOMAIN Archives) /\ Laid(d, s) /\ b \in BOOLEAN
  BY DEF FSInv
<1> HIDE DEF d, s, b
<1>2. CASE addarchive_fails
  <2>1. fs' = [dir |-> <<>>, sources |-> <<>>, freed |-> s # <<>>]
    BY <1>1, <1>2 DEF addarchive_fails
  <2>2. fs'.dir = <<>> /\ fs'.sources = <<>> /\ fs'.freed = (s # <<>>)
    BY <2>1
  <2>3. Laid(<<>>, <<>>) /\ <<>> \in Seq(DOMAIN Archives)
    BY DEF Laid
  <2> QED
    BY <2>1, <2>2, <2>3 DEF FSInv, Laid
<1>3. CASE f \in DOMAIN Archives /\ addarchive(f)
  <2> DEFINE new == mergedir(d, makearchivedir(f))
             after == Append(s, f)
  <2>1. fs' = [dir |-> new, sources |-> after, freed |-> b]
    BY <1>1, <1>3 DEF addarchive
  <2>2. after \in Seq(DOMAIN Archives) /\ Laid(new, after)
    BY <1>1, <1>3, MergeLays
  <2> HIDE DEF new, after
  <2>3. fs'.dir = new /\ fs'.sources = after /\ fs'.freed = b
    BY <2>1
  <2> QED
    BY <1>1, <2>1, <2>2, <2>3 DEF FSInv, Laid
<1> QED
  BY <1>2, <1>3

-----------------------------------------------------------------------------
(* The calls of psf_load_internal.  Every call but the innermost waits for  *)
(* a library, its file found, and the depth counts the calls that are past  *)
(* their first check.                                                       *)

Stages == {"enter", "tags", "lib", "target", "next", "done"}
Numbers == 0 .. Len(LibNames) + 1
FramesOf(names) == [file : names, at : Stages, n : Numbers]

StackInv ==
  /\ \E names : stack \in Seq(FramesOf(names))
  /\ \A k \in 1 .. Len(stack) : stack[k].at # "enter" => stack[k].file \in Files
  /\ \A k \in 1 .. Len(stack) - 1 : stack[k].at \in {"target", "next"}
  /\ Len(stack) <= max_recursion_depth + 1

LoadInv ==
  /\ StackInv /\ depth \in Nat
  /\ result \in IF stack = <<>> THEN {"failed", "loaded"} ELSE {"loading", "failing"}
  /\ stack # <<>> => depth <= max_recursion_depth + 1
  /\ result = "loading" =>
       IF Top.at = "enter" THEN depth = Len(stack) - 1
       ELSE depth = Len(stack) /\ depth <= max_recursion_depth
  /\ loaded \in Seq(Files) /\ FilesClosed

LEMMA LibsThere == Len(LibNames) \in Nat \ {0} /\ max_recursion_depth \in Nat \ {0}
BY PSFAssumption

\* What the steps do with the innermost call.
LEMMA TopChanges ==
  ASSUME StackInv, stack # <<>>, NEW p \in Stages \ {"enter"}, NEW n \in Numbers, Top.file \in Files,
         NEW new,
         \/ new = [stack EXCEPT ![Len(stack)].at = p, ![Len(stack)].n = n]
         \/ new = [stack EXCEPT ![Len(stack)].at = p]
  PROVE  /\ \E names : new \in Seq(FramesOf(names))
         /\ Len(new) = Len(stack) /\ Len(new) \in Nat \ {0}
         /\ new[Len(new)].at = p /\ new[Len(new)].file = Top.file
         /\ \A k \in 1 .. Len(new) - 1 : new[k] = stack[k]
<1>1. PICK names : stack \in Seq(FramesOf(names))
  BY DEF StackInv
<1>2. Len(stack) \in Nat \ {0} /\ Top = stack[Len(stack)] /\ Top \in FramesOf(names)
  BY <1>1 DEF Top, Last
<1>3. ASSUME NEW m \in Numbers
      PROVE  LET e == [[Top EXCEPT !.at = p] EXCEPT !.n = m]
             IN  e \in FramesOf(names) /\ e.at = p /\ e.file = Top.file
  BY <1>2 DEF FramesOf
<1>4. [Top EXCEPT !.at = p] = [[Top EXCEPT !.at = p] EXCEPT !.n = Top.n] /\ Top.n \in Numbers
  BY <1>2 DEF FramesOf
<1>5. PICK m \in Numbers : new = [stack EXCEPT ![Len(stack)] = [[Top EXCEPT !.at = p] EXCEPT !.n = m]]
  <2>1. CASE new = [stack EXCEPT ![Len(stack)].at = p]
    <3>1. new = [stack EXCEPT ![Len(stack)] = [Top EXCEPT !.at = p]]
      BY <1>2, <2>1
    <3> QED
      BY <1>4, <3>1
  <2>2. CASE new = [stack EXCEPT ![Len(stack)].at = p, ![Len(stack)].n = n]
    <3>1. new = [stack EXCEPT ![Len(stack)] = [[Top EXCEPT !.at = p] EXCEPT !.n = n]]
      BY <1>1, <1>2, <2>2
    <3> QED
      BY <3>1
  <2> QED
    BY <2>1, <2>2
<1> DEFINE e == [[Top EXCEPT !.at = p] EXCEPT !.n = m]
<1>6. e \in FramesOf(names) /\ e.at = p /\ e.file = Top.file
  BY <1>3
<1>7. new = [stack EXCEPT ![Len(stack)] = e]
  BY <1>5
<1> DEFINE S == FramesOf(names)
<1> HIDE DEF e
<1>8. e \in S /\ stack \in Seq(S)
  BY <1>1, <1>6
<1> HIDE DEF S
<1>9. /\ new \in Seq(S) /\ Len(new) = Len(stack)
      /\ new[Len(stack)] = e /\ \A k \in 1 .. Len(stack) - 1 : new[k] = stack[k]
  BY <1>2, <1>7, <1>8
<1> QED
  BY <1>2, <1>6, <1>9 DEF S

LEMMA StackFacts ==
  ASSUME LoadInv, stack # <<>>
  PROVE  /\ Len(stack) \in Nat \ {0} /\ Top = stack[Len(stack)]
         /\ result \in {"loading", "failing"}
         /\ Top.at \in Stages /\ Top.n \in Numbers
         /\ Top.at # "enter" => Top.file \in Files
         /\ open \subseteq 1 .. Len(stack)
<1>1. StackInv /\ FilesClosed /\ result \in {"loading", "failing"}
  BY DEF LoadInv
<1>2. PICK names : stack \in Seq(FramesOf(names))
  BY <1>1 DEF StackInv
<1>3. Len(stack) \in Nat \ {0} /\ Top = stack[Len(stack)] /\ Top \in FramesOf(names)
  BY <1>2 DEF Top, Last
<1> QED
  BY <1>1, <1>3 DEF StackInv, FilesClosed, FramesOf

\* The innermost call goes on.
LEMMA CallMoves ==
  ASSUME LoadInv, stack # <<>>, Top.file \in Files, NEW p \in Stages \ {"enter"}, NEW n \in Numbers,
         \/ stack' = [stack EXCEPT ![Len(stack)].at = p, ![Len(stack)].n = n]
         \/ stack' = [stack EXCEPT ![Len(stack)].at = p],
         result' = "loading", depth' = Len(stack), depth' <= max_recursion_depth,
         loaded' \in Seq(Files), open' \subseteq 1 .. Len(stack)
  PROVE  LoadInv'
<1>1. StackInv
  BY DEF LoadInv
<1>2. /\ \E names : stack' \in Seq(FramesOf(names))
      /\ Len(stack') = Len(stack) /\ Len(stack) \in Nat \ {0}
      /\ stack'[Len(stack)].at = p /\ stack'[Len(stack)].file = Top.file
      /\ \A k \in 1 .. Len(stack) - 1 : stack'[k] = stack[k]
  BY <1>1, TopChanges
<1>3. StackInv'
  <2>1. \A k \in 1 .. Len(stack) : k = Len(stack) \/ k \in 1 .. Len(stack) - 1
    BY <1>2
  <2>2. \A k \in 1 .. Len(stack) : stack'[k].at # "enter" => stack'[k].file \in Files
    BY <1>1, <1>2, <2>1 DEF StackInv
  <2>3. \A k \in 1 .. Len(stack) - 1 : stack'[k].at \in {"target", "next"}
    BY <1>1, <1>2 DEF StackInv
  <2>4. \E names : stack' \in Seq(FramesOf(names))
    BY <1>2
  <2>5. Len(stack') <= max_recursion_depth + 1
    BY <1>1, <1>2 DEF StackInv
  <2> QED
    BY <1>2, <2>2, <2>3, <2>4, <2>5 DEF StackInv, FramesOf, Numbers
<1>4. Top'.at = p /\ stack' # <<>>
  <2>1. Top' = stack'[Len(stack')]
    BY DEF Top, Last
  <2> QED
    BY <1>2, <2>1
<1> QED
  BY <1>2, <1>3, <1>4, LibsThere DEF LoadInv, FilesClosed

\* It calls the function for a library.
LEMMA CallsLibrary ==
  ASSUME LoadInv, result = "loading", stack # <<>>, Top.at # "enter",
         NEW f, NEW p \in {"target", "next"}, NEW n \in Numbers, CallFor(f, p, n),
         UNCHANGED <<depth, open, loaded, result>>
  PROVE  LoadInv'
<1> DEFINE mid == [stack EXCEPT ![Len(stack)].at = p, ![Len(stack)].n = n]
<1>1. StackInv /\ Top.file \in Files /\ Len(stack) \in Nat \ {0} /\ p \in Stages \ {"enter"}
      /\ open \subseteq 1 .. Len(stack)
  BY StackFacts DEF LoadInv, Stages
<1>2. depth = Len(stack) /\ depth <= max_recursion_depth /\ loaded \in Seq(Files)
  BY DEF LoadInv
<1>3. /\ \E names : mid \in Seq(FramesOf(names))
      /\ Len(mid) = Len(stack) /\ mid[Len(mid)].at = p /\ mid[Len(mid)].file = Top.file
      /\ \A k \in 1 .. Len(mid) - 1 : mid[k] = stack[k]
  <2> SUFFICES ASSUME NEW m, m = mid
               PROVE  /\ \E names : m \in Seq(FramesOf(names))
                      /\ Len(m) = Len(stack) /\ m[Len(m)].at = p /\ m[Len(m)].file = Top.file
                      /\ \A k \in 1 .. Len(m) - 1 : m[k] = stack[k]
    OBVIOUS
  <2>1. \/ m = [stack EXCEPT ![Len(stack)].at = p, ![Len(stack)].n = n]
        \/ m = [stack EXCEPT ![Len(stack)].at = p]
    OBVIOUS
  <2> HIDE DEF mid
  <2> QED
    BY <1>1, <2>1, TopChanges
<1>4. stack' = Append(mid, Frame(f))
  BY DEF CallFor
<1> HIDE DEF mid
<1>5. PICK names : mid \in Seq(FramesOf(names))
  BY <1>3
<1>6. stack' \in Seq(FramesOf(names \cup {f})) /\ Frame(f).at = "enter"
  <2>1. FramesOf(names) \subseteq FramesOf(names \cup {f})
    BY DEF FramesOf
  <2>2. Frame(f) \in FramesOf(names \cup {f}) /\ Frame(f).at = "enter"
    BY LibsThere DEF FramesOf, Frame, Stages, Numbers
  <2> DEFINE S == FramesOf(names)
             T == FramesOf(names \cup {f})
  <2>3. S \subseteq T /\ Frame(f) \in T /\ mid \in Seq(S)
    BY <1>5, <2>1, <2>2
  <2> HIDE DEF S, T
  <2>4. Append(mid, Frame(f)) \in Seq(T)
    BY <2>3
  <2> QED
    BY <1>4, <2>2, <2>4 DEF T
<1>7. /\ Len(stack') = Len(stack) + 1 /\ stack'[Len(stack) + 1] = Frame(f)
      /\ stack'[Len(stack)].at = p /\ stack'[Len(stack)].file = Top.file
      /\ \A k \in 1 .. Len(stack) - 1 : stack'[k] = stack[k]
  <2> DEFINE S == FramesOf(names)
  <2>1. mid \in Seq(S)
    BY <1>5
  <2> HIDE DEF S
  <2> QED
    BY <1>1, <1>3, <1>4, <2>1
<1>8. StackInv'
  <2>1. \A k \in 1 .. Len(stack) + 1 :
          k = Len(stack) + 1 \/ k = Len(stack) \/ k \in 1 .. Len(stack) - 1
    BY <1>1
  <2>2. \A k \in 1 .. Len(stack) + 1 : stack'[k].at # "enter" => stack'[k].file \in Files
    BY <1>1, <1>6, <1>7, <2>1 DEF StackInv
  <2>3. \A k \in 1 .. Len(stack) : k = Len(stack) \/ k \in 1 .. Len(stack) - 1
    BY <1>1
  <2>4. \A k \in 1 .. Len(stack) : stack'[k].at \in {"target", "next"}
    BY <1>1, <1>7, <2>3 DEF StackInv
  <2>5. Len(stack') <= max_recursion_depth + 1 /\ Len(stack') - 1 = Len(stack)
    BY <1>1, <1>2, <1>7, LibsThere
  <2> QED
    BY <1>6, <1>7, <2>2, <2>4, <2>5 DEF StackInv, FramesOf, Numbers
<1>9. Top'.at = "enter" /\ stack' # <<>>
  <2>1. Top' = stack'[Len(stack')]
    BY DEF Top, Last
  <2> QED
    BY <1>1, <1>6, <1>7, <2>1
<1> QED
  BY <1>1, <1>2, <1>7, <1>8, <1>9, LibsThere DEF LoadInv, FilesClosed

\* It fails, and the calls around it with it.
LEMMA CallFails ==
  ASSUME LoadInv, stack # <<>>, result' = "failing", UNCHANGED <<stack, loaded>>,
         depth' \in Nat, depth' <= max_recursion_depth + 1, open' \subseteq 1 .. Len(stack)
  PROVE  LoadInv'
BY DEF LoadInv, StackInv, FilesClosed, FramesOf, Numbers

\* It returns, to the call around it or from psf_load.
LEMMA CallReturns == ASSUME LoadInv, Returns PROVE LoadInv'
<1>1. /\ stack # <<>> /\ StackInv /\ depth \in Nat /\ depth <= max_recursion_depth + 1
      /\ loaded \in Seq(Files)
      /\ Len(stack) \in Nat \ {0} /\ Top = stack[Len(stack)]
      /\ open \subseteq 1 .. Len(stack)
  BY StackFacts DEF Returns, LoadInv
<1>2. /\ (result = "loading" /\ Top.at = "done") \/ result = "failing"
      /\ open' = open \ {Len(stack)} /\ stack' = Front(stack) /\ loaded' = loaded
      /\ depth' = IF result = "loading" THEN depth - 1 ELSE depth
      /\ result' = IF Len(stack) > 1 THEN result
                   ELSE IF result = "loading" THEN "loaded" ELSE "failed"
  BY DEF Returns
<1>3. result = "loading" => depth = Len(stack) /\ depth <= max_recursion_depth
  BY <1>2 DEF LoadInv
<1>4. PICK names : stack \in Seq(FramesOf(names))
  BY <1>1 DEF StackInv
<1>5. /\ stack' \in Seq(FramesOf(names)) /\ Len(stack') = Len(stack) - 1
      /\ \A k \in 1 .. Len(stack) - 1 : stack'[k] = stack[k]
  <2> DEFINE S == FramesOf(names)
  <2>1. stack \in Seq(S) /\ stack # <<>>
    BY <1>1, <1>4
  <2> HIDE DEF S
  <2>2. Front(stack) \in Seq(S) /\ Len(Front(stack)) = Len(stack) - 1
    BY <2>1, FrontLast
  <2>3. \A k \in 1 .. Len(stack) - 1 : Front(stack)[k] = stack[k]
    BY <1>1, <2>1 DEF Front
  <2> QED
    BY <1>2, <2>2, <2>3 DEF S
<1>6. StackInv'
  <2>1. \A k \in 1 .. Len(stack) - 1 :
          stack'[k].at \in {"target", "next"} /\ stack'[k].file \in Files
    BY <1>1, <1>5 DEF StackInv
  <2>2. \A k \in 1 .. Len(stack) - 2 : k \in 1 .. Len(stack) - 1
    BY <1>1
  <2>3. Len(stack') <= max_recursion_depth + 1 /\ Len(stack') - 1 = Len(stack) - 2
    BY <1>1, <1>5, LibsThere DEF StackInv
  <2> QED
    BY <1>5, <2>1, <2>2, <2>3 DEF StackInv, FramesOf, Numbers
<1>7. FilesClosed'
  <2>1. \A k \in open \ {Len(stack)} : k \in 1 .. Len(stack) - 1
    BY <1>1
  <2> QED
    BY <1>2, <1>5, <2>1 DEF FilesClosed
<1>8. CASE Len(stack) = 1
  <2>1. stack' = <<>>
    BY <1>5, <1>8
  <2>2. result' \in {"failed", "loaded"}
    BY <1>2, <1>8
  <2>3. depth' \in Nat
    BY <1>1, <1>2, <1>3
  <2> QED
    BY <1>1, <1>2, <1>6, <1>7, <2>1, <2>2, <2>3 DEF LoadInv
<1>9. CASE Len(stack) > 1
  <2>1. stack' # <<>> /\ Top' = stack[Len(stack) - 1] /\ Len(stack) - 1 \in 1 .. Len(stack) - 1
    <3>1. Top' = stack'[Len(stack')]
      BY DEF Top, Last
    <3>2. Len(stack) - 1 \in 1 .. Len(stack) - 1
      BY <1>1, <1>9
    <3> QED
      BY <1>5, <3>1, <3>2
  <2>2. Top'.at # "enter"
    BY <1>1, <2>1 DEF StackInv
  <2>3. result' = result /\ result \in {"loading", "failing"}
    BY <1>2, <1>9
  <2>4. depth' \in Nat /\ depth' <= max_recursion_depth + 1
        /\ (result = "loading" => depth' = Len(stack) - 1 /\ depth' <= max_recursion_depth)
    BY <1>1, <1>2, <1>3, LibsThere
  <2> QED
    <3>1. result' = "loading" =>
            depth' = Len(stack') /\ depth' <= max_recursion_depth
      BY <1>5, <2>3, <2>4
    <3>2. loaded' \in Seq(Files)
      BY <1>1, <1>2
    <3> QED
      BY <1>6, <1>7, <2>1, <2>2, <2>3, <2>4, <3>1, <3>2 DEF LoadInv
<1>10. Len(stack) = 1 \/ Len(stack) > 1
  <2>1. \A n \in Nat \ {0} : n = 1 \/ n > 1
    OBVIOUS
  <2> QED
    BY <1>1, <2>1
<1> QED
  BY <1>8, <1>9, <1>10

LEMMA LoadsStep ==
  ASSUME LoadInv, LoadStep \/ \E accepted : LoadTarget(accepted)
  PROVE  LoadInv'
<1>1. CASE Enter
  <2>1. result = "loading" /\ stack # <<>> /\ Top.at = "enter" /\ depth' = depth + 1 /\ loaded' = loaded
    BY <1>1 DEF Enter, Fails
  <2>2. /\ Len(stack) \in Nat \ {0} /\ depth = Len(stack) - 1 /\ open \subseteq 1 .. Len(stack)
        /\ Len(stack) <= max_recursion_depth + 1 /\ loaded \in Seq(Files)
    BY <2>1, StackFacts DEF LoadInv, StackInv
  <2>3. depth' = Len(stack) /\ depth' \in Nat /\ depth' <= max_recursion_depth + 1
        /\ Len(stack) \in 1 .. Len(stack)
    BY <2>1, <2>2
  <2>4. /\ open' \subseteq 1 .. Len(stack)
        /\ \/ Fails
           \/ /\ Top.file \in Files /\ ~(depth' > max_recursion_depth) /\ result' = result
              /\ stack' = [stack EXCEPT ![Len(stack)].at = "tags"]
    BY <1>1, <2>2, <2>3 DEF Enter
  <2>5. CASE Fails
    BY <2>1, <2>3, <2>4, <2>5, CallFails DEF Fails
  <2>6. CASE /\ Top.file \in Files /\ ~(depth' > max_recursion_depth) /\ result' = result
             /\ stack' = [stack EXCEPT ![Len(stack)].at = "tags"]
    <3>1. 0 \in Numbers /\ "tags" \in Stages \ {"enter"} /\ depth' <= max_recursion_depth
      BY <2>3, <2>6, LibsThere DEF Numbers, Stages
    <3> QED
      BY <2>1, <2>2, <2>3, <2>4, <2>6, <3>1, CallMoves
  <2> QED
    BY <2>4, <2>5, <2>6
<1>2. ASSUME result = "loading", stack # <<>>, Top.at # "enter"
      PROVE  /\ Top.file \in Files /\ depth = Len(stack) /\ depth <= max_recursion_depth /\ depth \in Nat
             /\ loaded \in Seq(Files) /\ open \subseteq 1 .. Len(stack)
             /\ 0 \in Numbers /\ 1 \in Numbers /\ 2 \in Numbers /\ Top.n \in Numbers
  <2>1. 0 \in Numbers /\ 1 \in Numbers /\ 2 \in Numbers
    BY LibsThere DEF Numbers
  <2> QED
    BY <1>2, <2>1, StackFacts DEF LoadInv
<1>3. CASE Tags
  <2>1. /\ result = "loading" /\ stack # <<>> /\ Top.at # "enter"
        /\ UNCHANGED <<depth, open, loaded, result>>
        /\ \E p \in {"lib", "done"} : stack' = [stack EXCEPT ![Len(stack)].at = p]
    BY <1>3 DEF Tags
  <2>2. PICK p \in Stages \ {"enter"} : stack' = [stack EXCEPT ![Len(stack)].at = p]
    BY <2>1 DEF Stages
  <2> QED
    BY <1>2, <2>1, <2>2, CallMoves
<1>4. CASE BaseLib
  <2>1. /\ result = "loading" /\ stack # <<>> /\ Top.at # "enter"
        /\ UNCHANGED <<depth, open, loaded, result>>
        /\ \/ \E f : CallFor(f, "target", 1)
           \/ stack' = [stack EXCEPT ![Len(stack)].at = "target", ![Len(stack)].n = 1]
    BY <1>4 DEF BaseLib
  <2>2. CASE \E f : CallFor(f, "target", 1)
    BY <1>2, <2>1, <2>2, CallsLibrary
  <2>3. CASE stack' = [stack EXCEPT ![Len(stack)].at = "target", ![Len(stack)].n = 1]
    <3>1. "target" \in Stages \ {"enter"}
      BY DEF Stages
    <3> QED
      BY <1>2, <2>1, <2>3, <3>1, CallMoves
  <2> QED
    BY <2>1, <2>2, <2>3
<1>5. CASE NextLib
  <2>1. /\ result = "loading" /\ stack # <<>> /\ Top.at # "enter"
        /\ UNCHANGED <<depth, open, loaded, result>>
        /\ \/ HasLib(Top.file, Top.n) /\ CallFor(Lib(Top.file, Top.n), "next", Top.n + 1)
           \/ stack' = [stack EXCEPT ![Len(stack)].at = "done"]
    BY <1>5 DEF NextLib
  <2>2. CASE HasLib(Top.file, Top.n) /\ CallFor(Lib(Top.file, Top.n), "next", Top.n + 1)
    <3>1. Top.n <= Len(LibNames) /\ Top.n \in Nat
      BY <1>2, <2>1, <2>2, LibsThere DEF HasLib, Numbers
    <3>2. Top.n + 1 \in Numbers
      BY <3>1, LibsThere DEF Numbers
    <3> QED
      BY <2>1, <2>2, <3>2, CallsLibrary
  <2>3. CASE stack' = [stack EXCEPT ![Len(stack)].at = "done"]
    <3>1. "done" \in Stages \ {"enter"}
      BY DEF Stages
    <3> QED
      BY <1>2, <2>1, <2>3, <3>1, CallMoves
  <2> QED
    BY <2>1, <2>2, <2>3
<1>6. CASE BadBody
  <2>1. /\ result = "loading" /\ stack # <<>> /\ Top.at # "enter" /\ Fails /\ depth' = depth
        /\ open' \subseteq open
    BY <1>6 DEF BadBody
  <2>2. depth' <= max_recursion_depth + 1 /\ depth' \in Nat
    BY <1>2, <2>1, LibsThere
  <2> QED
    BY <1>2, <2>1, <2>2, CallFails DEF Fails
<1>7. CASE Returns
  BY <1>7, CallReturns
<1>8. ASSUME NEW accepted, LoadTarget(accepted) PROVE LoadInv'
  <2>1. /\ result = "loading" /\ stack # <<>> /\ Top.at # "enter" /\ depth' = depth
        /\ open' \subseteq open
        /\ \/ Fails
           \/ /\ loaded' = Append(loaded, Top.file) /\ result' = result
              /\ stack' = [stack EXCEPT ![Len(stack)].at = "next", ![Len(stack)].n = 2]
    BY <1>8 DEF LoadTarget, AtTarget
  <2>2. CASE Fails
    <3>1. depth' <= max_recursion_depth + 1 /\ depth' \in Nat
      BY <1>2, <2>1, LibsThere
    <3> QED
      BY <1>2, <2>1, <2>2, <3>1, CallFails DEF Fails
  <2>3. CASE /\ loaded' = Append(loaded, Top.file) /\ result' = result
             /\ stack' = [stack EXCEPT ![Len(stack)].at = "next", ![Len(stack)].n = 2]
    <3>1. "next" \in Stages \ {"enter"} /\ loaded' \in Seq(Files)
      BY <1>2, <2>1, <2>3 DEF Stages
    <3> QED
      BY <1>2, <2>1, <2>3, <3>1, CallMoves
  <2> QED
    BY <2>1, <2>2, <2>3
<1> QED
  BY <1>1, <1>3, <1>4, <1>5, <1>6, <1>7, <1>8 DEF LoadStep

LEMMA LoadBegins ==
  ASSUME NEW f, NEW version, NEW callbacks, psf_load(f, version, callbacks)
  PROVE  LoadInv'
<1>1. /\ stack' = <<Frame(f)>> /\ depth' = 0 /\ open' = {} /\ loaded' = <<>> /\ result' = "loading"
  BY DEF psf_load
<1>2. Frame(f) \in FramesOf({f}) /\ Frame(f).at = "enter"
  BY LibsThere DEF FramesOf, Frame, Stages, Numbers
<1>3. stack' \in Seq(FramesOf({f})) /\ Len(stack') = 1 /\ stack'[1] = Frame(f) /\ stack' # <<>>
  BY <1>1, <1>2
<1>4. StackInv'
  <2>1. \E names : stack' \in Seq(FramesOf(names))
    BY <1>3
  <2>2. \A k \in 1 .. Len(stack') : stack'[k].at = "enter"
    BY <1>2, <1>3
  <2>3. \A k \in 1 .. Len(stack') - 1 : FALSE
    BY <1>3
  <2>4. Len(stack') <= max_recursion_depth + 1
    BY <1>3, LibsThere
  <2> QED
    BY <2>1, <2>2, <2>3, <2>4 DEF StackInv, FramesOf, Numbers
<1>5. Top'.at = "enter"
  BY <1>2, <1>3 DEF Top, Last
<1> QED
  BY <1>1, <1>3, <1>4, <1>5, LibsThere DEF LoadInv, FilesClosed

-----------------------------------------------------------------------------
(* The whole.                                                               *)

LEMMA NextKinds ==
  ASSUME Next
  PROVE  \/ /\ LoadStep \/ \E accepted : LoadTarget(accepted)
            /\ UNCHANGED <<file, psf_version, started, busy, opens>>
         \/ \E f, version, callbacks : psf_load(f, version, callbacks)
         \/ UNCHANGED psfvars
BY DEF Next, psf_load_steps, psf1Loader, psf2fs_load_callback, Probed, Starts, openFile,
       setPosition, Load

LEMMA LoadInit == Init => LoadInv
<1> SUFFICES ASSUME Init PROVE LoadInv
  OBVIOUS
<1>1. depth = 0 /\ stack = <<>> /\ open = {} /\ loaded = <<>> /\ result = "failed"
  BY DEF Init, NotLoading
<1>2. StackInv
  <2>1. stack \in Seq(FramesOf({})) /\ Len(stack) = 0
    BY <1>1
  <2> QED
    BY <2>1, LibsThere DEF StackInv
<1> QED
  BY <1>1, <1>2 DEF LoadInv, FilesClosed

LEMMA LoadAlways == Spec => []LoadInv
<1>1. LoadInv /\ [Next]_vars => LoadInv'
  <2> SUFFICES ASSUME LoadInv, [Next]_vars PROVE LoadInv'
    OBVIOUS
  <2>1. CASE UNCHANGED psfvars
    BY <2>1 DEF psfvars, LoadInv, StackInv, FilesClosed, Top, FramesOf, Numbers
  <2>2. CASE ~ UNCHANGED psfvars
    <3>1. Next
      BY <2>2 DEF vars
    <3> QED
      BY <2>2, <3>1, NextKinds, LoadsStep, LoadBegins
  <2> QED
    BY <2>1, <2>2
<1> QED
  BY <1>1, LoadInit, PTL DEF Spec

\* psf_load's calls end at max_recursion_depth (psflib.c:408), depth counts
\* them as long as none has failed, and every library that a call waits for
\* is one that was found.
THEOREM TypeCorrect == Spec => []PSFTypeOK
<1>1. LoadInv => PSFTypeOK
  <2> SUFFICES ASSUME LoadInv PROVE PSFTypeOK
    OBVIOUS
  <2>1. PICK names : stack \in Seq(FramesOf(names))
    BY DEF LoadInv, StackInv
  <2>2. ASSUME NEW k \in 1 .. Len(stack) PROVE stack[k] \in FramesOf(names)
    BY <2>1
  <2>3. \A k \in 1 .. Len(stack) : stack[k].at \in Stages /\ stack[k].n \in Numbers
    BY <2>2 DEF FramesOf
  <2>4. result = "loading" => depth = Len(stack) - (IF Top.at = "enter" THEN 1 ELSE 0)
    BY <2>1 DEF LoadInv
  <2>5. Range(loaded) \subseteq Files /\ Len(stack) <= max_recursion_depth + 1
    BY DEF LoadInv, StackInv, Range
  <2>6. result \in {"loading", "failing", "failed", "loaded"}
        /\ (stack # <<>> => depth <= max_recursion_depth + 1)
    BY DEF LoadInv
  <2> QED
    BY <2>3, <2>4, <2>5, <2>6 DEF PSFTypeOK, Stages, Numbers
<1> QED
  BY <1>1, LoadAlways, PTL

\* A call closes its file however it ends (psflib.c:545-564).
THEOREM Closes == Spec => []FilesClosed
<1>1. LoadInv => FilesClosed
  BY DEF LoadInv
<1> QED
  BY <1>1, LoadAlways, PTL

LEMMA FSAlways == Spec => []FSInv
<1>1. Init => FSInv
  <2> SUFFICES ASSUME Init PROVE FSInv
    OBVIOUS
  <2>1. fs = EmptyFS /\ fs.dir = <<>> /\ fs.sources = <<>> /\ fs.freed = FALSE
    BY DEF Init, EmptyFS
  <2>2. <<>> \in Seq(DOMAIN Archives)
    OBVIOUS
  <2> QED
    BY <2>1, <2>2 DEF FSInv, EmptyFS, Laid
<1>2. FSInv /\ [Next]_vars => FSInv'
  <2> SUFFICES ASSUME FSInv, [Next]_vars PROVE FSInv'
    OBVIOUS
  <2>1. \/ UNCHANGED fs \/ fs' = EmptyFS
        \/ \E f : (f \in DOMAIN Archives /\ addarchive(f)) \/ addarchive_fails
    BY DEF Next, vars, psf_load_steps, psf1Loader, psf2fs_load_callback, Probed, Starts,
           openFile, setPosition, Load, psf2fs_create, Accepts
  <2>2. CASE UNCHANGED fs
    BY <2>2 DEF FSInv, Laid
  <2> QED
    BY <2>1, <2>2, EmptyLaid, ArchiveLaid
<1> QED
  BY <1>1, <1>2, PTL DEF Spec

\* The archives of a song lie over each other as its libraries were loaded
\* (psf2fs.c:269-308), whatever the directories are: a file is lost only to a
\* directory in its place, and the file system stays a tree.
THEOREM Overlays == Spec => []Overlaid
<1>1. FSInv => Overlaid
  BY DEF FSInv, Laid, Overlaid
<1> QED
  BY <1>1, FSAlways, PTL

-----------------------------------------------------------------------------
(* Reading.  A file is read to its end, whatever its blocks.                *)

IsFile(leaf) ==
  /\ leaf.data \in Seq(Nat) /\ leaf.block_size \in Nat
  /\ leaf.data # <<>> => leaf.block_size # 0

\* The block a place is in, and where.
LEMMA BlockOfPlace ==
  ASSUME NEW at \in Nat, NEW b \in Nat, b # 0
  PROVE  /\ at \div b \in Nat /\ at % b \in 0 .. b - 1
         /\ (at \div b) * b \in Nat /\ (at \div b) * b + (at % b) = at
         /\ (at \div b + 1) * b = (at \div b) * b + b
<1> DEFINE q == at \div b
           r == at % b
           p == q * b
<1>1. q \in Nat /\ r \in 0 .. b - 1
  OBVIOUS
<1>2. r = at - p
  OBVIOUS
<1>3. \A k \in Nat : (k + 1) * b = k * b + b /\ k * b \in Nat
  OBVIOUS
<1>4. p \in Nat /\ (q + 1) * b = p + b
  <2> HIDE DEF q
  <2> QED
    BY <1>1, <1>3
<1>5. p + r = at
  <2> HIDE DEF p, r
  <2> QED
    BY <1>1, <1>2, <1>4
<1>6. at \div b \in Nat /\ at % b \in 0 .. b - 1
  BY <1>1
<1>7. (at \div b) * b \in Nat /\ (at \div b + 1) * b = (at \div b) * b + b
  BY <1>4
<1>8. (at \div b) * b + (at % b) = at
  BY <1>5
<1> HIDE DEF p, q, r
<1> QED
  BY <1>6, <1>7, <1>8

\* The ends of the block a place is in.
LEMMA BlockEnds ==
  ASSUME NEW at \in Nat, NEW b \in Nat, b # 0
  PROVE  LET p == (at \div b) * b IN p \in Nat /\ p <= at /\ at < p + b
<1> DEFINE p == (at \div b) * b
           r == at % b
<1>1. r \in 0 .. b - 1 /\ p \in Nat /\ p + r = at
  BY BlockOfPlace
<1> HIDE DEF p, r
<1>2. p \in Nat /\ p <= at /\ at < p + b
  BY <1>1
<1> QED
  BY <1>2 DEF p

\* More blocks are not shorter.
LEMMA TimesMonotone ==
  ASSUME NEW x \in Nat, NEW y \in Nat, x <= y, NEW b \in Nat
  PROVE  x * b <= y * b
<1>1. PICK d \in Nat : y = x + d
  <2>1. y - x \in Nat /\ y = x + (y - x)
    OBVIOUS
  <2> QED
    BY <2>1
<1>2. (x + d) * b = x * b + d * b /\ x * b \in Nat /\ d * b \in Nat
  BY <1>1
<1> QED
  BY <1>1, <1>2

\* A place is in the block it is between the ends of.
LEMMA BlockIs ==
  ASSUME NEW at \in Nat, NEW b \in Nat, b # 0, NEW k \in Nat, k * b <= at, at < k * b + b
  PROVE  at \div b = k
OBVIOUS

\* Each block between those of two places is that of a place between them.
Covers(b, from, to, k) == k \in from \div b .. to \div b <=> \E i \in from .. to : i \div b = k

LEMMA BlocksBetween ==
  ASSUME NEW b \in Nat, b # 0, NEW from \in Nat, NEW to \in Nat, from <= to, NEW k \in Nat
  PROVE  Covers(b, from, to, k)
<1>1. ASSUME NEW x \in Nat, NEW y \in Nat, x <= y PROVE x \div b <= y \div b
  <2> DEFINE q == x \div b
             r == y \div b
  <2>1. q \in Nat /\ r \in Nat /\ q * b \in Nat /\ q * b <= x /\ r * b \in Nat /\ r * b + b > y
    <3>1. \A z \in Nat : (z \div b) \in Nat /\ (z \div b) * b \in Nat /\ (z \div b) * b <= z /\ (z \div b) * b + b > z
      <4> TAKE z \in Nat
      <4>1. z \div b \in Nat
        OBVIOUS
      <4> DEFINE p == (z \div b) * b
      <4>2. p \in Nat /\ p <= z /\ z < p + b
        BY BlockEnds
      <4> HIDE DEF p
      <4>3. p + b > z
        BY <4>2
      <4> QED
        BY <4>1, <4>2, <4>3 DEF p
    <3> QED
      BY <3>1
  <2> HIDE DEF q, r
  <2>2. SUFFICES ASSUME r + 1 <= q PROVE FALSE
    BY <2>1 DEF q, r
  <2>3. (r + 1) * b <= q * b
    BY <2>1, <2>2, TimesMonotone
  <2>4. (r + 1) * b = r * b + b
    BY <2>1
  <2> QED
    BY <2>1, <2>3, <2>4, <1>1
<1>2. from \div b \in Nat /\ to \div b \in Nat /\ \A i \in from .. to : i \div b \in Nat
  OBVIOUS
<1>3. ASSUME NEW i \in from .. to PROVE from \div b <= i \div b /\ i \div b <= to \div b
  BY <1>1
<1>4. ASSUME k \in from \div b .. to \div b PROVE \E i \in from .. to : i \div b = k
  <2>1. CASE k = from \div b
    BY <2>1
  <2>2. CASE k # from \div b
    <3>1. k * b \in Nat /\ (k * b) \div b = k
      OBVIOUS
    <3>2. from <= k * b
      <4> DEFINE q == from \div b
      <4>1. q \in Nat /\ k >= q + 1
        BY <1>2, <1>4, <2>2
      <4>2. q * b \in Nat /\ from < q * b + b /\ (q + 1) * b = q * b + b
        BY BlockEnds, BlockOfPlace
      <4> HIDE DEF q
      <4>3. (q + 1) * b <= k * b
        BY <4>1, TimesMonotone
      <4> QED
        BY <3>1, <4>2, <4>3
    <3>3. k * b <= to
      <4> DEFINE q == to \div b
      <4>1. q \in Nat /\ k <= q
        BY <1>2, <1>4
      <4>2. q * b \in Nat /\ q * b <= to
        BY BlockEnds
      <4> HIDE DEF q
      <4>3. k * b <= q * b
        BY <4>1, TimesMonotone
      <4> QED
        BY <3>1, <4>2, <4>3
    <3> QED
      BY <3>1, <3>2, <3>3
  <2> QED
    BY <2>1, <2>2
<1> QED
  BY <1>2, <1>3, <1>4 DEF Covers

\* What is copied from a block is what the file has at that place.
LEMMA BlockHas ==
  ASSUME NEW leaf, IsFile(leaf), NEW at \in Nat, at < Len(leaf.data), NEW n \in Nat,
         at + n <= Len(leaf.data), n > 0
  PROVE  LET block == Block(leaf, at \div leaf.block_size)
             within == at % leaf.block_size
             canread == Lesser(Len(block) - within, n)
         IN  /\ canread \in 1 .. n
             /\ SubSeq(block, within + 1, within + canread) = SubSeq(leaf.data, at + 1, at + canread)
<1> DEFINE b == leaf.block_size
           data == leaf.data
           len == Len(data)
           start == (at \div b) * b
           stop == Lesser((at \div b + 1) * b, len)
           within == at % b
           block == SubSeq(data, start + 1, stop)
           canread == Lesser(Len(block) - within, n)
<1>1. data \in Seq(Nat) /\ b \in Nat /\ b # 0 /\ len \in Nat
  BY DEF IsFile
<1>2. Block(leaf, at \div b) = block
  BY DEF Block
<1>3. start \in Nat /\ within \in 0 .. b - 1 /\ start + within = at /\ (at \div b + 1) * b = start + b
  BY <1>1, BlockOfPlace
<1> HIDE DEF start, within
<1>4. stop \in start + 1 .. len /\ stop - start > within
  <2> DEFINE end == (at \div b + 1) * b
  <2>1. len \in Nat /\ b \in Nat /\ start \in Nat /\ within \in 0 .. b - 1 /\ start + within = at
        /\ end = start + b /\ at < len
    BY <1>1, <1>3
  <2>2. stop = IF end < len THEN end ELSE len
    BY DEF Lesser
  <2> HIDE DEF end, b, len, stop
  <2> QED
    BY <2>1, <2>2
<1> HIDE DEF stop, b, len, data
<1>5. start + 1 \in 1 .. len /\ stop \in 1 .. len
  BY <1>1, <1>3, <1>4
<1>6. block \in Seq(Nat) /\ Len(block) = stop - start
  <2>1. \A i \in start + 1 .. stop : data[i] \in Nat
    BY <1>1, <1>3, <1>4 DEF len
  <2>2. start + 1 \in Int /\ stop \in Int /\ start + 1 <= stop /\ stop - (start + 1) + 1 = stop - start
    BY <1>1, <1>3, <1>4
  <2>3. block \in Seq(Nat) /\ Len(block) = IF start + 1 <= stop THEN stop - (start + 1) + 1 ELSE 0
    BY <2>1, <2>2, SubSeqProperties
  <2> HIDE DEF block
  <2> QED
    BY <2>2, <2>3
<1>7. canread \in 1 .. n /\ within + canread <= stop - start
  <2> HIDE DEF block
  <2> QED
    BY <1>1, <1>3, <1>4, <1>6 DEF Lesser
<1> HIDE DEF canread
<1>8. SubSeq(block, within + 1, within + canread) = SubSeq(data, at + 1, at + canread)
  <2> DEFINE i == start + 1
             m1 == within + 1
             m2 == within + canread
  <2>1. m1 \in 1 .. stop - i + 1 /\ m2 \in 1 .. stop - i + 1
    BY <1>1, <1>3, <1>4, <1>7
  <2>2. i \in 1 .. Len(data) /\ stop \in 1 .. Len(data)
    BY <1>5 DEF len
  <2>3. SubSeq(block, m1, m2) = SubSeq(data, i + m1 - 1, i + m2 - 1)
    <3>1. block = SubSeq(data, i, stop)
      OBVIOUS
    <3>2. SubSeq(SubSeq(data, i, stop), m1, m2) = SubSeq(data, i + m1 - 1, i + m2 - 1)
      <4> HIDE DEF i, m1, m2, block
      <4> QED
        BY <1>1, <2>1, <2>2, SubSeqOfSubSeq
    <3> QED
      BY <3>1, <3>2
  <2>4. start + 1 + (within + 1) - 1 = at + 1 /\ start + 1 + (within + canread) - 1 = at + canread
    BY <1>3, <1>7
  <2> QED
    BY <2>3, <2>4
<1> QED
  BY <1>2, <1>7, <1>8 DEF canread, within, b, data

\* Block after block, a read gives the bytes from the offset on.
LEMMA ReadGives ==
  ASSUME NEW leaf, IsFile(leaf), NEW offset \in Nat, NEW length \in Nat,
         offset < Len(leaf.data), length > 0
  PROVE  LET n == Lesser(length, Len(leaf.data) - offset)
         IN  virtual_read(leaf, offset, length)
               = IF \E k \in offset \div leaf.block_size .. (offset + n - 1) \div leaf.block_size : k \in leaf.bad
                 THEN Error ELSE SubSeq(leaf.data, offset + 1, offset + n)
<1> DEFINE data == leaf.data
           b == leaf.block_size
           len == Len(data)
           n == Lesser(length, len - offset)
           canread(done) == Lesser(Len(Block(leaf, (offset + done) \div b)) - ((offset + done) % b), n - done)
           part(done) == SubSeq(Block(leaf, (offset + done) \div b), ((offset + done) % b) + 1,
                                ((offset + done) % b) + canread(done))
           Read(g) == g = [done \in 0 .. n |-> IF done = n THEN <<>> ELSE part(done) \o g[done + canread(done)]]
           rest(done) == SubSeq(data, offset + done + 1, offset + n)
<1>1. data \in Seq(Nat) /\ len \in Nat /\ n \in Nat /\ n > 0 /\ offset + n <= len
  <2>1. data \in Seq(Nat) /\ len \in Nat
    BY DEF IsFile
  <2> HIDE DEF data, len
  <2> QED
    BY <2>1 DEF Lesser, len, data
<1>2. virtual_read(leaf, offset, length)
        = IF \E k \in offset \div b .. (offset + n - 1) \div b : k \in leaf.bad
          THEN Error ELSE (CHOOSE g : Read(g))[0]
  <2>1. ~(offset >= Len(leaf.data))
    BY <1>1
  <2> QED
    BY <2>1, ZenonT(30) DEF virtual_read
<1>3. ASSUME NEW done \in 0 .. n, done # n
      PROVE  /\ canread(done) \in 1 .. n - done
             /\ rest(done) = part(done) \o rest(done + canread(done))
  <2> DEFINE at == offset + done
             c == canread(done)
  <2>1. at \in Nat /\ at < len /\ n - done \in Nat /\ at + (n - done) <= len /\ n - done > 0
    BY <1>1, <1>3
  <2>2. c \in 1 .. n - done /\ part(done) = SubSeq(data, at + 1, at + c)
    <3> HIDE DEF n, at
    <3> QED
      BY <2>1, BlockHas DEF at
  <2> HIDE DEF c, at, data, n
  <2>3. SubSeq(data, at + 1, at + c) \o SubSeq(data, at + c + 1, offset + n) = SubSeq(data, at + 1, offset + n)
    <3> DEFINE m == at + 1
               k == at + c
               e == offset + n
    <3>1. m \in 1 .. len + 1 /\ k \in m - 1 .. len /\ e \in k .. len
      BY <1>1, <2>1, <2>2 DEF at
    <3>2. SubSeq(data, m, k) \o SubSeq(data, k + 1, e) = SubSeq(data, m, e)
      <4> HIDE DEF m, k, e
      <4> QED
        BY <1>1, <3>1, ConcatAdjacentSubSeq DEF len
    <3> QED
      BY <3>2
  <2>4. rest(done) = SubSeq(data, at + 1, offset + n) /\ at + c + 1 = offset + (done + c) + 1
    BY <2>2 DEF at
  <2>5. rest(done + c) = SubSeq(data, offset + (done + c) + 1, offset + n)
    OBVIOUS
  <2>6. rest(done) = part(done) \o rest(done + c)
    <3> HIDE DEF part, rest
    <3> QED
      BY <2>2, <2>3, <2>4, <2>5
  <2> QED
    BY <2>2, <2>6 DEF c
<1>4. rest(n) = <<>>
  <2> HIDE DEF n, data
  <2> QED
    BY <1>1, SubSeqEmpty
<1> HIDE DEF n, canread, part, rest
<1>5. \E g : Read(g)
  <2> DEFINE g == [done \in 0 .. n |-> rest(done)]
  <2>1. ASSUME NEW done \in 0 .. n, done # n PROVE g[done + canread(done)] = rest(done + canread(done))
    BY <1>1, <1>3, <2>1
  <2>2. Read(g)
    BY <1>3, <1>4, <2>1
  <2> QED
    BY <2>2
<1>6. Read(CHOOSE g : Read(g))
  <2> HIDE DEF Read
  <2> QED
    BY <1>5
<1> DEFINE read == CHOOSE g : Read(g)
<1> HIDE DEF read
<1>7. \A m \in 0 .. n : \A done \in 0 .. n : done >= n - m => read[done] = rest(done)
  <2> DEFINE T == {m \in Nat : \A done \in 0 .. n : done >= n - m => read[done] = rest(done)}
  <2>1. \A done \in 0 .. n : read[done] = IF done = n THEN <<>> ELSE part(done) \o read[done + canread(done)]
    BY <1>6 DEF read
  <2>2. 0 \in T
    <3>1. ASSUME NEW done \in 0 .. n, done >= n - 0 PROVE read[done] = rest(done)
      <4>1. done = n
        BY <1>1, <3>1
      <4> QED
        BY <1>4, <2>1, <4>1
    <3> QED
      BY <3>1
  <2>3. ASSUME NEW m \in 1 .. n, m - 1 \in T PROVE m \in T
    <3>1. ASSUME NEW done \in 0 .. n, done >= n - m, done # n PROVE read[done] = rest(done)
      <4>1. canread(done) \in 1 .. n - done
        BY <1>3, <3>1
      <4>2. done + canread(done) \in 0 .. n /\ done + canread(done) >= n - (m - 1)
        BY <1>1, <3>1, <4>1
      <4>3. read[done + canread(done)] = rest(done + canread(done))
        BY <2>3, <4>2
      <4> QED
        BY <1>3, <2>1, <3>1, <4>3
    <3>2. read[n] = rest(n)
      BY <1>1, <1>4, <2>1
    <3> QED
      BY <3>1, <3>2
  <2>4. \A m \in 0 .. n : m \in T
    <3> HIDE DEF T
    <3> QED
      BY <1>1, <2>2, <2>3, CountingUp
  <2> QED
    BY <2>4
<1>8. read[0] = rest(0)
  <2>1. n \in 0 .. n /\ 0 \in 0 .. n /\ 0 >= n - n
    BY <1>1
  <2>2. \A done \in 0 .. n : done >= n - n => read[done] = rest(done)
    BY <1>7, <2>1
  <2> QED
    BY <2>1, <2>2
<1>9. rest(0) = SubSeq(data, offset + 1, offset + n)
  <2>1. offset + 0 + 1 = offset + 1
    OBVIOUS
  <2> QED
    BY <2>1 DEF rest
<1> QED
  BY <1>2, <1>8, <1>9 DEF read, n

FilesInv == \A p \in DOMAIN fs.dir : IsFile(fs.dir[p])

LEMMA FilesAlways == Spec => []FilesInv
<1>1. Init => FilesInv
  <2> SUFFICES ASSUME Init PROVE FilesInv
    OBVIOUS
  <2>1. fs.dir = <<>>
    BY DEF Init, EmptyFS
  <2> QED
    BY <2>1 DEF FilesInv
<1>2. FSInv /\ FilesInv /\ [Next]_vars => FilesInv'
  <2> SUFFICES ASSUME FSInv, FilesInv, [Next]_vars PROVE FilesInv'
    OBVIOUS
  <2>1. \/ UNCHANGED fs \/ fs' = EmptyFS \/ addarchive_fails
        \/ \E f \in DOMAIN Archives : addarchive(f)
    BY DEF Next, vars, psf_load_steps, psf1Loader, psf2fs_load_callback, Probed, Starts,
           openFile, setPosition, Load, psf2fs_create, Accepts
  <2>2. CASE UNCHANGED fs
    BY <2>2 DEF FilesInv
  <2>3. CASE fs' = EmptyFS
    <3>1. fs'.dir = <<>>
      BY <2>3 DEF EmptyFS
    <3> QED
      BY <3>1 DEF FilesInv
  <2>4. CASE addarchive_fails
    <3>1. fs'.dir = <<>>
      BY <2>4 DEF addarchive_fails
    <3> QED
      BY <3>1 DEF FilesInv
  <2>5. ASSUME NEW f \in DOMAIN Archives, addarchive(f) PROVE FilesInv'
    <3> DEFINE from == makearchivedir(f)
               new == mergedir(fs.dir, from)
    <3>1. fs'.dir = new
      BY <2>5 DEF addarchive, FSInv
    <3>2. ASSUME NEW p \in DOMAIN from PROVE IsFile(from[p])
      BY <3>2, ArchivesAssumption DEF makearchivedir, IsFile
    <3>3. ASSUME NEW p \in DOMAIN new
          PROVE  (p \in DOMAIN from /\ new[p] = from[p]) \/ (p \in DOMAIN fs.dir /\ new[p] = fs.dir[p])
      <4> HIDE DEF from
      <4> QED
        BY <3>3 DEF mergedir
    <3> HIDE DEF from, new
    <3>4. ASSUME NEW p \in DOMAIN new PROVE IsFile(new[p])
      BY <3>2, <3>3, <3>4 DEF FilesInv
    <3> QED
      BY <3>1, <3>4 DEF FilesInv
  <2> QED
    BY <2>1, <2>2, <2>3, <2>4, <2>5
<1> QED
  BY <1>1, <1>2, FSAlways, PTL DEF Spec

\* Whatever is asked for, psf2fs_virtual_readfile gives the bytes of the file
\* at that place and no others, or an error where a block that is needed cannot
\* be decompressed (psf2fs.c:374-456), for any archives.
THEOREM ReadsRight == Spec => []ReadsSlice
<1>1. FilesInv => ReadsSlice
  <2> SUFFICES ASSUME FilesInv, NEW p \in DOMAIN fs.dir,
                      NEW offset \in 0 .. Len(fs.dir[p].data) + 1,
                      NEW length \in 1 .. Len(fs.dir[p].data) + 1
               PROVE  LET f == fs.dir[p]
                          upto == Lesser(offset + length, Len(f.data))
                          spoilt == \E i \in offset .. upto - 1 : i \div f.block_size \in f.bad
                      IN  psf2fs_virtual_readfile(p, offset, length)
                            = IF spoilt THEN Error ELSE SubSeq(f.data, offset + 1, upto)
    BY DEF ReadsSlice
  <2> DEFINE f == fs.dir[p]
             data == f.data
             b == f.block_size
             len == Len(data)
             upto == Lesser(offset + length, len)
             spoilt == \E i \in offset .. upto - 1 : i \div b \in f.bad
             n == Lesser(length, len - offset)
  <2>1. IsFile(f) /\ data \in Seq(Nat) /\ len \in Nat /\ offset \in Nat /\ length \in Nat /\ length > 0
    BY DEF FilesInv, IsFile
  <2>2. psf2fs_virtual_readfile(p, offset, length) = virtual_read(f, offset, length)
    BY <2>1 DEF psf2fs_virtual_readfile
  <2> HIDE DEF f
  <2>3. CASE offset >= len
    <3>1. upto = len
      <4> HIDE DEF len
      <4> QED
        BY <2>1, <2>3 DEF Lesser
    <3> HIDE DEF upto
    <3>2. ~spoilt
      BY <2>1, <2>3, <3>1
    <3>3. SubSeq(data, offset + 1, upto) = <<>>
      BY <2>1, <2>3, <3>1, SubSeqEmpty
    <3>4. virtual_read(f, offset, length) = <<>>
      BY <2>3 DEF virtual_read
    <3> QED
      BY <2>2, <3>2, <3>3, <3>4 DEF f, upto
  <2>4. CASE offset < len
    <3>1. n \in Nat /\ n > 0 /\ upto = offset + n
      <4> HIDE DEF len
      <4> QED
        BY <2>1, <2>4 DEF Lesser
    <3>2. b \in Nat /\ b # 0
      <4>1. data # <<>>
        BY <2>1, <2>4
      <4> QED
        BY <2>1, <4>1 DEF IsFile
    <3> DEFINE first == offset \div b
               last == (offset + n - 1) \div b
    <3>3. virtual_read(f, offset, length)
            = IF \E k \in first .. last : k \in f.bad THEN Error ELSE SubSeq(data, offset + 1, offset + n)
      BY <2>1, <2>4, ReadGives
    <3> HIDE DEF n, upto, b
    <3>4. spoilt <=> \E k \in first .. last : k \in f.bad
      <4>1. offset + n - 1 \in Nat /\ offset <= offset + n - 1 /\ upto - 1 = offset + n - 1
        BY <2>1, <3>1
      <4>2. ASSUME NEW k \in Nat
            PROVE  k \in first .. last <=> \E i \in offset .. offset + n - 1 : i \div b = k
        <5> DEFINE e == offset + n - 1
        <5>1. e \in Nat /\ offset <= e
          BY <4>1
        <5> HIDE DEF e
        <5>2. Covers(b, offset, e, k)
          BY <2>1, <3>2, <5>1, BlocksBetween
        <5>3. Covers(b, offset, offset + n - 1, k)
          BY <5>2 DEF e
        <5> QED
          BY <5>3, Zenon DEF Covers
      <4>3. \A k \in first .. last : k \in Nat
        <5>1. first \in Nat /\ last \in Nat
          <6>1. \A e \in Nat : e \div b \in Nat
            BY <3>2
          <6> QED
            BY <2>1, <4>1, <6>1
        <5> HIDE DEF first, last
        <5> QED
          BY <5>1
      <4>4. \A i \in offset .. offset + n - 1 : i \div b \in Nat
        BY <2>1, <3>2, <4>1
      <4> HIDE DEF first, last
      <4> QED
        BY <4>1, <4>2, <4>3, <4>4
    <3> QED
      BY <2>2, <3>1, <3>3, <3>4 DEF f, upto, b
  <2> QED
    BY <2>1, <2>3, <2>4
<1> QED
  BY <1>1, FilesAlways, PTL

-----------------------------------------------------------------------------
(* What psf_load should give, level by level.                               *)

Levels == 1 .. max_recursion_depth

\* What loading f has given when its libraries up to number c have been loaded.
Part(programs, f, n) == IF n \in NumberedLibs(f) THEN LibGives(programs, f, n) ELSE <<>>
Parts(programs, f, c) == [n \in 1 .. c |-> Part(programs, f, n)]
Gave(programs, f, c) == LibGives(programs, f, 1) \o <<f>> \o FlattenSeq(Parts(programs, f, c))

LEMMA GaveType ==
  ASSUME NEW programs \in [Files -> Seq(Files)], NEW f \in Files, NEW c \in Nat
  PROVE  /\ \A n : LibGives(programs, f, n) \in Seq(Files) /\ Part(programs, f, n) \in Seq(Files)
         /\ Parts(programs, f, c) \in Seq(Seq(Files)) /\ Len(Parts(programs, f, c)) = c
         /\ LibGives(programs, f, 1) \o <<f>> \in Seq(Files)
         /\ FlattenSeq(Parts(programs, f, c)) \in Seq(Files)
         /\ Gave(programs, f, c) \in Seq(Files)
<1>1. <<>> \in Seq(Files) /\ <<f>> \in Seq(Files)
  OBVIOUS
<1>2. \A n : LibGives(programs, f, n) \in Seq(Files) /\ Part(programs, f, n) \in Seq(Files)
  BY <1>1 DEF LibGives, Part
<1>3. Parts(programs, f, c) \in Seq(Seq(Files)) /\ Len(Parts(programs, f, c)) = c
  BY <1>2 DEF Parts
<1>4. FlattenSeq(Parts(programs, f, c)) \in Seq(Files)
  BY <1>3, FlattenType
<1>5. LibGives(programs, f, 1) \o <<f>> \in Seq(Files)
  BY <1>1, <1>2, ConcatProperties
<1>6. Gave(programs, f, c) \in Seq(Files)
  BY <1>4, <1>5, ConcatProperties DEF Gave
<1> QED
  BY <1>2, <1>3, <1>4, <1>5, <1>6

LEMMA GaveFirst ==
  ASSUME NEW programs \in [Files -> Seq(Files)], NEW f \in Files
  PROVE  Gave(programs, f, 1) = LibGives(programs, f, 1) \o <<f>>
<1>1. /\ Parts(programs, f, 1) \in Seq(Seq(Files)) /\ Len(Parts(programs, f, 1)) = 1
      /\ LibGives(programs, f, 1) \o <<f>> \in Seq(Files)
  BY GaveType
<1>2. \A i \in 1 .. Len(Parts(programs, f, 1)) : Parts(programs, f, 1)[i] = <<>>
  BY <1>1 DEF Parts, Part, NumberedLibs
<1>3. FlattenSeq(Parts(programs, f, 1)) = <<>>
  BY <1>1, <1>2, FlattenAllEmpty
<1> QED
  BY <1>1, <1>3, ConcatEmptySeq DEF Gave

LEMMA GaveOneMore ==
  ASSUME NEW programs \in [Files -> Seq(Files)], NEW f \in Files, NEW c \in Nat
  PROVE  Gave(programs, f, c + 1) = Gave(programs, f, c) \o Part(programs, f, c + 1)
<1> DEFINE first == LibGives(programs, f, 1) \o <<f>>
           q == Parts(programs, f, c)
           r == Parts(programs, f, c + 1)
           x == Part(programs, f, c + 1)
<1>1. /\ q \in Seq(Seq(Files)) /\ Len(q) = c /\ r \in Seq(Seq(Files)) /\ Len(r) = c + 1
      /\ x \in Seq(Files) /\ first \in Seq(Files) /\ FlattenSeq(q) \in Seq(Files)
  <2>1. \A d \in Nat : Parts(programs, f, d) \in Seq(Seq(Files)) /\ Len(Parts(programs, f, d)) = d
    BY GaveType
  <2>2. c + 1 \in Nat
    OBVIOUS
  <2> QED
    BY <2>1, <2>2, GaveType
<1>2. r = Append(q, x)
  <2>1. Append(q, x) \in Seq(Seq(Files)) /\ Len(Append(q, x)) = c + 1
    BY <1>1
  <2>2. ASSUME NEW i \in 1 .. c + 1 PROVE r[i] = Append(q, x)[i]
    <3>1. CASE i = c + 1
      <4>1. Append(q, x)[i] = x /\ r[i] = Part(programs, f, i)
        BY <1>1, <3>1 DEF Parts
      <4> QED
        BY <3>1, <4>1
    <3>2. CASE i # c + 1
      <4>1. i \in 1 .. c
        BY <3>2
      <4>2. Append(q, x)[i] = q[i]
        BY <1>1, <4>1
      <4> QED
        BY <4>1, <4>2 DEF Parts
    <3> QED
      BY <3>1, <3>2
  <2> HIDE DEF q, r, x
  <2> QED
    BY <1>1, <2>1, <2>2
<1> HIDE DEF q, r, x, first
<1>3. FlattenSeq(r) = FlattenSeq(q) \o x
  BY <1>1, <1>2, FlattenAppend
<1>4. first \o (FlattenSeq(q) \o x) = (first \o FlattenSeq(q)) \o x
  <2> DEFINE y == FlattenSeq(q)
  <2>1. first \in Seq(Files) /\ y \in Seq(Files) /\ x \in Seq(Files)
    BY <1>1
  <2> HIDE DEF y
  <2>2. (first \o y) \o x = first \o (y \o x)
    <3>1. ASSUME NEW a \in Seq(Files), NEW b \in Seq(Files), NEW d \in Seq(Files)
          PROVE  (a \o b) \o d = a \o (b \o d)
      BY ConcatAssociative
    <3> QED
      BY <2>1, <3>1
  <2> QED
    BY <2>2 DEF y
<1> QED
  BY <1>3, <1>4 DEF Gave, first, q, r, x

\* Behind the first number that is missing there is nothing.
LEMMA GaveAll ==
  ASSUME NEW programs \in [Files -> Seq(Files)], NEW f \in Files, NEW c \in 1 .. Len(LibNames),
         ~HasLib(f, c + 1)
  PROVE  Gave(programs, f, c) = Gave(programs, f, Len(LibNames))
<1> DEFINE n == Len(LibNames)
           T == {d \in Nat : c + d <= n => Gave(programs, f, c + d) = Gave(programs, f, c)}
<1>1. n \in Nat /\ c \in Nat /\ c >= 1 /\ n - c \in Nat
  BY LibsThere
<1> HIDE DEF n
<1>2. 0 \in T
  BY <1>1
<1>3. ASSUME NEW m \in 1 .. n - c, m - 1 \in T PROVE m \in T
  <2> DEFINE b == c + (m - 1)
  <2>1. b \in Nat /\ b + 1 = c + m /\ b + 1 >= c + 1 /\ c + 1 >= 2 /\ b <= n
    BY <1>1
  <2>2. Gave(programs, f, b) = Gave(programs, f, c)
    BY <1>3, <2>1
  <2>3. b + 1 \notin NumberedLibs(f)
    <3>1. c + 1 \in 2 .. b + 1
      BY <1>1, <2>1
    <3> HIDE DEF b
    <3> QED
      BY <3>1 DEF NumberedLibs
  <2>4. Part(programs, f, b + 1) = <<>>
    BY <2>3 DEF Part
  <2> HIDE DEF b
  <2>5. Gave(programs, f, b + 1) = Gave(programs, f, b) \o <<>> /\ Gave(programs, f, b) \in Seq(Files)
    BY <2>1, <2>4, GaveOneMore, GaveType
  <2>6. Gave(programs, f, c + m) = Gave(programs, f, c)
    BY <2>1, <2>2, <2>5, ConcatEmptySeq
  <2> QED
    BY <1>1, <2>6
<1>4. n - c \in T
  <2>1. \A m \in 0 .. n - c : m \in T
    <3> HIDE DEF T
    <3> QED
      BY <1>1, <1>2, <1>3, CountingUp
  <2>2. n - c \in 0 .. n - c
    BY <1>1
  <2> QED
    BY <2>1, <2>2
<1>5. c + (n - c) = n /\ c + (n - c) <= n
  BY <1>1
<1> QED
  BY <1>4, <1>5 DEF n

LEMMA ProgramsAre ==
  /\ \A l \in 0 .. max_recursion_depth : Programs[l] \in [Files -> Seq(Files)]
  /\ \A l \in Levels, f \in Files : Programs[l][f] = Gave(Programs[l - 1], f, Len(LibNames))
<1> DEFINE S == [Files -> Seq(Files)]
           none == [f \in Files |-> <<>>]
           Steps == Levels \X S
           step == [x \in Steps |-> [f \in Files |-> Gave(x[2], f, Len(LibNames))]]
           Kept(g) == g = [l \in 0 .. max_recursion_depth |->
                             [f \in Files |-> IF l = 0 THEN <<>> ELSE Gave(g[l - 1], f, Len(LibNames))]]
<1>1. Programs = CHOOSE g : Kept(g)
  BY Zenon DEF Programs, Gave, Parts, Part
<1>2. none \in S /\ step \in [Steps -> S] /\ max_recursion_depth \in Nat
  <2>1. ASSUME NEW x \in Steps PROVE [f \in Files |-> Gave(x[2], f, Len(LibNames))] \in S
    <3>1. x[2] \in S /\ Len(LibNames) \in Nat
      BY LibsThere
    <3>2. \A f \in Files : Gave(x[2], f, Len(LibNames)) \in Seq(Files)
      BY <3>1, GaveType
    <3> QED
      BY <3>2
  <2>2. none \in S
    OBVIOUS
  <2> QED
    BY <2>1, <2>2, LibsThere
<1>3. PICK h \in [0 .. max_recursion_depth -> S] : Follows(h, max_recursion_depth, none, step)
  <2> HIDE DEF S, none, step
  <2> QED
    BY <1>2, RecursionExists DEF Levels
<1>4. ASSUME NEW l \in Levels PROVE h[l] = [f \in Files |-> Gave(h[l - 1], f, Len(LibNames))]
  <2>1. l - 1 \in 0 .. max_recursion_depth
    BY <1>2 DEF Levels
  <2>2. <<l, h[l - 1]>> \in Steps
    BY <1>3, <2>1
  <2>3. h[l] = step[<<l, h[l - 1]>>]
    BY <1>3 DEF Follows, Levels
  <2> QED
    BY <2>2, <2>3
<1>5. Kept(h)
  <2>1. ASSUME NEW l \in 0 .. max_recursion_depth
        PROVE  h[l] = [f \in Files |-> IF l = 0 THEN <<>> ELSE Gave(h[l - 1], f, Len(LibNames))]
    <3>1. CASE l = 0
      BY <1>3, <3>1 DEF Follows
    <3>2. CASE l # 0
      <4>1. l \in Levels
        BY <1>2, <3>2 DEF Levels
      <4> QED
        BY <1>4, <3>2, <4>1
    <3> QED
      BY <3>1, <3>2
  <2> QED
    BY <1>3, <2>1
<1>6. Kept(Programs)
  <2> HIDE DEF Kept
  <2> QED
    BY <1>1, <1>5
<1>7. \A l \in Levels, f \in Files : Programs[l][f] = Gave(Programs[l - 1], f, Len(LibNames))
  <2> TAKE l \in Levels, f \in Files
  <2>1. l \in 0 .. max_recursion_depth /\ l # 0
    BY <1>2 DEF Levels
  <2>2. Programs[l] = [x \in Files |-> IF l = 0 THEN <<>> ELSE Gave(Programs[l - 1], x, Len(LibNames))]
    BY <1>6, <2>1
  <2> QED
    BY <2>1, <2>2
<1>8. \A l \in 0 .. max_recursion_depth : Programs[l] \in S
  <2> DEFINE T == {l \in Nat : Programs[l] \in S}
  <2>1. 0 \in T
    <3>1. Programs[0] = [f \in Files |-> <<>>]
      BY <1>2, <1>6
    <3> QED
      BY <1>2, <3>1
  <2>2. ASSUME NEW m \in 1 .. max_recursion_depth, m - 1 \in T PROVE m \in T
    <3>1. m \in 0 .. max_recursion_depth /\ m # 0 /\ m \in Nat /\ Programs[m - 1] \in S /\ Len(LibNames) \in Nat
      BY <1>2, <2>2, LibsThere
    <3>2. Programs[m] = [f \in Files |-> Gave(Programs[m - 1], f, Len(LibNames))]
      BY <1>6, <3>1
    <3>3. \A f \in Files : Gave(Programs[m - 1], f, Len(LibNames)) \in Seq(Files)
      BY <3>1, GaveType
    <3> QED
      BY <3>1, <3>2, <3>3
  <2>3. \A m \in 0 .. max_recursion_depth : m \in T
    <3> HIDE DEF T
    <3> QED
      BY <1>2, <2>1, <2>2, CountingUp
  <2> QED
    BY <2>3
<1> QED
  BY <1>7, <1>8

\* That g can be loaded with l levels to go, where good says so of each file.
Good(good, g, l) == g \in Files /\ good[l][g]

Fits(version, f) == Contents[f].header /\ version \in {0, Contents[f].version}

\* good is right about each file and level, for files of the version.
IsVerdict(good, version) ==
  /\ \A f \in Files : ~good[0][f]
  /\ \A l \in Levels, f \in Files :
       good[l][f] <=> /\ Fits(version, f) /\ Contents[f].body /\ Accepts(version, f)
                      /\ \A n \in {1} \cup NumberedLibs(f) : HasLib(f, n) => Good(good, Lib(f, n), l - 1)

LEMMA Verdicts == IsVerdict(Loadable, allowed_version)
<1> DEFINE S == [Files -> BOOLEAN]
           none == [f \in Files |-> FALSE]
           Steps == Levels \X S
           Yes(good, f) ==
             /\ Sound(f) /\ Contents[f].body /\ Accepts(allowed_version, f)
             /\ \A n \in {1} \cup NumberedLibs(f) : HasLib(f, n) => Lib(f, n) \in Files /\ good[Lib(f, n)]
           step == [x \in Steps |-> [f \in Files |-> Yes(x[2], f)]]
           Kept(g) == g = [l \in 0 .. max_recursion_depth |-> [f \in Files |-> l > 0 /\ Yes(g[l - 1], f)]]
<1>1. Loadable = CHOOSE g : Kept(g)
  <2>1. Loadable = CHOOSE g : g = [l \in 0 .. max_recursion_depth |->
          [f \in Files |->
             /\ l > 0
             /\ Sound(f) /\ Contents[f].body /\ Accepts(allowed_version, f)
             /\ \A n \in {1} \cup NumberedLibs(f) :
                  HasLib(f, n) => Lib(f, n) \in Files /\ g[l - 1][Lib(f, n)]]]
    BY Zenon DEF Loadable
  <2>2. \A g, l, f :
          (/\ l > 0
           /\ Sound(f) /\ Contents[f].body /\ Accepts(allowed_version, f)
           /\ \A n \in {1} \cup NumberedLibs(f) :
                HasLib(f, n) => Lib(f, n) \in Files /\ g[l - 1][Lib(f, n)]) = (l > 0 /\ Yes(g[l - 1], f))
    OBVIOUS
  <2> QED
    BY <2>1, <2>2
<1>2. none \in S /\ step \in [Steps -> S] /\ max_recursion_depth \in Nat
  <2>1. \A good, f : Yes(good, f) \in BOOLEAN
    OBVIOUS
  <2> HIDE DEF Yes
  <2>2. ASSUME NEW x \in Steps PROVE [f \in Files |-> Yes(x[2], f)] \in S
    BY <2>1
  <2> QED
    BY <2>2, LibsThere
<1>3. PICK h \in [0 .. max_recursion_depth -> S] : Follows(h, max_recursion_depth, none, step)
  <2> HIDE DEF S, none, step
  <2> QED
    BY <1>2, RecursionExists DEF Levels
<1> HIDE DEF Yes
<1>4. ASSUME NEW l \in Levels PROVE h[l] = [f \in Files |-> Yes(h[l - 1], f)]
  <2>1. l - 1 \in 0 .. max_recursion_depth
    BY <1>2 DEF Levels
  <2>2. <<l, h[l - 1]>> \in Steps
    BY <1>3, <2>1
  <2>3. h[l] = step[<<l, h[l - 1]>>]
    BY <1>3 DEF Follows, Levels
  <2> QED
    BY <2>2, <2>3
<1>5. Kept(h)
  <2>1. ASSUME NEW l \in 0 .. max_recursion_depth
        PROVE  h[l] = [f \in Files |-> l > 0 /\ Yes(h[l - 1], f)]
    <3>1. CASE l = 0
      <4>1. h[l] = [f \in Files |-> FALSE] /\ ~(l > 0)
        BY <1>3, <3>1 DEF Follows
      <4> QED
        BY <4>1
    <3>2. CASE l # 0
      <4>1. l \in Levels /\ l > 0
        BY <1>2, <3>2 DEF Levels
      <4>2. \A f \in Files : Yes(h[l - 1], f) \in BOOLEAN
        BY DEF Yes
      <4> QED
        BY <1>4, <4>1, <4>2
    <3> QED
      BY <3>1, <3>2
  <2> QED
    BY <1>3, <2>1
<1>6. Kept(Loadable)
  <2> HIDE DEF Kept
  <2> QED
    BY <1>1, <1>5
<1>7. ASSUME NEW f \in Files PROVE ~Loadable[0][f]
  <2>1. 0 \in 0 .. max_recursion_depth /\ ~(0 > 0)
    BY <1>2
  <2>2. Loadable[0] = [x \in Files |-> 0 > 0 /\ Yes(Loadable[0 - 1], x)]
    BY <1>6, <2>1
  <2> QED
    BY <2>1, <2>2
<1>8. ASSUME NEW l \in Levels, NEW f \in Files PROVE Loadable[l][f] <=> Yes(Loadable[l - 1], f)
  <2>1. l \in 0 .. max_recursion_depth /\ l > 0
    BY <1>2 DEF Levels
  <2>2. Loadable[l] = [x \in Files |-> l > 0 /\ Yes(Loadable[l - 1], x)]
    BY <1>6, <2>1
  <2>3. Loadable[l][f] = (l > 0 /\ Yes(Loadable[l - 1], f))
    BY <2>2
  <2> QED
    BY <2>1, <2>3
<1> QED
  BY <1>7, <1>8 DEF IsVerdict, Yes, Good, Fits, Sound

-----------------------------------------------------------------------------
(* The calls that are going on, as values: s is the stack, of a load of     *)
(* song, and given what load_target has been given.                         *)

Level(k) == max_recursion_depth - k + 1

\* A call past load_target whose libraries up to number c have been loaded.
Served(good, version, f, l, c) ==
  /\ Contents[f].body /\ Accepts(version, f)
  /\ HasLib(f, 1) => Good(good, Lib(f, 1), l)
  /\ \A m \in 2 .. c : HasLib(f, m) /\ Good(good, Lib(f, m), l)

Entered(version, call, l) == call.file \in Files /\ l \in Levels /\ Fits(version, call.file)

\* The innermost call.
Works(good, version, call, l) ==
  /\ call.at # "enter" => Entered(version, call, l)
  /\ call.at = "target" /\ HasLib(call.file, 1) => Good(good, Lib(call.file, 1), l - 1)
  /\ call.at = "next" => call.n \in 2 .. Len(LibNames) + 1
                         /\ Served(good, version, call.file, l - 1, call.n - 1)
  /\ call.at = "done" => good[l][call.file]

\* A call that waits for the library g.
Waits(good, version, call, l, g) ==
  /\ Entered(version, call, l)
  /\ \/ call.at = "target" /\ HasLib(call.file, 1) /\ g = Lib(call.file, 1)
     \/ /\ call.at = "next" /\ call.n \in 3 .. Len(LibNames) + 1
        /\ Served(good, version, call.file, l - 1, call.n - 2)
        /\ HasLib(call.file, call.n - 1) /\ g = Lib(call.file, call.n - 1)

WorkGave(call, l) ==
  IF call.at = "target" THEN LibGives(Programs[l - 1], call.file, 1)
  ELSE IF call.at = "next" THEN Gave(Programs[l - 1], call.file, call.n - 1)
  ELSE IF call.at = "done" THEN Programs[l][call.file] ELSE <<>>

WaitGave(call, l) ==
  IF call.at = "target" THEN <<>> ELSE Gave(Programs[l - 1], call.file, call.n - 2)

\* The calls around the innermost one.
Around(good, version, s, song) ==
  /\ s[1].file = song
  /\ \A k \in 1 .. Len(s) - 1 : Waits(good, version, s[k], Level(k), s[k + 1].file)

\* base[k]: what had been given when the call k began.
Bases(s, base) ==
  /\ base \in [1 .. Len(s) -> Seq(Files)] /\ base[1] = <<>>
  /\ \A k \in 1 .. Len(s) - 1 : base[k + 1] = base[k] \o WaitGave(s[k], Level(k))

Loads(good, version, s, song, given) ==
  /\ Around(good, version, s, song)
  /\ Works(good, version, s[Len(s)], Level(Len(s)))
  /\ \E base : Bases(s, base) /\ given = base[Len(s)] \o WorkGave(s[Len(s)], Level(Len(s)))

\* A load that fails: the innermost call could not do its work.
Failed(good, version, s, song) ==
  Around(good, version, s, song) /\ ~Good(good, s[Len(s)].file, Level(Len(s)))

\* The innermost call goes on.
LEMMA WorkGoesOn ==
  ASSUME NEW good, NEW version, NEW s, NEW song, NEW given, Loads(good, version, s, song, given),
         NEW t, Len(s) \in Nat \ {0}, Len(t) = Len(s), \A k \in 1 .. Len(s) - 1 : t[k] = s[k],
         t[Len(s)].file = s[Len(s)].file,
         Works(good, version, t[Len(s)], Level(Len(s))),
         NEW more,
         \A b \in Seq(Files) : given = b \o WorkGave(s[Len(s)], Level(Len(s)))
                               => more = b \o WorkGave(t[Len(s)], Level(Len(s)))
  PROVE  Loads(good, version, t, song, more)
<1> DEFINE n == Len(s)
<1>1. n \in Nat \ {0} /\ Len(t) = n
  OBVIOUS
<1> HIDE DEF n
<1>2. Around(good, version, s, song) /\ \E base : Bases(s, base) /\ given = base[n] \o WorkGave(s[n], Level(n))
  BY DEF Loads, n
<1>3. Around(good, version, t, song)
  <2>1. t[1].file = song
    <3>1. n = 1 \/ 1 \in 1 .. n - 1
      BY <1>1
    <3> QED
      BY <1>2, <3>1 DEF Around, n
  <2>2. ASSUME NEW k \in 1 .. n - 1 PROVE t[k] = s[k] /\ t[k + 1].file = s[k + 1].file
    <3>1. k + 1 = n \/ k + 1 \in 1 .. n - 1
      BY <1>1
    <3> QED
      BY <3>1 DEF n
  <2> QED
    BY <1>1, <1>2, <2>1, <2>2 DEF Around, n
<1>4. PICK base : Bases(s, base) /\ given = base[n] \o WorkGave(s[n], Level(n))
  BY <1>2
<1>5. Bases(t, base)
  BY <1>1, <1>4 DEF Bases, n
<1>6. base[n] \in Seq(Files)
  BY <1>1, <1>4 DEF Bases, n
<1>7. more = base[n] \o WorkGave(t[n], Level(n))
  BY <1>4, <1>6 DEF n
<1> QED
  BY <1>1, <1>3, <1>5, <1>7 DEF Loads, n

\* It waits for a library.
LEMMA WorkCalls ==
  ASSUME NEW good, NEW version, NEW s, NEW song, NEW given \in Seq(Files), Loads(good, version, s, song, given),
         NEW t, NEW g, Len(s) \in Nat \ {0}, Len(t) = Len(s) + 1, \A k \in 1 .. Len(s) - 1 : t[k] = s[k],
         t[Len(s)].file = s[Len(s)].file, t[Len(s) + 1] = Frame(g),
         Waits(good, version, t[Len(s)], Level(Len(s)), g),
         WaitGave(t[Len(s)], Level(Len(s))) = WorkGave(s[Len(s)], Level(Len(s)))
  PROVE  Loads(good, version, t, song, given)
<1> DEFINE n == Len(s)
<1>1. n \in Nat \ {0} /\ Len(t) = n + 1 /\ n + 1 - 1 = n
  OBVIOUS
<1>2. Frame(g).file = g /\ Frame(g).at = "enter"
  BY DEF Frame
<1> HIDE DEF n
<1>3. Around(good, version, s, song) /\ \E base : Bases(s, base) /\ given = base[n] \o WorkGave(s[n], Level(n))
  BY DEF Loads, n
<1>4. Around(good, version, t, song)
  <2>1. t[1].file = song
    <3>1. n = 1 \/ 1 \in 1 .. n - 1
      BY <1>1
    <3> QED
      BY <1>3, <3>1 DEF Around, n
  <2>2. ASSUME NEW k \in 1 .. n PROVE Waits(good, version, t[k], Level(k), t[k + 1].file)
    <3>1. CASE k = n
      BY <1>2, <3>1 DEF n
    <3>2. CASE k # n
      <4>1. k \in 1 .. n - 1 /\ (k + 1 = n \/ k + 1 \in 1 .. n - 1)
        BY <1>1, <3>2
      <4>2. t[k] = s[k] /\ t[k + 1].file = s[k + 1].file
        BY <4>1 DEF n
      <4> QED
        BY <1>3, <4>1, <4>2 DEF Around, n
    <3> QED
      BY <3>1, <3>2
  <2> QED
    BY <1>1, <2>1, <2>2 DEF Around
<1>5. Works(good, version, t[n + 1], Level(n + 1)) /\ WorkGave(t[n + 1], Level(n + 1)) = <<>>
  <2>1. t[n + 1].at = "enter"
    BY <1>2 DEF n
  <2> DEFINE call == t[n + 1]
             l == Level(n + 1)
  <2>2. call.at = "enter"
    BY <2>1
  <2> HIDE DEF call, l
  <2>3. Works(good, version, call, l)
    BY <2>2 DEF Works
  <2>4. WorkGave(call, l) = <<>>
    BY <2>2 DEF WorkGave
  <2> QED
    BY <2>3, <2>4 DEF call, l
<1>6. PICK base : Bases(s, base) /\ given = base[n] \o WorkGave(s[n], Level(n))
  BY <1>3
<1> DEFINE new == [k \in 1 .. n + 1 |-> IF k = n + 1 THEN given ELSE base[k]]
<1>7. Bases(t, new) /\ new[n + 1] = given
  <2>1. /\ base \in [1 .. n -> Seq(Files)] /\ base[1] = <<>>
        /\ \A k \in 1 .. n - 1 : base[k + 1] = base[k] \o WaitGave(s[k], Level(k))
    BY <1>6 DEF Bases, n
  <2>2. new \in [1 .. n + 1 -> Seq(Files)] /\ new[1] = <<>> /\ new[n + 1] = given
        /\ \A k \in 1 .. n : new[k] = base[k]
    BY <1>1, <2>1
  <2> HIDE DEF new
  <2>3. ASSUME NEW k \in 1 .. n PROVE new[k + 1] = new[k] \o WaitGave(t[k], Level(k))
    <3>1. CASE k = n
      BY <1>6, <2>2, <3>1 DEF n
    <3>2. CASE k # n
      <4>1. k \in 1 .. n - 1 /\ k + 1 \in 1 .. n
        BY <1>1, <3>2
      <4>2. t[k] = s[k]
        BY <4>1 DEF n
      <4> QED
        BY <2>1, <2>2, <4>1, <4>2
    <3> QED
      BY <3>1, <3>2
  <2> HIDE DEF n
  <2>4. Len(t) = n + 1 /\ Len(t) - 1 = n
    BY <1>1
  <2> QED
    BY <2>2, <2>3, <2>4 DEF Bases
<1> HIDE DEF new
<1>8. given = new[n + 1] \o WorkGave(t[n + 1], Level(n + 1))
  BY <1>5, <1>7, ConcatEmptySeq
<1> QED
  BY <1>1, <1>4, <1>5, <1>7, <1>8 DEF Loads

\* The library a call waits for has been loaded.
LEMMA LibraryLoaded ==
  ASSUME NEW good, NEW version, NEW call, NEW l \in Levels, NEW g \in Files,
         Waits(good, version, call, l, g), good[l - 1][g]
  PROVE  /\ Works(good, version, call, l)
         /\ WaitGave(call, l) \in Seq(Files) /\ Programs[l - 1][g] \in Seq(Files)
         /\ WorkGave(call, l) = WaitGave(call, l) \o Programs[l - 1][g]
<1> DEFINE f == call.file
           P == Programs[l - 1]
           c == call.n - 2
<1>1. P \in [Files -> Seq(Files)]
  <2>1. l - 1 \in 0 .. max_recursion_depth
    BY LibsThere DEF Levels
  <2> QED
    BY <2>1, ProgramsAre
<1>2. Entered(version, call, l) /\ f \in Files /\ P[g] \in Seq(Files) /\ Good(good, g, l - 1)
  BY <1>1 DEF Waits, Entered, Good
<1>3. CASE call.at = "target" /\ HasLib(f, 1) /\ g = Lib(f, 1)
  <2>1. Works(good, version, call, l)
    BY <1>2, <1>3 DEF Works
  <2>2. WaitGave(call, l) = <<>> /\ WorkGave(call, l) = LibGives(P, f, 1)
    BY <1>3 DEF WaitGave, WorkGave
  <2>3. LibGives(P, f, 1) = P[g]
    BY <1>3 DEF LibGives
  <2> HIDE DEF P
  <2>4. <<>> \in Seq(Files) /\ <<>> \o P[g] = P[g]
    BY <1>2, ConcatEmptySeq
  <2> QED
    BY <1>2, <2>1, <2>2, <2>3, <2>4 DEF P
<1>4. CASE /\ call.at = "next" /\ call.n \in 3 .. Len(LibNames) + 1
           /\ Served(good, version, f, l - 1, call.n - 2)
           /\ HasLib(f, call.n - 1) /\ g = Lib(f, call.n - 1)
  <2>1. c \in Nat /\ c + 1 = call.n - 1 /\ c + 1 \in 2 .. Len(LibNames) /\ call.n \in 2 .. Len(LibNames) + 1
    BY <1>4, LibsThere
  <2>2. Served(good, version, f, l - 1, c) /\ HasLib(f, c + 1) /\ g = Lib(f, c + 1)
    BY <1>4, <2>1
  <2>3. WaitGave(call, l) = Gave(P, f, c) /\ WorkGave(call, l) = Gave(P, f, c + 1)
    BY <1>4, <2>1 DEF WaitGave, WorkGave
  <2> HIDE DEF c, P
  <2>4. \A m \in 2 .. c + 1 : HasLib(f, m) /\ Good(good, Lib(f, m), l - 1)
    <3> SUFFICES ASSUME NEW m \in 2 .. c + 1 PROVE HasLib(f, m) /\ Good(good, Lib(f, m), l - 1)
      OBVIOUS
    <3>1. m = c + 1 \/ m \in 2 .. c
      BY <2>1
    <3> QED
      BY <1>2, <2>2, <3>1 DEF Served
  <2>5. Works(good, version, call, l)
    <3>1. Served(good, version, f, l - 1, c + 1)
      BY <2>2, <2>4 DEF Served
    <3> QED
      BY <1>2, <1>4, <2>1, <3>1 DEF Works
  <2>6. Part(P, f, c + 1) = P[g]
    BY <1>2, <2>1, <2>2, <2>4 DEF Part, NumberedLibs, LibGives
  <2>7. Gave(P, f, c + 1) = Gave(P, f, c) \o P[g] /\ Gave(P, f, c) \in Seq(Files)
    BY <1>1, <1>2, <2>1, <2>6, GaveOneMore, GaveType
  <2> QED
    BY <1>2, <2>3, <2>5, <2>7 DEF P
<1> QED
  BY <1>2, <1>3, <1>4 DEF Waits

\* The innermost call has done its work, and returns.
LEMMA WorkReturns ==
  ASSUME NEW good, NEW version, NEW s, NEW song, NEW given, Loads(good, version, s, song, given),
         Len(s) \in Nat, Len(s) > 1, Len(s) <= max_recursion_depth + 1, s[Len(s)].at = "done",
         NEW t, Len(t) = Len(s) - 1, \A k \in 1 .. Len(s) - 1 : t[k] = s[k]
  PROVE  Loads(good, version, t, song, given)
<1> DEFINE m == Len(s) - 1
           l == Level(m)
           call == s[m]
           g == s[m + 1].file
<1>1. m \in Nat \ {0} /\ m + 1 = Len(s) /\ m \in 1 .. Len(s) - 1 /\ Level(m + 1) = l - 1 /\ Len(t) = m
  BY LibsThere DEF Level
<1> HIDE DEF m, l, call, g
<1>2. Around(good, version, s, song) /\ Works(good, version, s[m + 1], l - 1) /\ s[m + 1].at = "done"
      /\ \E base : Bases(s, base) /\ given = base[m + 1] \o WorkGave(s[m + 1], l - 1)
  BY <1>1 DEF Loads
<1>3. g \in Files /\ good[l - 1][g] /\ WorkGave(s[m + 1], l - 1) = Programs[l - 1][g]
  BY <1>2 DEF Works, Entered, WorkGave, g
<1>4. Waits(good, version, call, l, g) /\ l \in Levels
  <2>1. Waits(good, version, s[m], Level(m), s[m + 1].file)
    BY <1>1, <1>2 DEF Around
  <2> QED
    BY <2>1 DEF Waits, Entered, call, l, g
<1>5. /\ Works(good, version, call, l)
      /\ WaitGave(call, l) \in Seq(Files) /\ Programs[l - 1][g] \in Seq(Files)
      /\ WorkGave(call, l) = WaitGave(call, l) \o Programs[l - 1][g]
  BY <1>3, <1>4, LibraryLoaded
<1>6. PICK base : Bases(s, base) /\ given = base[m + 1] \o Programs[l - 1][g]
  BY <1>2, <1>3
<1>7. /\ base \in [1 .. m + 1 -> Seq(Files)] /\ base[1] = <<>>
      /\ \A k \in 1 .. m : base[k + 1] = base[k] \o WaitGave(s[k], Level(k))
  BY <1>1, <1>6 DEF Bases, m
<1> DEFINE new == [k \in 1 .. m |-> base[k]]
<1>8. new \in [1 .. m -> Seq(Files)] /\ \A k \in 1 .. m : new[k] = base[k]
  BY <1>1, <1>7
<1> HIDE DEF new
<1>9. t[m] = call /\ Around(good, version, t, song)
  <2>1. m \in 1 .. m /\ 1 \in 1 .. m /\ (\A k \in 1 .. m : t[k] = s[k]) /\ \A k \in 1 .. m - 1 : k \in 1 .. m /\ k + 1 \in 1 .. m
    BY <1>1 DEF m
  <2>2. s[1].file = song /\ \A k \in 1 .. m : Waits(good, version, s[k], Level(k), s[k + 1].file)
    BY <1>1, <1>2 DEF Around, m
  <2>3. \A k \in 1 .. m - 1 : Waits(good, version, t[k], Level(k), t[k + 1].file)
    BY <2>1, <2>2
  <2> QED
    BY <1>1, <2>1, <2>2, <2>3 DEF Around, call
<1>10. Bases(t, new)
  <2>1. 1 \in 1 .. m /\ \A k \in 1 .. m - 1 : k \in 1 .. m /\ k + 1 \in 1 .. m
    BY <1>1
  <2>2. \A k \in 1 .. m - 1 : t[k] = s[k]
    <3>1. \A k \in 1 .. m - 1 : k \in 1 .. Len(s) - 1
      BY <1>1
    <3> QED
      BY <3>1
  <2>3. \A k \in 1 .. m - 1 : new[k + 1] = new[k] \o WaitGave(t[k], Level(k))
    BY <1>7, <1>8, <2>1, <2>2
  <2> QED
    BY <1>1, <1>7, <1>8, <2>1, <2>3 DEF Bases
<1>11. given = new[m] \o WorkGave(call, l)
  <2> DEFINE a == base[m]
             b == WaitGave(call, l)
             d == Programs[l - 1][g]
  <2>1. a \in Seq(Files) /\ b \in Seq(Files) /\ d \in Seq(Files)
    BY <1>1, <1>5, <1>7
  <2>2. base[m + 1] = a \o b /\ new[m] = a
    BY <1>1, <1>7, <1>8 DEF call, l
  <2>3. given = (a \o b) \o d /\ WorkGave(call, l) = b \o d
    BY <1>5, <1>6, <2>2
  <2> HIDE DEF a, b, d
  <2>4. (a \o b) \o d = a \o (b \o d)
    <3>1. ASSUME NEW x \in Seq(Files), NEW y \in Seq(Files), NEW z \in Seq(Files)
          PROVE  (x \o y) \o z = x \o (y \o z)
      BY ConcatAssociative
    <3> QED
      BY <2>1, <3>1
  <2> QED
    BY <2>2, <2>3, <2>4
<1> QED
  BY <1>1, <1>5, <1>9, <1>10, <1>11 DEF Loads, call, l

\* A file fails if one of its libraries does.
LEMMA LibraryFails ==
  ASSUME NEW good, NEW version, IsVerdict(good, version), NEW call, NEW l, NEW g,
         Waits(good, version, call, l, g), ~Good(good, g, l - 1)
  PROVE  l \in Levels /\ ~good[l][call.file]
<1> DEFINE f == call.file
<1>1. l \in Levels /\ f \in Files
  BY DEF Waits, Entered
<1>2. \E n \in {1} \cup NumberedLibs(f) : HasLib(f, n) /\ g = Lib(f, n)
  <2>1. CASE call.at = "target" /\ HasLib(f, 1) /\ g = Lib(f, 1)
    BY <2>1
  <2>2. CASE /\ call.at = "next" /\ call.n \in 3 .. Len(LibNames) + 1
             /\ Served(good, version, f, l - 1, call.n - 2)
             /\ HasLib(f, call.n - 1) /\ g = Lib(f, call.n - 1)
    <3> DEFINE c == call.n - 1
    <3>1. c \in 2 .. Len(LibNames) /\ \A m \in 2 .. c : m = c \/ m \in 2 .. call.n - 2
      BY <2>2, LibsThere
    <3>2. \A m \in 2 .. call.n - 2 : HasLib(f, m)
      BY <2>2 DEF Served
    <3>3. HasLib(f, c) /\ g = Lib(f, c)
      BY <2>2
    <3> HIDE DEF c
    <3>4. c \in NumberedLibs(f)
      BY <3>1, <3>2, <3>3 DEF NumberedLibs
    <3> QED
      BY <3>3, <3>4
  <2> QED
    BY <2>1, <2>2 DEF Waits
<1> QED
  BY <1>1, <1>2 DEF IsVerdict

LEMMA FailureReturns ==
  ASSUME NEW good, NEW version, IsVerdict(good, version), NEW s, NEW song, Failed(good, version, s, song),
         Len(s) \in Nat, Len(s) > 1,
         NEW t, Len(t) = Len(s) - 1, \A k \in 1 .. Len(s) - 1 : t[k] = s[k]
  PROVE  Failed(good, version, t, song)
<1> DEFINE m == Len(s) - 1
<1>1. m \in Nat \ {0} /\ m + 1 = Len(s) /\ m \in 1 .. Len(s) - 1 /\ Level(m + 1) = Level(m) - 1 /\ Len(t) = m
  BY LibsThere DEF Level
<1>2. \A k \in 1 .. m : t[k] = s[k]
  OBVIOUS
<1> HIDE DEF m
<1>3. s[1].file = song /\ (\A k \in 1 .. m : Waits(good, version, s[k], Level(k), s[k + 1].file))
      /\ ~Good(good, s[m + 1].file, Level(m) - 1)
  BY <1>1 DEF Failed, Around, m
<1>4. ~Good(good, t[m].file, Level(m))
  <2>1. Waits(good, version, t[m], Level(m), s[m + 1].file)
    BY <1>1, <1>2, <1>3
  <2>2. ~good[Level(m)][t[m].file]
    BY <1>3, <2>1, LibraryFails
  <2> QED
    BY <2>2 DEF Good
<1>5. Around(good, version, t, song)
  <2>1. 1 \in 1 .. m /\ \A k \in 1 .. m - 1 : k \in 1 .. m /\ k + 1 \in 1 .. m
    BY <1>1
  <2>2. \A k \in 1 .. m - 1 : Waits(good, version, t[k], Level(k), t[k + 1].file)
    BY <1>2, <1>3, <2>1
  <2> QED
    BY <1>1, <1>2, <1>3, <2>1, <2>2 DEF Around
<1> QED
  BY <1>1, <1>4, <1>5 DEF Failed

-----------------------------------------------------------------------------
(* The steps of a load.                                                      *)

\* A change to the innermost call, all of it.
Moved(new, p, m) == new = [stack EXCEPT ![Len(stack)].at = p, ![Len(stack)].n = m]

LEMMA TopBecomes ==
  ASSUME LoadInv, stack # <<>>, NEW p \in Stages, NEW m \in Numbers, NEW new, Moved(new, p, m)
  PROVE  /\ \E S : new \in Seq(S)
         /\ Len(new) = Len(stack)
         /\ new[Len(stack)].at = p /\ new[Len(stack)].n = m /\ new[Len(stack)].file = Top.file
         /\ \A k \in 1 .. Len(stack) - 1 : new[k] = stack[k]
<1>1. PICK names : stack \in Seq(FramesOf(names))
  BY DEF LoadInv, StackInv
<1>2. Len(stack) \in Nat \ {0} /\ Top = stack[Len(stack)] /\ Top \in FramesOf(names)
  BY <1>1 DEF Top, Last
<1> DEFINE e == [[Top EXCEPT !.at = p] EXCEPT !.n = m]
           S == FramesOf(names)
<1>3. e \in S /\ e.at = p /\ e.n = m /\ e.file = Top.file
  BY <1>2 DEF FramesOf
<1>4. new = [stack EXCEPT ![Len(stack)] = e]
  BY <1>1, <1>2 DEF Moved
<1>5. stack \in Seq(S)
  BY <1>1
<1> HIDE DEF e, S
<1>6. /\ new \in Seq(S) /\ Len(new) = Len(stack)
      /\ new[Len(stack)] = e /\ \A k \in 1 .. Len(stack) - 1 : new[k] = stack[k]
  <2>1. e \in S
    BY <1>3
  <2> QED
    BY <1>2, <1>4, <1>5, <2>1
<1> QED
  BY <1>3, <1>6

LEMMA TopCalls ==
  ASSUME LoadInv, stack # <<>>, NEW p \in Stages, NEW m \in Numbers, NEW g, CallFor(g, p, m)
  PROVE  /\ Len(stack') = Len(stack) + 1 /\ stack'[Len(stack) + 1] = Frame(g)
         /\ stack'[Len(stack)].at = p /\ stack'[Len(stack)].n = m /\ stack'[Len(stack)].file = Top.file
         /\ \A k \in 1 .. Len(stack) - 1 : stack'[k] = stack[k]
<1>1. PICK mid : Moved(mid, p, m)
  BY DEF Moved
<1>2. /\ \E S : mid \in Seq(S)
      /\ Len(mid) = Len(stack)
      /\ mid[Len(stack)].at = p /\ mid[Len(stack)].n = m /\ mid[Len(stack)].file = Top.file
      /\ \A k \in 1 .. Len(stack) - 1 : mid[k] = stack[k]
  BY <1>1, TopBecomes
<1>3. stack' = Append(mid, Frame(g)) /\ Len(stack) \in Nat \ {0}
  BY <1>1, StackFacts DEF CallFor, Moved
<1> QED
  BY <1>2, <1>3

\* What LoadInv says of a call that goes on.
LEMMA Working ==
  ASSUME LoadInv, stack # <<>>, result = "loading"
  PROVE  /\ Len(stack) \in Nat \ {0} /\ Len(stack) <= max_recursion_depth + 1
         /\ Top = stack[Len(stack)] /\ loaded \in Seq(Files)
         /\ Top.at # "enter" => Top.file \in Files
         /\ Top.at = "enter" => depth + 1 = Len(stack)
         /\ Level(Len(stack)) \in Nat /\ Level(Len(stack)) <= max_recursion_depth
         /\ Level(Len(stack)) - 1 \in Int
         /\ Level(Len(stack)) = 0 <=> Len(stack) > max_recursion_depth
<1>1. Len(stack) \in Nat \ {0} /\ Len(stack) <= max_recursion_depth + 1 /\ depth \in Nat
      /\ Top = stack[Len(stack)] /\ loaded \in Seq(Files)
  BY StackFacts DEF LoadInv, StackInv
<1>2. Top.at = "enter" => depth = Len(stack) - 1
  BY DEF LoadInv
<1> QED
  BY <1>1, <1>2, StackFacts, LibsThere DEF Level

\* A load that goes well so far; one that has failed.
WellSoFar == Loads(Loadable, allowed_version, stack, file, loaded)
GoneWrong == Failed(Loadable, allowed_version, stack, file)

Whole ==
  /\ (result = "loaded") = (file \in Files /\ Loadable[max_recursion_depth][file])
  /\ result = "loaded" => loaded = Programs[max_recursion_depth][file]

WholeInv ==
  want.target =>
    /\ stack = <<>> => Whole
    /\ stack # <<>> /\ result = "loading" => WellSoFar
    /\ stack # <<>> /\ result = "failing" => GoneWrong

LEMMA SameVerdict == ASSUME UNCHANGED allowed_version PROVE Loadable' = Loadable
<1>1. Loadable' = Loadable
  BY SMT DEF Loadable, Sound, Accepts
<1> QED
  BY <1>1

\* The innermost call cannot go on.
LEMMA CannotGoOn ==
  ASSUME WholeInv, want.target, LoadInv, stack # <<>>, result = "loading",
         UNCHANGED <<allowed_version, want, stack, file>>, result' = "failing",
         ~Good(Loadable, Top.file, Level(Len(stack)))
  PROVE  WholeInv'
<1>1. Around(Loadable, allowed_version, stack, file) /\ Top = stack[Len(stack)]
  BY StackFacts DEF WholeInv, WellSoFar, Loads
<1>2. Failed(Loadable', allowed_version', stack', file')
  BY <1>1, SameVerdict DEF Failed
<1> QED
  BY <1>2 DEF WholeInv, GoneWrong

\* It goes on.
LEMMA GoesOn ==
  ASSUME WholeInv, want.target, LoadInv, stack # <<>>, result = "loading",
         UNCHANGED <<allowed_version, want, file, result>>,
         Len(stack') = Len(stack), \A k \in 1 .. Len(stack) - 1 : stack'[k] = stack[k],
         stack'[Len(stack)].file = Top.file,
         Works(Loadable, allowed_version, stack'[Len(stack)], Level(Len(stack))),
         \A b \in Seq(Files) : loaded = b \o WorkGave(Top, Level(Len(stack)))
                               => loaded' = b \o WorkGave(stack'[Len(stack)], Level(Len(stack)))
  PROVE  WholeInv'
<1>1. Loads(Loadable, allowed_version, stack, file, loaded) /\ Top = stack[Len(stack)]
      /\ Len(stack) \in Nat \ {0}
  BY StackFacts DEF WholeInv, WellSoFar
<1>2. Loads(Loadable, allowed_version, stack', file, loaded')
  <2> SUFFICES ASSUME NEW t, t = stack', NEW more, more = loaded'
               PROVE  Loads(Loadable, allowed_version, t, file, more)
    OBVIOUS
  <2> QED
    BY <1>1, WorkGoesOn
<1>3. Loads(Loadable', allowed_version', stack', file', loaded') /\ stack' # <<>>
  BY <1>1, <1>2, SameVerdict
<1> QED
  BY <1>3 DEF WholeInv, WellSoFar

\* It calls the function for a library.
LEMMA GoesDeeper ==
  ASSUME WholeInv, want.target, LoadInv, stack # <<>>, result = "loading",
         UNCHANGED <<allowed_version, want, file, result, loaded>>,
         NEW p \in Stages, NEW m \in Numbers, NEW g, CallFor(g, p, m),
         Waits(Loadable, allowed_version, stack'[Len(stack)], Level(Len(stack)), g),
         WaitGave(stack'[Len(stack)], Level(Len(stack))) = WorkGave(Top, Level(Len(stack)))
  PROVE  WholeInv'
<1>1. Loads(Loadable, allowed_version, stack, file, loaded) /\ Top = stack[Len(stack)]
      /\ Len(stack) \in Nat \ {0} /\ loaded \in Seq(Files)
  BY StackFacts DEF WholeInv, WellSoFar, LoadInv
<1>2. /\ Len(stack') = Len(stack) + 1 /\ stack'[Len(stack) + 1] = Frame(g)
      /\ stack'[Len(stack)].file = Top.file
      /\ \A k \in 1 .. Len(stack) - 1 : stack'[k] = stack[k]
  BY TopCalls
<1>3. Loads(Loadable, allowed_version, stack', file, loaded)
  <2> SUFFICES ASSUME NEW t, t = stack' PROVE Loads(Loadable, allowed_version, t, file, loaded)
    OBVIOUS
  <2> QED
    BY <1>1, <1>2, WorkCalls
<1>4. Loads(Loadable', allowed_version', stack', file', loaded') /\ stack' # <<>>
  BY <1>1, <1>2, <1>3, SameVerdict
<1> QED
  BY <1>4 DEF WholeInv, WellSoFar

\* The innermost call goes on to p.
LEMMA TopMoves ==
  ASSUME LoadInv, stack # <<>>, Top.file \in Files, NEW p \in Stages \ {"enter"},
         \/ stack' = [stack EXCEPT ![Len(stack)].at = p]
         \/ \E m \in Numbers : stack' = [stack EXCEPT ![Len(stack)].at = p, ![Len(stack)].n = m]
  PROVE  /\ Len(stack') = Len(stack) /\ stack'[Len(stack)].at = p /\ stack'[Len(stack)].file = Top.file
         /\ \A k \in 1 .. Len(stack) - 1 : stack'[k] = stack[k]
<1>1. StackInv /\ 0 \in Numbers
  BY LibsThere DEF LoadInv, Numbers
<1>2. PICK m \in Numbers : \/ stack' = [stack EXCEPT ![Len(stack)].at = p, ![Len(stack)].n = m]
                           \/ stack' = [stack EXCEPT ![Len(stack)].at = p]
  BY <1>1
<1> SUFFICES ASSUME NEW t, t = stack'
             PROVE  /\ Len(t) = Len(stack) /\ t[Len(stack)].at = p /\ t[Len(stack)].file = Top.file
                    /\ \A k \in 1 .. Len(stack) - 1 : t[k] = stack[k]
  OBVIOUS
<1>3. \/ t = [stack EXCEPT ![Len(stack)].at = p, ![Len(stack)].n = m]
      \/ t = [stack EXCEPT ![Len(stack)].at = p]
  BY <1>2
<1> QED
  BY <1>1, <1>3, TopChanges

LEMMA EntersWhole ==
  ASSUME LoadInv, WholeInv, want.target, UNCHANGED file, Enter
  PROVE  WholeInv'
<1> DEFINE n == Len(stack)
           l == Level(n)
           f == Top.file
<1>1. result = "loading" /\ stack # <<>> /\ Top.at = "enter" /\ depth' = depth + 1
      /\ UNCHANGED <<allowed_version, want>>
  BY DEF Enter
<1>2. /\ n \in Nat \ {0} /\ depth' = n /\ l \in Nat /\ l <= max_recursion_depth
      /\ (l = 0 <=> depth' > max_recursion_depth) /\ (l # 0 => l \in Levels)
  BY <1>1, Working, LibsThere DEF Levels
<1>3. IsVerdict(Loadable, allowed_version)
  BY Verdicts
<1>4. CASE depth' > max_recursion_depth \/ f \notin Files \/ ~Sound(f)
  <2>1. ~Good(Loadable, f, l)
    <3>1. CASE f \notin Files
      BY <3>1 DEF Good
    <3>2. CASE f \in Files /\ l = 0
      BY <1>3, <3>2 DEF Good, IsVerdict
    <3>3. CASE f \in Files /\ l # 0
      <4>1. ~Fits(allowed_version, f) /\ l \in Levels
        BY <1>2, <1>4, <3>3 DEF Sound, Fits
      <4> QED
        BY <1>3, <3>3, <4>1 DEF Good, IsVerdict
    <3> QED
      BY <3>1, <3>2, <3>3
  <2>2. result' = "failing" /\ UNCHANGED stack
    BY <1>4 DEF Enter, Fails
  <2> QED
    BY <1>1, <2>1, <2>2, CannotGoOn
<1>5. CASE ~(depth' > max_recursion_depth) /\ f \in Files /\ Sound(f)
  <2>1. result' = result /\ loaded' = loaded /\ stack' = [stack EXCEPT ![Len(stack)].at = "tags"]
    BY <1>5 DEF Enter
  <2>2. /\ Len(stack') = Len(stack) /\ stack'[n].at = "tags" /\ stack'[n].file = f
        /\ \A k \in 1 .. Len(stack) - 1 : stack'[k] = stack[k]
    <3>1. "tags" \in Stages \ {"enter"}
      BY DEF Stages
    <3> QED
      BY <1>1, <1>5, <2>1, <3>1, TopMoves
  <2> DEFINE call == stack'[n]
  <2>3. Works(Loadable, allowed_version, call, l) /\ WorkGave(call, l) = <<>> /\ WorkGave(Top, l) = <<>>
    <3>1. call.at = "tags" /\ call.file = f
      BY <2>2
    <3>2. Fits(allowed_version, f) /\ l \in Levels
      BY <1>2, <1>5 DEF Sound, Fits
    <3> HIDE DEF call, l
    <3> QED
      BY <1>1, <1>5, <3>1, <3>2 DEF Works, Entered, WorkGave
  <2>4. \A b \in Seq(Files) : loaded = b \o WorkGave(Top, l) => loaded' = b \o WorkGave(call, l)
    BY <2>1, <2>3
  <2> QED
    BY <1>1, <2>1, <2>2, <2>3, <2>4, GoesOn
<1> QED
  BY <1>4, <1>5

\* Past its first check, a call has what Works says.
LEMMA WorkingWhole ==
  ASSUME LoadInv, WholeInv, want.target, stack # <<>>, result = "loading", Top.at # "enter"
  PROVE  /\ Works(Loadable, allowed_version, Top, Level(Len(stack)))
         /\ Top.file \in Files /\ Level(Len(stack)) \in Levels /\ Fits(allowed_version, Top.file)
         /\ Programs[Level(Len(stack)) - 1] \in [Files -> Seq(Files)]
         /\ 0 \in Numbers /\ 1 \in Numbers /\ 2 \in Numbers
<1>1. Works(Loadable, allowed_version, Top, Level(Len(stack))) /\ Entered(allowed_version, Top, Level(Len(stack)))
  <2>1. Loads(Loadable, allowed_version, stack, file, loaded) /\ Top = stack[Len(stack)]
    BY StackFacts DEF WholeInv, WellSoFar
  <2> QED
    BY <2>1 DEF Loads, Works
<1>2. Level(Len(stack)) - 1 \in 0 .. max_recursion_depth /\ Level(Len(stack)) \in Levels
  BY <1>1, LibsThere DEF Entered, Levels
<1>3. 0 \in Numbers /\ 1 \in Numbers /\ 2 \in Numbers
  BY LibsThere DEF Numbers
<1> QED
  BY <1>1, <1>2, <1>3, ProgramsAre DEF Entered

LEMMA TagsWhole ==
  ASSUME LoadInv, WholeInv, want.target, UNCHANGED file, Tags
  PROVE  WholeInv'
<1> DEFINE n == Len(stack)
           l == Level(n)
           call == stack'[n]
<1>1. result = "loading" /\ stack # <<>> /\ Top.at = "tags"
      /\ stack' = [stack EXCEPT ![Len(stack)].at = "lib"]
      /\ UNCHANGED <<allowed_version, want, loaded, result>>
  BY DEF Tags
<1>2. Top.file \in Files /\ l \in Levels /\ Fits(allowed_version, Top.file)
  BY <1>1, WorkingWhole
<1>3. /\ Len(stack') = Len(stack) /\ call.at = "lib" /\ call.file = Top.file
      /\ \A k \in 1 .. Len(stack) - 1 : stack'[k] = stack[k]
  <2>1. "lib" \in Stages \ {"enter"}
    BY DEF Stages
  <2> QED
    BY <1>1, <1>2, <2>1, TopMoves
<1>4. Works(Loadable, allowed_version, call, l) /\ WorkGave(call, l) = <<>> /\ WorkGave(Top, l) = <<>>
  <2>1. call.at = "lib" /\ call.file = Top.file
    BY <1>3
  <2> HIDE DEF call, l
  <2> QED
    BY <1>1, <1>2, <2>1 DEF Works, Entered, WorkGave
<1>5. \A b \in Seq(Files) : loaded = b \o WorkGave(Top, l) => loaded' = b \o WorkGave(call, l)
  BY <1>1, <1>4
<1> QED
  BY <1>1, <1>3, <1>4, <1>5, GoesOn

LEMMA BaseLibWhole ==
  ASSUME LoadInv, WholeInv, want.target, UNCHANGED file, BaseLib
  PROVE  WholeInv'
<1> DEFINE n == Len(stack)
           l == Level(n)
           f == Top.file
           call == stack'[n]
<1>1. result = "loading" /\ stack # <<>> /\ Top.at = "lib"
      /\ UNCHANGED <<allowed_version, want, loaded, result>>
  BY DEF BaseLib
<1>2. f \in Files /\ l \in Levels /\ Fits(allowed_version, f) /\ 1 \in Numbers
  BY <1>1, WorkingWhole
<1>3. CASE HasLib(f, 1)
  <2> DEFINE g == Lib(f, 1)
  <2>1. CallFor(g, "target", 1) /\ "target" \in Stages
    BY <1>3 DEF BaseLib, Stages
  <2>2. call.at = "target" /\ call.file = f
    BY <1>1, <1>2, <2>1, TopCalls
  <2>3. Waits(Loadable, allowed_version, call, l, g) /\ WaitGave(call, l) = WorkGave(Top, l)
    <3> HIDE DEF call, l
    <3> QED
      BY <1>1, <1>2, <1>3, <2>2 DEF Waits, Entered, WaitGave, WorkGave
  <2> HIDE DEF g
  <2> QED
    BY <1>1, <1>2, <2>1, <2>3, GoesDeeper
<1>4. CASE ~HasLib(f, 1)
  <2>1. stack' = [stack EXCEPT ![Len(stack)].at = "target", ![Len(stack)].n = 1] /\ "target" \in Stages \ {"enter"}
    BY <1>4 DEF BaseLib, Stages
  <2>2. /\ Len(stack') = Len(stack) /\ call.at = "target" /\ call.file = f
        /\ \A k \in 1 .. Len(stack) - 1 : stack'[k] = stack[k]
    BY <1>1, <1>2, <2>1, TopMoves
  <2>3. Works(Loadable, allowed_version, call, l) /\ WorkGave(call, l) = <<>> /\ WorkGave(Top, l) = <<>>
    <3>1. call.at = "target" /\ call.file = f
      BY <2>2
    <3> HIDE DEF call, l
    <3> QED
      BY <1>1, <1>2, <1>4, <3>1 DEF Works, Entered, WorkGave, LibGives
  <2>4. \A b \in Seq(Files) : loaded = b \o WorkGave(Top, l) => loaded' = b \o WorkGave(call, l)
    BY <1>1, <2>3
  <2> QED
    BY <1>1, <2>2, <2>3, <2>4, GoesOn
<1> QED
  BY <1>3, <1>4

LEMMA TargetWhole ==
  ASSUME LoadInv, WholeInv, want.target, UNCHANGED file,
         LoadTarget(Accepts(allowed_version, Top.file)) \/ BadBody
  PROVE  WholeInv'
<1> DEFINE n == Len(stack)
           l == Level(n)
           f == Top.file
           call == stack'[n]
           P == Programs[l - 1]
<1>1. result = "loading" /\ stack # <<>> /\ Top.at = "target" /\ UNCHANGED <<allowed_version, want>>
  BY DEF LoadTarget, AtTarget, BadBody
<1>2. /\ f \in Files /\ l \in Levels /\ Fits(allowed_version, f) /\ 2 \in Numbers
      /\ P \in [Files -> Seq(Files)] /\ Works(Loadable, allowed_version, Top, l)
  BY <1>1, WorkingWhole
<1>3. CASE ~(Contents[f].body /\ Accepts(allowed_version, f))
  <2>1. result' = "failing" /\ UNCHANGED stack
    BY <1>3 DEF LoadTarget, AtTarget, BadBody, Fails
  <2>2. ~Good(Loadable, f, l)
    BY <1>2, <1>3, Verdicts DEF IsVerdict, Good
  <2> QED
    BY <1>1, <2>1, <2>2, CannotGoOn
<1>4. CASE Contents[f].body /\ Accepts(allowed_version, f)
  <2>1. /\ result' = result /\ loaded' = Append(loaded, f) /\ "next" \in Stages
        /\ Moved(stack', "next", 2)
    BY <1>4 DEF LoadTarget, BadBody, Stages, Moved
  <2>2. /\ Len(stack') = Len(stack) /\ call.at = "next" /\ call.n = 2 /\ call.file = f
        /\ \A k \in 1 .. Len(stack) - 1 : stack'[k] = stack[k]
    BY <1>1, <1>2, <2>1, TopBecomes
  <2>3. Works(Loadable, allowed_version, call, l) /\ WorkGave(call, l) = Gave(P, f, 1)
        /\ WorkGave(Top, l) = LibGives(P, f, 1)
    <3>1. call.at = "next" /\ call.file = f /\ call.n = 2 /\ 2 \in 2 .. Len(LibNames) + 1
      BY <2>2, LibsThere
    <3>2. Served(Loadable, allowed_version, f, l - 1, 1)
      BY <1>1, <1>2, <1>4 DEF Served, Works
    <3> HIDE DEF call, l
    <3> QED
      BY <1>1, <1>2, <3>1, <3>2 DEF Works, Entered, WorkGave
  <2>4. ASSUME NEW b \in Seq(Files), loaded = b \o LibGives(P, f, 1)
        PROVE  loaded' = b \o Gave(P, f, 1)
    <3> DEFINE x == LibGives(P, f, 1)
    <3> HIDE DEF P, f
    <3>1. Gave(P, f, 1) = x \o <<f>> /\ x \in Seq(Files)
      BY <1>2, GaveFirst, GaveType
    <3> HIDE DEF x
    <3>2. loaded' = Append(b \o x, f)
      BY <2>1, <2>4 DEF x
    <3>3. Append(b \o x, f) = b \o (x \o <<f>>)
      <4>1. b \o x \in Seq(Files) /\ f \in Files
        BY <1>2, <3>1, ConcatProperties
      <4>2. ASSUME NEW y \in Seq(Files), NEW e \in Files PROVE Append(y, e) = y \o <<e>>
        OBVIOUS
      <4>3. ASSUME NEW y \in Seq(Files), NEW z \in Seq(Files), NEW w \in Seq(Files)
            PROVE  (y \o z) \o w = y \o (z \o w)
        BY ConcatAssociative
      <4>4. <<f>> \in Seq(Files) /\ Append(b \o x, f) = (b \o x) \o <<f>>
        BY <4>1, <4>2
      <4> QED
        BY <3>1, <4>3, <4>4
    <3> QED
      BY <3>1, <3>2, <3>3
  <2>5. \A b \in Seq(Files) : loaded = b \o WorkGave(Top, l) => loaded' = b \o WorkGave(call, l)
    <3> HIDE DEF P, f, l, call
    <3> QED
      BY <2>3, <2>4
  <2> QED
    BY <1>1, <2>1, <2>2, <2>3, <2>5, GoesOn
<1> QED
  BY <1>3, <1>4

LEMMA NextLibWhole ==
  ASSUME LoadInv, WholeInv, want.target, UNCHANGED file, NextLib
  PROVE  WholeInv'
<1> DEFINE n == Len(stack)
           l == Level(n)
           f == Top.file
           c == Top.n - 1
           call == stack'[n]
           P == Programs[l - 1]
<1>1. result = "loading" /\ stack # <<>> /\ Top.at = "next"
      /\ UNCHANGED <<allowed_version, want, loaded, result>>
  BY DEF NextLib
<1>2. /\ f \in Files /\ l \in Levels /\ Fits(allowed_version, f)
      /\ P \in [Files -> Seq(Files)] /\ Works(Loadable, allowed_version, Top, l)
  BY <1>1, WorkingWhole
<1>3. /\ c \in 1 .. Len(LibNames) /\ Top.n = c + 1 /\ Served(Loadable, allowed_version, f, l - 1, c)
      /\ WorkGave(Top, l) = Gave(P, f, c)
  <2>1. Top.n \in 2 .. Len(LibNames) + 1 /\ Served(Loadable, allowed_version, f, l - 1, c)
        /\ WorkGave(Top, l) = Gave(P, f, c)
    BY <1>1, <1>2 DEF Works, WorkGave
  <2> QED
    BY <2>1, LibsThere
<1>4. CASE HasLib(f, c + 1)
  <2> DEFINE g == Lib(f, c + 1)
  <2>1. CallFor(g, "next", c + 2) /\ "next" \in Stages
    <3>1. CallFor(Lib(f, Top.n), "next", Top.n + 1) /\ Top.n + 1 = c + 2
      BY <1>3, <1>4 DEF NextLib
    <3> QED
      BY <1>3, <3>1 DEF Stages
  <2>2. c + 1 <= Len(LibNames) /\ c + 2 \in Numbers /\ c + 2 \in 3 .. Len(LibNames) + 1
        /\ (c + 2) - 2 = c /\ (c + 2) - 1 = c + 1
    <3>1. c + 1 <= Len(LibNames)
      BY <1>4 DEF HasLib
    <3> QED
      BY <1>3, <3>1, LibsThere DEF Numbers
  <2>3. call.at = "next" /\ call.file = f /\ call.n = c + 2
    BY <1>1, <2>1, <2>2, TopCalls
  <2>4. Waits(Loadable, allowed_version, call, l, g) /\ WaitGave(call, l) = WorkGave(Top, l)
    <3> HIDE DEF call, l, c
    <3> QED
      BY <1>2, <1>3, <1>4, <2>2, <2>3 DEF Waits, Entered, WaitGave
  <2> HIDE DEF g
  <2> QED
    BY <1>1, <2>1, <2>2, <2>4, GoesDeeper
<1>5. CASE ~HasLib(f, c + 1)
  <2>1. stack' = [stack EXCEPT ![Len(stack)].at = "done"] /\ "done" \in Stages \ {"enter"}
    BY <1>3, <1>5 DEF NextLib, Stages
  <2>2. /\ Len(stack') = Len(stack) /\ call.at = "done" /\ call.file = f
        /\ \A k \in 1 .. Len(stack) - 1 : stack'[k] = stack[k]
    BY <1>1, <1>2, <2>1, TopMoves
  <2>3. ASSUME NEW m \in {1} \cup NumberedLibs(f), HasLib(f, m) PROVE Good(Loadable, Lib(f, m), l - 1)
    <3>1. CASE m = 1
      BY <1>3, <2>3, <3>1 DEF Served
    <3>2. CASE m \in NumberedLibs(f)
      <4>1. m \in 2 .. Len(LibNames) /\ \A j \in 2 .. m : HasLib(f, j)
        BY <3>2 DEF NumberedLibs
      <4>2. c + 1 \notin 2 .. m
        BY <1>5, <4>1
      <4>3. m \in 2 .. c
        <5> HIDE DEF c
        <5> QED
          BY <1>3, <4>1, <4>2
      <4> QED
        BY <1>3, <4>3 DEF Served
    <3> QED
      BY <2>3, <3>1, <3>2
  <2>4. Loadable[l][f]
    BY <1>2, <1>3, <2>3, Verdicts DEF IsVerdict, Served
  <2>5. Programs[l][f] = Gave(P, f, c)
    <3>1. Programs[l][f] = Gave(P, f, Len(LibNames))
      BY <1>2, ProgramsAre
    <3> HIDE DEF P, c, f, l
    <3> QED
      BY <1>2, <1>3, <1>5, <3>1, GaveAll
  <2>6. Works(Loadable, allowed_version, call, l) /\ WorkGave(call, l) = WorkGave(Top, l)
    <3>1. call.at = "done" /\ call.file = f
      BY <2>2
    <3> HIDE DEF call, l, c
    <3>2. WorkGave(call, l) = Programs[l][f]
      BY <3>1 DEF WorkGave
    <3> QED
      BY <1>2, <1>3, <2>4, <2>5, <3>1, <3>2 DEF Works, Entered
  <2>7. \A b \in Seq(Files) : loaded = b \o WorkGave(Top, l) => loaded' = b \o WorkGave(call, l)
    BY <1>1, <2>6
  <2> QED
    BY <1>1, <2>2, <2>6, <2>7, GoesOn
<1> QED
  BY <1>4, <1>5

LEMMA ReturnsWhole ==
  ASSUME LoadInv, WholeInv, want.target, UNCHANGED file, Returns
  PROVE  WholeInv'
<1> DEFINE n == Len(stack)
<1>1. /\ stack # <<>> /\ stack' = Front(stack) /\ UNCHANGED <<allowed_version, want, loaded>>
      /\ (result = "loading" /\ Top.at = "done") \/ result = "failing"
      /\ result' = IF n > 1 THEN result ELSE IF result = "loading" THEN "loaded" ELSE "failed"
  BY DEF Returns
<1>2. n \in Nat \ {0} /\ n <= max_recursion_depth + 1 /\ Top = stack[n]
  BY <1>1, StackFacts DEF LoadInv, StackInv
<1>3. Len(stack') = n - 1 /\ \A k \in 1 .. n - 1 : stack'[k] = stack[k]
  <2>1. PICK names : stack \in Seq(FramesOf(names))
    BY DEF LoadInv, StackInv
  <2> DEFINE S == FramesOf(names)
  <2>2. stack \in Seq(S) /\ stack # <<>>
    BY <1>1, <2>1
  <2> HIDE DEF S
  <2>3. Len(Front(stack)) = n - 1
    BY <2>2, FrontLast
  <2>4. \A k \in 1 .. n - 1 : Front(stack)[k] = stack[k]
    BY <1>2, <2>2 DEF Front
  <2> QED
    BY <1>1, <2>3, <2>4
<1>4. Loadable' = Loadable /\ IsVerdict(Loadable, allowed_version)
  BY <1>1, SameVerdict, Verdicts
<1> HIDE DEF n
<1>5. CASE n > 1
  <2>1. stack' # <<>> /\ result' = result
    BY <1>1, <1>2, <1>3, <1>5
  <2>2. result = "loading" => Loads(Loadable, allowed_version, stack', file, loaded)
    <3> SUFFICES ASSUME result = "loading", NEW t, t = stack'
                 PROVE  Loads(Loadable, allowed_version, t, file, loaded)
      OBVIOUS
    <3>1. Loads(Loadable, allowed_version, stack, file, loaded) /\ stack[n].at = "done"
      BY <1>1, <1>2 DEF WholeInv, WellSoFar
    <3> QED
      BY <1>2, <1>3, <1>5, <3>1, WorkReturns DEF n
  <2>3. result = "failing" => Failed(Loadable, allowed_version, stack', file)
    <3> SUFFICES ASSUME result = "failing", NEW t, t = stack'
                 PROVE  Failed(Loadable, allowed_version, t, file)
      OBVIOUS
    <3>1. Failed(Loadable, allowed_version, stack, file)
      BY <1>1 DEF WholeInv, GoneWrong
    <3> QED
      BY <1>2, <1>3, <1>4, <1>5, <3>1, FailureReturns DEF n
  <2> QED
    BY <1>1, <1>4, <2>1, <2>2, <2>3 DEF WholeInv, WellSoFar, GoneWrong
<1>6. CASE n = 1
  <2>1. stack' = <<>> /\ Level(n) = max_recursion_depth
    <3>1. PICK names : stack \in Seq(FramesOf(names))
      BY DEF LoadInv, StackInv
    <3> DEFINE S == FramesOf(names)
    <3>2. stack \in Seq(S) /\ stack # <<>>
      BY <1>1, <3>1
    <3> HIDE DEF S
    <3>3. stack' \in Seq(S) /\ Len(stack') = 0
      BY <1>1, <1>3, <1>6, <3>2, FrontLast
    <3> QED
      BY <1>6, <3>3, LibsThere DEF Level
  <2>2. CASE result = "loading"
    <3>1. Loads(Loadable, allowed_version, stack, file, loaded) /\ stack[n].at = "done" /\ n = Len(stack)
      BY <1>1, <1>2, <2>2 DEF WholeInv, WellSoFar, n
    <3>2. stack[1].file = file /\ Works(Loadable, allowed_version, stack[n], Level(n))
          /\ \E base : Bases(stack, base) /\ loaded = base[n] \o WorkGave(stack[n], Level(n))
      BY <3>1 DEF Loads, Around
    <3>3. stack[n].file = file /\ file \in Files /\ Loadable[max_recursion_depth][file]
      BY <1>6, <2>1, <3>1, <3>2 DEF Works, Entered
    <3>4. WorkGave(stack[n], Level(n)) = Programs[max_recursion_depth][file]
      <4>1. stack[n].at = "done"
        BY <3>1
      <4> QED
        BY <2>1, <3>3, <4>1 DEF WorkGave
    <3>5. PICK base : base[1] = <<>> /\ loaded = base[n] \o WorkGave(stack[n], Level(n))
      BY <3>2 DEF Bases
    <3>6. Programs[max_recursion_depth][file] \in Seq(Files)
      <4>1. max_recursion_depth \in 0 .. max_recursion_depth
        BY LibsThere
      <4> QED
        BY <3>3, <4>1, ProgramsAre
    <3>7. loaded = Programs[max_recursion_depth][file]
      BY <1>6, <3>4, <3>5, <3>6, ConcatEmptySeq
    <3>8. result' = "loaded" /\ loaded' = loaded
      BY <1>1, <1>6, <2>2
    <3> QED
      BY <1>1, <1>4, <2>1, <3>3, <3>7, <3>8 DEF WholeInv, Whole
  <2>3. CASE result = "failing"
    <3>1. Failed(Loadable, allowed_version, stack, file) /\ n = Len(stack)
      BY <1>1, <2>3 DEF WholeInv, GoneWrong, n
    <3>2. ~Good(Loadable, file, max_recursion_depth)
      BY <1>6, <2>1, <3>1 DEF Failed, Around
    <3>3. result' = "failed"
      BY <1>1, <1>6, <2>3
    <3> QED
      BY <1>1, <1>4, <2>1, <3>2, <3>3 DEF WholeInv, Whole, Good
  <2> QED
    BY <1>1, <2>2, <2>3
<1>7. n = 1 \/ n > 1
  BY <1>2
<1> QED
  BY <1>5, <1>6, <1>7

LEMMA BeginsWhole ==
  ASSUME NEW version, NEW callbacks, psf_load(file', version, callbacks)
  PROVE  WholeInv'
<1>1. stack' = <<Frame(file')>> /\ loaded' = <<>> /\ result' = "loading"
  BY DEF psf_load
<1> SUFFICES ASSUME NEW t, t = stack', NEW song, song = file', NEW good, NEW v
             PROVE  Loads(good, v, t, song, <<>>) /\ t # <<>>
  BY <1>1 DEF WholeInv, WellSoFar
<1>2. t = <<Frame(song)>> /\ Frame(song).file = song /\ Frame(song).at = "enter"
  BY <1>1 DEF Frame
<1>3. Len(t) = 1 /\ t[1].file = song /\ t[1].at = "enter" /\ t # <<>>
  BY <1>2
<1>4. Around(good, v, t, song)
  BY <1>3 DEF Around
<1>5. Works(good, v, t[1], Level(1)) /\ WorkGave(t[1], Level(1)) = <<>>
  BY <1>3 DEF Works, WorkGave
<1> DEFINE base == [k \in 1 .. 1 |-> <<>>]
<1>6. Bases(t, base) /\ base[1] = <<>>
  <2>1. base \in [1 .. 1 -> Seq(Files)] /\ base[1] = <<>>
    OBVIOUS
  <2> QED
    BY <1>3, <2>1 DEF Bases
<1> HIDE DEF base
<1>7. <<>> = base[1] \o WorkGave(t[1], Level(1))
  BY <1>5, <1>6
<1> QED
  BY <1>3, <1>4, <1>5, <1>6, <1>7 DEF Loads

LEMMA LoadsStepWhole ==
  ASSUME LoadInv, WholeInv, psf_load_steps
  PROVE  WholeInv'
<1>1. UNCHANGED <<file, want>>
  BY DEF psf_load_steps, psf1Loader, psf2fs_load_callback, LoadStep, LoadTarget, Enter, Tags,
         BaseLib, BadBody, NextLib, Returns
<1>2. CASE ~want.target
  BY <1>1, <1>2 DEF WholeInv
<1>3. CASE want.target
  <2>1. \/ Enter \/ Tags \/ BaseLib \/ BadBody \/ NextLib \/ Returns
        \/ LoadTarget(Accepts(allowed_version, Top.file))
    BY DEF psf_load_steps, psf1Loader, psf2fs_load_callback, LoadStep
  <2> QED
    BY <1>1, <1>3, <2>1, EntersWhole, TagsWhole, BaseLibWhole, TargetWhole, NextLibWhole, ReturnsWhole
<1> QED
  BY <1>2, <1>3

LEMMA WholeAlways == Spec => []WholeInv
<1>1. Init => WholeInv
  BY DEF Init, NotLoading, WholeInv
<1>2. LoadInv /\ WholeInv /\ [Next]_vars => WholeInv'
  <2> SUFFICES ASSUME LoadInv, WholeInv, [Next]_vars PROVE WholeInv'
    OBVIOUS
  <2>1. CASE UNCHANGED <<psfvars, file>>
    <3>1. UNCHANGED <<allowed_version, want, stack, loaded, result, file>> /\ Loadable' = Loadable
      BY <2>1, SameVerdict DEF psfvars
    <3>2. UNCHANGED <<Whole, WellSoFar, GoneWrong>>
      BY <3>1 DEF Whole, WellSoFar, GoneWrong
    <3> QED
      BY <3>1, <3>2 DEF WholeInv
  <2>2. CASE psf_load_steps
    BY <2>2, LoadsStepWhole
  <2>3. CASE \E version, callbacks : psf_load(file', version, callbacks)
    BY <2>3, BeginsWhole
  <2> QED
    BY <2>1, <2>2, <2>3 DEF Next, vars, Probed, Starts, openFile, setPosition, Load
<1> QED
  BY <1>1, <1>2, LoadAlways, PTL DEF Spec

\* What psf_load says of a song is right, however its libraries name each
\* other (psflib.c:381-564), and what it gives is in the order of
\* psflib.h:50-60.
THEOREM LoadsAll == Spec => []LoadsWhole
<1>1. WholeInv => LoadsWhole
  BY DEF WholeInv, Whole, LoadsWhole
<1> QED
  BY <1>1, WholeAlways, PTL

-----------------------------------------------------------------------------
(* What a song of version 2 finds in its file system.                       *)

Brought == fs.sources = loaded /\ ~fs.freed

FreshInv ==
  /\ Idle => stack = <<>>
  /\ busy \in {"idle", "probing", "opening", "seeking"}
  /\ busy \in {"opening", "seeking"} /\ psf_version = 2 =>
       /\ allowed_version = 2 /\ want.target
       /\ result \in {"loading", "loaded"} => Brought
  /\ Idle /\ psf_version = 2 /\ result = "loaded" => want.target /\ Brought

LEMMA FreshStep == LoadInv /\ FSInv /\ FreshInv /\ [Next]_vars => FreshInv'
<1> SUFFICES ASSUME LoadInv, FSInv, FreshInv, [Next]_vars PROVE FreshInv'
  OBVIOUS
<1>1. CASE UNCHANGED vars
  BY <1>1 DEF vars, psfvars, FreshInv, Idle, Brought
<1>2. CASE Starts
  BY <1>2 DEF Starts, psfvars, FreshInv, Idle, Brought
<1>3. ASSUME NEW version, NEW callbacks, Load(version, callbacks), callbacks.target,
             busy' \in {"opening", "seeking"}, psf_version' = 2 => version = 2
      PROVE  FreshInv'
  <2>1. /\ allowed_version' = version /\ want' = callbacks /\ loaded' = <<>> /\ result' = "loading"
        /\ version = 2 => fs' = EmptyFS
    BY <1>3 DEF Load, psf_load, psf2fs_create
  <2>2. version = 2 => fs'.sources = <<>> /\ fs'.freed = FALSE
    BY <2>1 DEF EmptyFS
  <2> QED
    BY <1>3, <2>1, <2>2 DEF FreshInv, Idle, Brought
<1>4. CASE Probed
  <2>1. CASE psf_version' \in {1, 2}
    <3>1. busy' = "opening" /\ Load(psf_version', AllCallbacks) /\ AllCallbacks.target
      BY <1>4, <2>1 DEF Probed, AllCallbacks
    <3> QED
      BY <1>3, <3>1
  <2>2. CASE psf_version' \notin {1, 2}
    <3>1. busy' = "idle" /\ stack' = stack /\ stack = <<>>
      BY <1>4, <2>2 DEF Probed, psfvars
    <3> QED
      BY <2>2, <3>1 DEF FreshInv, Idle
  <2> QED
    BY <2>1, <2>2
<1>5. CASE setPosition
  <2>1. /\ busy' = "seeking" /\ psf_version' = psf_version
        /\ IF psf_version = 1 THEN Load(1, NoTags) ELSE Load(2, AllCallbacks)
        /\ NoTags.target /\ AllCallbacks.target
    BY <1>5 DEF setPosition, NoTags, AllCallbacks
  <2> QED
    BY <1>3, <2>1
<1>6. ASSUME NEW f, openFile(f) PROVE FreshInv'
  BY <1>6 DEF openFile, FreshInv, Idle
<1>7. CASE psf_load_steps
  <2>1. UNCHANGED <<psf_version, busy>> /\ stack # <<>>
    BY <1>7 DEF psf_load_steps, psf1Loader, psf2fs_load_callback, AtTarget, LoadStep, Enter, Tags,
                BaseLib, BadBody, NextLib, Returns
  <2>2. ~Idle
    BY <2>1 DEF FreshInv
  <2>3. /\ UNCHANGED <<allowed_version, want>>
    BY <1>7 DEF psf_load_steps, psf1Loader, psf2fs_load_callback, LoadTarget, LoadStep, Enter, Tags,
                BaseLib, BadBody, NextLib, Returns
  <2>4. CASE LoadStep /\ UNCHANGED fs
    <3>1. UNCHANGED loaded /\ (result' \in {"loading", "loaded"} => result \in {"loading", "loaded"})
      BY <2>4 DEF LoadStep, Enter, Fails, Tags, BaseLib, BadBody, NextLib, Returns
    <3> QED
      BY <2>1, <2>2, <2>3, <2>4, <3>1 DEF FreshInv, Idle, Brought
  <2>5. CASE psf1Loader
    BY <2>1, <2>2, <2>3, <2>5 DEF psf1Loader, FreshInv, Idle
  <2>6. CASE psf2fs_load_callback
    <3>1. CASE Accepts(2, Top.file)
      <4>1. loaded' = Append(loaded, Top.file) /\ addarchive(Top.file) /\ result = "loading"
        BY <2>6, <3>1 DEF psf2fs_load_callback, LoadTarget, AtTarget
      <4>2. fs'.sources = Append(fs.sources, Top.file) /\ fs'.freed = fs.freed
        BY <4>1 DEF addarchive, FSInv
      <4> QED
        BY <2>1, <2>2, <2>3, <4>1, <4>2 DEF FreshInv, Idle, Brought
    <3>2. CASE ~Accepts(2, Top.file)
      <4>1. result' = "failing"
        BY <2>6, <3>2 DEF psf2fs_load_callback, LoadTarget, Fails
      <4> QED
        BY <2>1, <2>2, <2>3, <4>1 DEF FreshInv, Idle
    <3> QED
      BY <3>1, <3>2
  <2> QED
    BY <1>7, <2>4, <2>5, <2>6 DEF psf_load_steps
<1> QED
  BY <1>1, <1>2, <1>4, <1>5, <1>6, <1>7 DEF Next

\* A song of version 2 that was opened or rewound finds in its file system what
\* it and its libraries bring, all of it and nothing of the song before
\* (AOPSF.m:144-235): what psf_load has given it, which LoadsAll says is right.
THEOREM Fresh == Spec => []FreshFiles
<1>1. Init => FreshInv
  BY DEF Init, NotLoading, FreshInv, Idle
<1>2. FreshInv => (LoadsWhole => FreshFiles)
  BY DEF FreshInv, LoadsWhole, FreshFiles, Brought
<1> QED
  BY <1>1, <1>2, FreshStep, LoadAlways, FSAlways, LoadsAll, PTL DEF Spec

-----------------------------------------------------------------------------
(* The tags of a file.  The list is told from its tail, so the values of a  *)
(* name are those of the reversed list, one after the other.                *)

Lines == UNION {Range(Contents[f].lines) : f \in Files}
Names == {line.name : line \in Lines}
Pieces == UNION {Range(line.parts) : line \in Lines}
TagSet == [name : Names, value : Seq(Pieces)]

LEMMA LinesAre ==
  /\ \A f \in Files : Contents[f].lines \in Seq(Lines)
  /\ \A line \in Lines : line.name \in Names /\ line.parts \in Seq(Pieces) /\ line.parts # <<>>
<1>1. ASSUME NEW f \in Files PROVE Contents[f].lines \in Seq(Lines)
  <2> DEFINE q == Contents[f].lines
             R == Range(q)
  <2>1. q \in Seq(R) /\ R \subseteq Lines
    BY PSFAssumption DEF Lines
  <2> HIDE DEF q, R
  <2>2. q \in Seq(Lines)
    BY <2>1
  <2> QED
    BY <2>2 DEF q
<1>2. ASSUME NEW line \in Lines PROVE line.name \in Names /\ line.parts \in Seq(Pieces) /\ line.parts # <<>>
  <2> DEFINE q == line.parts
             R == Range(q)
  <2>1. PICK f \in Files : line \in Range(Contents[f].lines)
    BY DEF Lines
  <2>2. q \in Seq(R) /\ q # <<>> /\ R \subseteq Pieces
    BY <2>1, PSFAssumption DEF Pieces
  <2> HIDE DEF q, R
  <2>3. q \in Seq(Pieces)
    BY <2>2
  <2> QED
    BY <2>2, <2>3 DEF q, Names
<1> QED
  BY <1>1, <1>2

Spoken(told, x) == [i \in 1 .. Len(told) |-> IF told[i].name = x THEN told[i].value ELSE <<>>]
Said(told, x) == FlattenSeq(Spoken(told, x))
Has(told, x) == \E i \in 1 .. Len(told) : told[i].name = x

LEMMA SpokenType ==
  ASSUME NEW told \in Seq(TagSet), NEW x
  PROVE  Spoken(told, x) \in Seq(Seq(Pieces)) /\ Len(Spoken(told, x)) = Len(told) /\ Said(told, x) \in Seq(Pieces)
<1>1. \A i \in 1 .. Len(told) : (IF told[i].name = x THEN told[i].value ELSE <<>>) \in Seq(Pieces)
  <2> SUFFICES ASSUME NEW i \in 1 .. Len(told)
               PROVE  (IF told[i].name = x THEN told[i].value ELSE <<>>) \in Seq(Pieces)
    OBVIOUS
  <2>1. told[i] \in TagSet
    OBVIOUS
  <2>2. told[i].value \in Seq(Pieces)
    BY <2>1 DEF TagSet
  <2> QED
    BY <2>2
<1>2. Spoken(told, x) \in Seq(Seq(Pieces)) /\ Len(Spoken(told, x)) = Len(told)
  BY <1>1 DEF Spoken
<1> QED
  BY <1>2, FlattenType DEF Said

SpokenOne(x) == [tag \in TagSet |-> IF tag.name = x THEN tag.value ELSE <<>>]

LEMMA SpokenIs ==
  ASSUME NEW told \in Seq(TagSet), NEW x
  PROVE  Spoken(told, x) = Mapped(SpokenOne(x), told)
<1>1. \A i \in 1 .. Len(told) :
        SpokenOne(x)[told[i]] = IF told[i].name = x THEN told[i].value ELSE <<>>
  <2> SUFFICES ASSUME NEW i \in 1 .. Len(told)
               PROVE  SpokenOne(x)[told[i]] = IF told[i].name = x THEN told[i].value ELSE <<>>
    OBVIOUS
  <2>1. told[i] \in TagSet
    OBVIOUS
  <2> QED
    BY <2>1 DEF SpokenOne
<1> QED
  BY <1>1 DEF Spoken, Mapped

LEMMA SaidConcat ==
  ASSUME NEW a \in Seq(TagSet), NEW b \in Seq(TagSet), NEW x
  PROVE  /\ Said(a \o b, x) = Said(a, x) \o Said(b, x)
         /\ Has(a \o b, x) <=> Has(a, x) \/ Has(b, x)
<1> DEFINE v == SpokenOne(x)
           q == Spoken(a, x)
           r == Spoken(b, x)
           all == a \o b
           m == Len(a)
           n == Len(b)
<1>1. all \in Seq(TagSet) /\ m \in Nat /\ n \in Nat /\ Len(all) = m + n
      /\ \A i \in 1 .. m + n : all[i] = IF i <= m THEN a[i] ELSE b[i - m]
  BY ConcatProperties
<1>2. q \in Seq(Seq(Pieces)) /\ r \in Seq(Seq(Pieces)) /\ q = Mapped(v, a) /\ r = Mapped(v, b)
  BY SpokenType, SpokenIs
<1>3. Spoken(all, x) = Mapped(v, all)
  <2> HIDE DEF all
  <2> QED
    BY <1>1, SpokenIs
<1>4. v \in [TagSet -> Seq(Pieces)]
  <2>1. \A tag \in TagSet : tag.value \in Seq(Pieces) /\ <<>> \in Seq(Pieces)
    BY DEF TagSet
  <2> QED
    BY <2>1 DEF SpokenOne
<1> HIDE DEF v
<1>5. MapsBoth(v, a, b)
  BY <1>4, MappedConcat
<1>6. Said(all, x) = Said(a, x) \o Said(b, x)
  <2>1. Spoken(all, x) = q \o r
    BY <1>2, <1>3, <1>5 DEF MapsBoth
  <2> HIDE DEF q, r, all
  <2>2. FlattenSeq(q \o r) = FlattenSeq(q) \o FlattenSeq(r)
    BY <1>2, FlattenConcat
  <2>3. Said(all, x) = FlattenSeq(q) \o FlattenSeq(r)
    BY <2>1, <2>2 DEF Said
  <2> QED
    BY <2>3 DEF Said, q, r
<1> HIDE DEF all, m, n
<1>7. Has(all, x) <=> Has(a, x) \/ Has(b, x)
  <2>1. ASSUME NEW i \in 1 .. m + n, all[i].name = x PROVE Has(a, x) \/ Has(b, x)
    <3>1. CASE i <= m
      <4>1. i \in 1 .. m /\ a[i].name = x
        BY <1>1, <2>1, <3>1
      <4> QED
        BY <4>1 DEF Has, m
    <3>2. CASE ~(i <= m)
      <4>1. i - m \in 1 .. n /\ b[i - m].name = x
        BY <1>1, <2>1, <3>2
      <4> QED
        BY <4>1 DEF Has, n
    <3> QED
      BY <3>1, <3>2
  <2>2. ASSUME NEW i \in 1 .. m, a[i].name = x PROVE Has(all, x)
    <3>1. i \in 1 .. m + n /\ i <= m
      BY <1>1
    <3>2. all[i] = a[i]
      BY <1>1, <3>1
    <3> QED
      BY <1>1, <2>2, <3>1, <3>2 DEF Has
  <2>3. ASSUME NEW i \in 1 .. n, b[i].name = x PROVE Has(all, x)
    <3> DEFINE j == m + i
    <3>1. j \in 1 .. m + n /\ ~(j <= m) /\ j - m = i
      BY <1>1
    <3> HIDE DEF j
    <3>2. all[j] = b[i]
      BY <1>1, <3>1
    <3> QED
      BY <1>1, <2>3, <3>1, <3>2 DEF Has
  <2> QED
    BY <1>1, <2>1, <2>2, <2>3 DEF Has, m, n
<1> QED
  BY <1>6, <1>7 DEF all

LEMMA HasReverse ==
  ASSUME NEW told \in Seq(TagSet), NEW x
  PROVE  Has(Reverse(told), x) <=> Has(told, x)
<1> DEFINE r == Reverse(told)
           n == Len(told)
<1>1. n \in Nat /\ Len(r) = n /\ \A i \in 1 .. n : n - i + 1 \in 1 .. n /\ r[i] = told[n - i + 1]
  BY ReverseType
<1> HIDE DEF r, n
<1>2. ASSUME NEW i \in 1 .. n PROVE \E j \in 1 .. n : r[j] = told[i]
  <2>1. n - i + 1 \in 1 .. n /\ n - (n - i + 1) + 1 = i
    BY <1>1
  <2>2. r[n - i + 1] = told[n - (n - i + 1) + 1]
    BY <1>1, <2>1
  <2> QED
    BY <2>1, <2>2
<1>3. (\E i \in 1 .. n : r[i].name = x) <=> \E i \in 1 .. n : told[i].name = x
  <2>1. ASSUME NEW i \in 1 .. n, r[i].name = x PROVE \E j \in 1 .. n : told[j].name = x
    <3>1. n - i + 1 \in 1 .. n /\ told[n - i + 1].name = x
      BY <1>1, <2>1
    <3> QED
      BY <3>1
  <2>2. ASSUME NEW i \in 1 .. n, told[i].name = x PROVE \E j \in 1 .. n : r[j].name = x
    <3>1. PICK j \in 1 .. n : r[j] = told[i]
      BY <1>2
    <3> QED
      BY <2>2, <3>1
  <2> QED
    BY <2>1, <2>2
<1> QED
  BY <1>1, <1>3 DEF Has, r, n

\* The tags of one name that a list gets.
NewTags(name, values) == [i \in 1 .. Len(values) |-> Tag(name, values[i])]

LEMMA NewTagsSay ==
  ASSUME NEW name \in Names, NEW values \in Seq(Seq(Pieces)), NEW x
  PROVE  /\ NewTags(name, values) \in Seq(TagSet)
         /\ Said(NewTags(name, values), x) = IF x = name THEN FlattenSeq(values) ELSE <<>>
         /\ Has(NewTags(name, values), x) <=> x = name /\ values # <<>>
<1> DEFINE q == NewTags(name, values)
           n == Len(values)
<1>1. n \in Nat /\ \A i \in 1 .. n : values[i] \in Seq(Pieces)
  OBVIOUS
<1>2. \A i \in 1 .. n : Tag(name, values[i]) \in TagSet /\ Tag(name, values[i]).name = name
                        /\ Tag(name, values[i]).value = values[i]
  BY <1>1 DEF Tag, TagSet
<1>3. q \in Seq(TagSet) /\ Len(q) = n /\ \A i \in 1 .. n : q[i].name = name /\ q[i].value = values[i]
  BY <1>1, <1>2 DEF NewTags
<1> HIDE DEF q, n
<1>4. Spoken(q, x) \in Seq(Seq(Pieces)) /\ Len(Spoken(q, x)) = n
      /\ \A i \in 1 .. n : Spoken(q, x)[i] = IF q[i].name = x THEN q[i].value ELSE <<>>
  <2>1. Spoken(q, x) \in Seq(Seq(Pieces)) /\ Len(Spoken(q, x)) = Len(q)
    BY <1>3, SpokenType
  <2> QED
    BY <1>3, <2>1 DEF Spoken
<1>5. CASE x = name
  <2>1. \A i \in 1 .. n : Spoken(q, x)[i] = values[i]
    BY <1>3, <1>4, <1>5
  <2>2. Spoken(q, x) = values
    BY <1>4, <2>1, SeqEqual DEF n
  <2>3. Has(q, x) <=> values # <<>>
    <3>1. values # <<>> <=> 1 \in 1 .. n
      BY DEF n
    <3> QED
      BY <1>3, <1>5, <3>1 DEF Has
  <2> QED
    BY <1>3, <1>5, <2>2, <2>3 DEF Said, q
<1>6. CASE x # name
  <2>1. \A i \in 1 .. n : Spoken(q, x)[i] = <<>>
    BY <1>3, <1>4, <1>6
  <2>2. Said(q, x) = <<>>
    BY <1>4, <2>1, FlattenAllEmpty DEF Said
  <2>3. ~Has(q, x)
    BY <1>3, <1>6 DEF Has
  <2> QED
    BY <1>3, <1>6, <2>2, <2>3 DEF q
<1> QED
  BY <1>5, <1>6

LEMMA NamedHas ==
  ASSUME NEW tags, NEW x
  PROVE  Named(tags, x) # {} <=> Has(tags, x)
BY DEF Named, Has

\* What tags say after more has been told of a name.
More(new, tags, name, x, told) ==
  /\ new \in Seq(TagSet)
  /\ Said(Reverse(new), x) = Said(Reverse(tags), x) \o (IF x = name THEN told ELSE <<>>)
  /\ Has(new, x) <=> x = name \/ Has(tags, x)

\* The first value of a name that is not there yet.
LEMMA FirstIsNew ==
  ASSUME NEW tags \in Seq(TagSet), NEW name \in Names, NEW v \in Seq(Pieces), NEW x
  PROVE  More(<<Tag(name, v)>> \o tags, tags, name, x, v)
<1> DEFINE one == <<Tag(name, v)>>
           old == Reverse(tags)
           new == one \o tags
<1>1. /\ <<v>> \in Seq(Seq(Pieces)) /\ FlattenSeq(<<v>>) = v /\ <<v>> # <<>>
      /\ one = NewTags(name, <<v>>)
  BY FlattenOne DEF NewTags
<1>2. one \in Seq(TagSet) /\ Said(one, x) = (IF x = name THEN v ELSE <<>>) /\ (Has(one, x) <=> x = name)
  <2>1. NewTags(name, <<v>>) \in Seq(TagSet)
        /\ Said(NewTags(name, <<v>>), x) = (IF x = name THEN FlattenSeq(<<v>>) ELSE <<>>)
        /\ (Has(NewTags(name, <<v>>), x) <=> x = name /\ <<v>> # <<>>)
    BY <1>1, NewTagsSay
  <2> HIDE DEF one
  <2> QED
    BY <1>1, <2>1
<1>3. Reverse(one) = one
  <2>1. Tag(name, v) \in TagSet
    BY DEF Tag, TagSet
  <2> QED
    BY <2>1, ReverseOne
<1> HIDE DEF one
<1>4. old \in Seq(TagSet) /\ new \in Seq(TagSet)
  BY <1>2, ReverseType, ConcatProperties
<1>5. Reverse(new) = old \o one
  BY <1>2, <1>3, ReverseConcat
<1> HIDE DEF old
<1>6. Said(old \o one, x) = Said(old, x) \o Said(one, x)
  BY <1>2, <1>4, SaidConcat
<1>7. Has(new, x) <=> Has(one, x) \/ Has(tags, x)
  BY <1>2, SaidConcat
<1> HIDE DEF new
<1>8. Said(Reverse(new), x) = Said(old, x) \o (IF x = name THEN v ELSE <<>>)
  BY <1>2, <1>5, <1>6
<1>9. More(new, tags, name, x, v)
  BY <1>2, <1>4, <1>7, <1>8 DEF More, old
<1> QED
  BY <1>9 DEF new, one

\* The first value of a name that is there: a line more in the tag that is told
\* last of that name.
LEMMA FirstGoesOn ==
  ASSUME NEW tags \in Seq(TagSet), NEW name \in Names, NEW v \in Seq(Pieces), NEW x,
         Named(tags, name) # {}
  PROVE  More([tags EXCEPT ![FoundAt(tags, name)].value = @ \o v], tags, name, x, v)
<1> DEFINE n == Len(tags)
           p == FoundAt(tags, name)
           new == [tags EXCEPT ![p].value = @ \o v]
           e == [tags[p] EXCEPT !.value = @ \o v]
           old == Reverse(tags)
<1>1. n \in Nat /\ Named(tags, name) \in SUBSET Nat /\ \A i \in 1 .. n : tags[i] \in TagSet
  BY DEF Named
<1>2. PICK i \in Named(tags, name) : \A j \in Named(tags, name) : i <= j
  BY <1>1, LeastExists
<1>3. p \in Named(tags, name) /\ \A j \in Named(tags, name) : p <= j
  BY <1>2 DEF FoundAt
<1>4. p \in 1 .. n /\ tags[p].name = name /\ \A j \in 1 .. n : j < p => tags[j].name # name
  BY <1>1, <1>3 DEF Named
<1> HIDE DEF p
<1>5. e \in TagSet /\ e.name = name /\ e.value = tags[p].value \o v
  <2>1. tags[p] \in TagSet
    BY <1>1, <1>4
  <2>2. tags[p].value \in Seq(Pieces) /\ tags[p].value \o v \in Seq(Pieces)
    BY <2>1, ConcatProperties DEF TagSet
  <2> QED
    BY <1>4, <2>1, <2>2 DEF TagSet
<1>6. new = [tags EXCEPT ![p] = e]
  BY <1>4
<1> HIDE DEF e
<1>7. /\ new \in Seq(TagSet) /\ Len(new) = n /\ new[p] = e
      /\ \A j \in 1 .. n : j # p => new[j] = tags[j]
  <2> HIDE DEF new, old
  <2>1. e \in TagSet /\ p \in 1 .. n /\ tags \in Seq(TagSet) /\ n = Len(tags)
    BY <1>4, <1>5
  <2>2. new = [tags EXCEPT ![p] = e]
    BY <1>6
  <2> HIDE DEF n
  <2>3. new \in Seq(TagSet) /\ Len(new) = n
    BY <2>1, <2>2
  <2>4. new[p] = e /\ \A j \in 1 .. n : j # p => new[j] = tags[j]
    BY <2>1, <2>2
  <2> QED
    BY <2>3, <2>4
<1> HIDE DEF new, n, old
<1>8. /\ old \in Seq(TagSet) /\ Len(old) = n
      /\ \A j \in 1 .. n : n - j + 1 \in 1 .. n /\ old[j] = tags[n - j + 1]
  BY ReverseType DEF old, n
<1>9. /\ Reverse(new) \in Seq(TagSet) /\ Len(Reverse(new)) = n
      /\ \A j \in 1 .. n : Reverse(new)[j] = new[n - j + 1]
  BY <1>7, ReverseType
<1>10. Has(new, x) <=> x = name \/ Has(tags, x)
  <2>1. \A j \in 1 .. n : new[j].name = tags[j].name
    BY <1>4, <1>5, <1>7
  <2>2. Has(new, x) <=> Has(tags, x)
    BY <1>7, <2>1 DEF Has, n
  <2>3. x = name => Has(tags, x)
    BY <1>4 DEF Has, n
  <2> QED
    BY <2>2, <2>3
<1> DEFINE q == Spoken(old, x)
           r == Spoken(Reverse(new), x)
           k == n - p + 1
<1>11. /\ q \in Seq(Seq(Pieces)) /\ Len(q) = n /\ r \in Seq(Seq(Pieces)) /\ Len(r) = n
       /\ \A j \in 1 .. n : /\ q[j] = IF tags[n - j + 1].name = x THEN tags[n - j + 1].value ELSE <<>>
                            /\ r[j] = IF new[n - j + 1].name = x THEN new[n - j + 1].value ELSE <<>>
  <2>1. q \in Seq(Seq(Pieces)) /\ Len(q) = n /\ r \in Seq(Seq(Pieces)) /\ Len(r) = n
    BY <1>8, <1>9, SpokenType
  <2> QED
    BY <1>8, <1>9, <2>1 DEF Spoken
<1> HIDE DEF q, r
<1>12. k \in 1 .. n /\ n - k + 1 = p
       /\ \A j \in 1 .. n : (j # k => n - j + 1 # p) /\ (j > k => n - j + 1 < p) /\ n - j + 1 \in 1 .. n
  BY <1>1, <1>4
<1> HIDE DEF k
<1>13. CASE x = name
  <2>1. r[k] = q[k] \o v
    <3>1. r[k] = new[p].value /\ q[k] = tags[p].value
      BY <1>4, <1>5, <1>7, <1>11, <1>12, <1>13
    <3> QED
      BY <1>5, <1>7, <3>1
  <2>2. \A j \in 1 .. n : (j # k => r[j] = q[j]) /\ (j > k => q[j] = <<>>)
    <3> SUFFICES ASSUME NEW j \in 1 .. n PROVE (j # k => r[j] = q[j]) /\ (j > k => q[j] = <<>>)
      OBVIOUS
    <3> DEFINE w == n - j + 1
    <3>1. w \in 1 .. n /\ (j # k => w # p) /\ (j > k => w < p)
          /\ q[j] = (IF tags[w].name = x THEN tags[w].value ELSE <<>>)
          /\ r[j] = (IF new[w].name = x THEN new[w].value ELSE <<>>)
      BY <1>11, <1>12
    <3> HIDE DEF w
    <3> QED
      BY <1>4, <1>7, <1>13, <3>1
  <2>3. Longer(r, q, k, v)
    BY <1>11, <1>12, <2>1, <2>2 DEF Longer
  <2>4. FlattenSeq(r) = FlattenSeq(q) \o v
    BY <1>11, <2>3, FlattenLonger
  <2> QED
    BY <1>7, <1>10, <1>13, <2>4 DEF More, Said, q, r, new, old, p
<1>14. CASE x # name
  <2>1. \A j \in 1 .. n : r[j] = q[j]
    <3> SUFFICES ASSUME NEW j \in 1 .. n PROVE r[j] = q[j]
      OBVIOUS
    <3> DEFINE w == n - j + 1
    <3>1. w \in 1 .. n
          /\ q[j] = (IF tags[w].name = x THEN tags[w].value ELSE <<>>)
          /\ r[j] = (IF new[w].name = x THEN new[w].value ELSE <<>>)
      BY <1>11, <1>12
    <3> HIDE DEF w
    <3> QED
      BY <1>4, <1>5, <1>7, <1>14, <3>1
  <2>2. r = q
    BY <1>11, <2>1, SeqEqual
  <2>3. FlattenSeq(r) = FlattenSeq(q) \o <<>>
    BY <1>11, <2>2, FlattenType, ConcatEmptySeq
  <2> QED
    BY <1>7, <1>10, <1>14, <2>3 DEF More, Said, q, r, new, old, p
<1> QED
  BY <1>13, <1>14

LEMMA AddTagMultiSays ==
  ASSUME NEW tags \in Seq(TagSet), NEW name \in Names, NEW values \in Seq(Seq(Pieces)), values # <<>>, NEW x
  PROVE  More(AddTagMulti(tags, name, values), tags, name, x, FlattenSeq(values))
<1> DEFINE v == values[1]
           left == [i \in 1 .. Len(values) - 1 |-> values[i + 1]]
           first == IF Named(tags, name) = {} THEN <<Tag(name, v)>> \o tags
                    ELSE [tags EXCEPT ![FoundAt(tags, name)].value = @ \o v]
           rest == NewTags(name, left)
           old == Reverse(tags)
<1>0. \A u, w, y \in Seq(Pieces) : (u \o w) \o y = u \o (w \o y)
  BY Associates
<1>1. Len(values) \in Nat \ {0} /\ v \in Seq(Pieces)
  OBVIOUS
<1>2. left \in Seq(Seq(Pieces)) /\ Len(left) = Len(values) - 1 /\ Len(left) \in Nat
  BY <1>1
<1>3. rest = [i \in 1 .. Len(values) - 1 |-> Tag(name, values[i + 1])]
  BY <1>1, <1>2 DEF NewTags
<1>4. AddTagMulti(tags, name, values) = Reverse(rest) \o first
  <2> HIDE DEF rest
  <2> QED
    BY <1>3 DEF AddTagMulti
<1>5. FlattenSeq(values) = v \o FlattenSeq(left) /\ FlattenSeq(left) \in Seq(Pieces)
  <2>1. <<v>> \in Seq(Seq(Pieces)) /\ FlattenSeq(<<v>>) = v
    BY <1>1, FlattenOne
  <2>2. values = <<v>> \o left
    <3> DEFINE all == <<v>> \o left
    <3>1. all \in Seq(Seq(Pieces)) /\ Len(all) = Len(values)
      BY <1>1, <1>2, <2>1
    <3>2. ASSUME NEW i \in 1 .. Len(values) PROVE all[i] = values[i]
      <4>1. CASE i = 1
        BY <2>1, <4>1
      <4>2. CASE i # 1
        <5>1. i - 1 \in 1 .. Len(values) - 1 /\ (i - 1) + 1 = i
          BY <1>1, <4>2
        <5>2. all[i] = left[i - 1]
          BY <1>1, <1>2, <4>2, <5>1
        <5> QED
          BY <5>1, <5>2
      <4> QED
        BY <4>1, <4>2
    <3> HIDE DEF all
    <3>3. all = values
      BY <3>1, <3>2, SeqEqual
    <3> QED
      BY <3>3 DEF all
  <2> HIDE DEF left, v
  <2>3. FlattenSeq(<<v>> \o left) = FlattenSeq(<<v>>) \o FlattenSeq(left)
    BY <1>2, <2>1, FlattenConcat
  <2> QED
    BY <1>2, <2>1, <2>2, <2>3, FlattenType
<1>6. More(first, tags, name, x, v)
  <2>1. CASE Named(tags, name) = {}
    <3>1. More(<<Tag(name, v)>> \o tags, tags, name, x, v)
      <4> HIDE DEF v
      <4> QED
        BY <1>1, FirstIsNew
    <3> QED
      BY <2>1, <3>1
  <2>2. CASE Named(tags, name) # {}
    <3>1. More([tags EXCEPT ![FoundAt(tags, name)].value = @ \o v], tags, name, x, v)
      <4> HIDE DEF v
      <4> QED
        BY <1>1, <2>2, FirstGoesOn
    <3> QED
      BY <2>2, <3>1
  <2> QED
    BY <2>1, <2>2
<1>7. rest \in Seq(TagSet) /\ Said(rest, x) = (IF x = name THEN FlattenSeq(left) ELSE <<>>)
      /\ (Has(rest, x) => x = name)
  <2> HIDE DEF left
  <2> QED
    BY <1>2, NewTagsSay
<1> HIDE DEF v, left, first, rest
<1>8. first \in Seq(TagSet) /\ Said(Reverse(first), x) = Said(old, x) \o (IF x = name THEN v ELSE <<>>)
      /\ (Has(first, x) <=> x = name \/ Has(tags, x))
  BY <1>6 DEF More
<1> DEFINE new == Reverse(rest) \o first
           back == Reverse(rest)
<1>9. back \in Seq(TagSet) /\ Reverse(back) = rest
  BY <1>7, ReverseType, ReverseTwice
<1>10. new \in Seq(TagSet) /\ Reverse(new) = Reverse(first) \o rest /\ Reverse(first) \in Seq(TagSet)
       /\ old \in Seq(TagSet)
  BY <1>8, <1>9, ReverseConcat, ReverseType, ConcatProperties
<1>11. Has(new, x) <=> Has(rest, x) \/ Has(first, x)
  <2>1. Has(back, x) <=> Has(rest, x)
    <3>1. Has(Reverse(rest), x) <=> Has(rest, x)
      BY <1>7, HasReverse
    <3> QED
      BY <3>1
  <2> HIDE DEF back
  <2>2. Has(back \o first, x) <=> Has(back, x) \/ Has(first, x)
    BY <1>8, <1>9, SaidConcat
  <2> QED
    BY <2>1, <2>2 DEF back
<1>12. Said(Reverse(new), x) = Said(Reverse(first), x) \o Said(rest, x)
  <2> DEFINE l == Reverse(first)
  <2>1. l \in Seq(TagSet) /\ Reverse(new) = l \o rest
    BY <1>10
  <2> HIDE DEF l, new
  <2>2. Said(l \o rest, x) = Said(l, x) \o Said(rest, x)
    BY <1>7, <2>1, SaidConcat
  <2> QED
    BY <2>1, <2>2 DEF l
<1>13. Said(Reverse(new), x) = Said(old, x) \o (IF x = name THEN FlattenSeq(values) ELSE <<>>)
  <2> DEFINE a == Said(old, x)
             b == FlattenSeq(left)
  <2>1. a \in Seq(Pieces) /\ b \in Seq(Pieces) /\ <<>> \in Seq(Pieces)
    BY <1>5, <1>10, SpokenType
  <2>2. CASE x = name
    <3>1. Said(Reverse(new), x) = (a \o v) \o b
      BY <1>7, <1>8, <1>12, <2>2
    <3>2. (a \o v) \o b = a \o (v \o b)
      <4> HIDE DEF a, b
      <4>1. v \in Seq(Pieces)
        BY <1>1
      <4> QED
        BY <1>0, <2>1, <4>1
    <3> QED
      BY <1>5, <2>2, <3>1, <3>2
  <2>3. CASE x # name
    <3>1. Said(Reverse(new), x) = (a \o <<>>) \o <<>>
      BY <1>7, <1>8, <1>12, <2>3
    <3>2. (a \o <<>>) \o <<>> = a \o <<>>
      <4> HIDE DEF a
      <4> QED
        BY <2>1, ConcatEmptySeq
    <3> QED
      BY <2>3, <3>1, <3>2
  <2> QED
    BY <2>2, <2>3
<1>14. More(new, tags, name, x, FlattenSeq(values))
  <2> HIDE DEF new
  <2> QED
    BY <1>7, <1>8, <1>10, <1>11, <1>13 DEF More, old
<1> QED
  BY <1>4, <1>14

\* What a line adds: nothing if its name is reserved and there already.
Adds(tags, line) ==
  IF line.name \in ReservedNames /\ Has(tags, line.name) THEN <<>> ELSE line.parts

LEMMA AddTagLineSays ==
  ASSUME NEW tags \in Seq(TagSet), NEW line \in Lines, NEW x
  PROVE  More(AddTagLine(tags, line), tags, line.name, x, Adds(tags, line))
<1> DEFINE name == line.name
           values == IF name \in SplitNames THEN [i \in 1 .. Len(line.parts) |-> <<line.parts[i]>>]
                     ELSE <<line.parts>>
           there == name \in ReservedNames /\ Named(tags, name) # {}
<1>1. name \in Names /\ line.parts \in Seq(Pieces) /\ line.parts # <<>>
  BY LinesAre
<1>2. Named(tags, name) # {} <=> Has(tags, name)
  BY NamedHas
<1>3. CASE there
  <2>1. AddTagLine(tags, line) = tags /\ Adds(tags, line) = <<>>
    BY <1>2, <1>3 DEF AddTagLine, Adds
  <2>2. Said(Reverse(tags), x) \in Seq(Pieces)
    BY ReverseType, SpokenType
  <2>3. Said(Reverse(tags), x) = Said(Reverse(tags), x) \o <<>>
    <3> DEFINE a == Said(Reverse(tags), x)
    <3>1. a \in Seq(Pieces)
      BY <2>2
    <3> HIDE DEF a
    <3>2. a = a \o <<>>
      BY <3>1, ConcatEmptySeq
    <3> QED
      BY <3>2 DEF a
  <2>4. Has(tags, x) <=> x = name \/ Has(tags, x)
    BY <1>2, <1>3
  <2>5. Said(Reverse(tags), x) = Said(Reverse(tags), x) \o (IF x = name THEN <<>> ELSE <<>>)
    BY <2>3
  <2>6. More(tags, tags, name, x, <<>>)
    BY <2>4, <2>5 DEF More
  <2> QED
    BY <2>1, <2>6
<1>4. CASE ~there
  <2>1. AddTagLine(tags, line) = AddTagMulti(tags, name, values) /\ Adds(tags, line) = line.parts
    BY <1>2, <1>4 DEF AddTagLine, Adds
  <2>2. values \in Seq(Seq(Pieces)) /\ values # <<>> /\ FlattenSeq(values) = line.parts
    <3> DEFINE parts == line.parts
               singles == [i \in 1 .. Len(parts) |-> <<parts[i]>>]
    <3>1. parts \in Seq(Pieces) /\ parts # <<>>
      BY <1>1
    <3> HIDE DEF parts
    <3>2. Len(parts) \in Nat /\ Len(parts) # 0 /\ \A i \in 1 .. Len(parts) : <<parts[i]>> \in Seq(Pieces)
      BY <3>1
    <3>3. singles \in Seq(Seq(Pieces)) /\ singles # <<>>
      BY <3>2
    <3>4. FlattenSeq(singles) = parts
      BY <3>1, FlattenSingles
    <3>5. <<parts>> \in Seq(Seq(Pieces)) /\ <<parts>> # <<>> /\ FlattenSeq(<<parts>>) = parts
      BY <3>1, FlattenOne
    <3> HIDE DEF singles
    <3>6. values = IF name \in SplitNames THEN singles ELSE <<parts>>
      BY DEF singles, parts
    <3> HIDE DEF values
    <3> QED
      BY <3>3, <3>4, <3>5, <3>6 DEF parts
  <2> HIDE DEF values, name
  <2>3. More(AddTagMulti(tags, name, values), tags, name, x, FlattenSeq(values))
    BY <1>1, <2>2, AddTagMultiSays
  <2> QED
    BY <2>1, <2>2, <2>3 DEF name
<1> HIDE DEF there
<1> QED
  BY <1>3, <1>4

\* The lines of a name that count.
NamedLines(lines, x) == {i \in 1 .. Len(lines) : lines[i].name = x}
Counting(lines, x) ==
  IF x \in ReservedNames THEN {i \in NamedLines(lines, x) : \A j \in NamedLines(lines, x) : i <= j}
  ELSE NamedLines(lines, x)
Values(lines, x, m) == [i \in 1 .. m |-> IF i \in Counting(lines, x) THEN lines[i].parts ELSE <<>>]

\* The list after m lines.
ListSays(tags, lines, m) ==
  /\ tags \in Seq(TagSet)
  /\ \A x : /\ Has(tags, x) <=> \E j \in 1 .. m : lines[j].name = x
            /\ Said(Reverse(tags), x) = FlattenSeq(Values(lines, x, m))

LEMMA LineAdds ==
  ASSUME NEW lines \in Seq(Lines), NEW m \in 1 .. Len(lines), NEW tags, ListSays(tags, lines, m - 1)
  PROVE  ListSays(AddTagLine(tags, lines[m]), lines, m)
<1> DEFINE line == lines[m]
           new == AddTagLine(tags, line)
           n == Len(lines)
           all == 1 .. n
<1>1. n \in Nat /\ m \in Nat /\ m >= 1 /\ m <= n /\ line \in Lines /\ \A i \in 1 .. n : lines[i] \in Lines
  OBVIOUS
<1>2. tags \in Seq(TagSet)
  BY DEF ListSays
<1>3. ASSUME NEW x PROVE More(new, tags, line.name, x, Adds(tags, line))
  <2> HIDE DEF line
  <2> QED
    BY <1>1, <1>2, AddTagLineSays
<1>4. new \in Seq(TagSet)
  BY <1>3 DEF More
<1> HIDE DEF new, n
<1>5. ASSUME NEW x
      PROVE /\ Has(new, x) <=> \E j \in 1 .. m : lines[j].name = x
            /\ Said(Reverse(new), x) = FlattenSeq(Values(lines, x, m))
  <2>1. /\ Has(new, x) <=> x = line.name \/ Has(tags, x)
        /\ Said(Reverse(new), x) = Said(Reverse(tags), x) \o (IF x = line.name THEN Adds(tags, line) ELSE <<>>)
    BY <1>3 DEF More
  <2>2. /\ \A y : Has(tags, y) <=> \E j \in 1 .. m - 1 : lines[j].name = y
        /\ Said(Reverse(tags), x) = FlattenSeq(Values(lines, x, m - 1))
    BY DEF ListSays
  <2>3. \A j : j \in 1 .. m <=> j \in 1 .. m - 1 \/ j = m
    BY <1>1
  <2>4. Has(new, x) <=> \E j \in 1 .. m : lines[j].name = x
    BY <2>1, <2>2, <2>3
  <2> DEFINE e == IF m \in Counting(lines, x) THEN line.parts ELSE <<>>
             before == Values(lines, x, m - 1)
  <2>5. (IF x = line.name THEN Adds(tags, line) ELSE <<>>) = e
    <3>1. CASE x # line.name
      BY <3>1 DEF Counting, NamedLines
    <3>2. CASE x = line.name /\ x \notin ReservedNames
      <4>1. m \in NamedLines(lines, x)
        BY <1>1, <3>2 DEF NamedLines
      <4>2. m \in Counting(lines, x)
        BY <3>2, <4>1 DEF Counting
      <4> QED
        BY <3>2, <4>2 DEF Adds
    <3>3. CASE x = line.name /\ x \in ReservedNames
      <4>1. m \in NamedLines(lines, x) /\ \A j \in NamedLines(lines, x) : j \in 1 .. n
        BY <1>1, <3>3 DEF NamedLines, n
      <4>2. m \in Counting(lines, x) <=> \A j \in NamedLines(lines, x) : m <= j
        BY <3>3, <4>1 DEF Counting
      <4>3. Has(tags, x) <=> \E j \in NamedLines(lines, x) : ~(m <= j)
        <5>1. ASSUME NEW j \in NamedLines(lines, x), ~(m <= j) PROVE Has(tags, x)
          <6>1. j \in 1 .. m - 1 /\ lines[j].name = x
            BY <1>1, <4>1, <5>1 DEF NamedLines
          <6> QED
            BY <2>2, <6>1
        <5>2. ASSUME NEW j \in 1 .. m - 1, lines[j].name = x
              PROVE  j \in NamedLines(lines, x) /\ ~(m <= j)
          <6>1. j \in 1 .. n /\ ~(m <= j)
            BY <1>1
          <6> QED
            BY <5>2, <6>1 DEF NamedLines, n
        <5> QED
          BY <2>2, <5>1, <5>2
      <4> QED
        BY <3>3, <4>2, <4>3 DEF Adds
    <3> QED
      BY <3>1, <3>2, <3>3
  <2>6. before \in Seq(Seq(Pieces)) /\ e \in Seq(Pieces)
    <3>1. \A i \in 1 .. n : (IF i \in Counting(lines, x) THEN lines[i].parts ELSE <<>>) \in Seq(Pieces)
      <4> SUFFICES ASSUME NEW i \in 1 .. n
                   PROVE  (IF i \in Counting(lines, x) THEN lines[i].parts ELSE <<>>) \in Seq(Pieces)
        OBVIOUS
      <4>1. lines[i].parts \in Seq(Pieces) /\ <<>> \in Seq(Pieces)
        BY <1>1, LinesAre
      <4> QED
        BY <4>1
    <3>2. m - 1 \in Nat /\ \A i \in 1 .. m - 1 : i \in 1 .. n
      BY <1>1
    <3> QED
      BY <1>1, <3>1, <3>2 DEF Values
  <2>7. Values(lines, x, m) = Append(before, e)
    <3>1. Len(before) = m - 1 /\ \A i \in 1 .. m - 1 : before[i] = IF i \in Counting(lines, x) THEN lines[i].parts ELSE <<>>
      BY <1>1 DEF Values
    <3> HIDE DEF before, e
    <3>2. Append(before, e) \in Seq(Seq(Pieces)) /\ Len(Append(before, e)) = m
          /\ \A i \in 1 .. m : Append(before, e)[i] = IF i = m THEN e ELSE before[i]
      BY <1>1, <2>6, <3>1
    <3>3. \A i \in 1 .. m : (i # m => i \in 1 .. m - 1)
      BY <1>1
    <3>4. \A i \in 1 .. m : (IF i \in Counting(lines, x) THEN lines[i].parts ELSE <<>>) = Append(before, e)[i]
      <4> SUFFICES ASSUME NEW i \in 1 .. m
                   PROVE  (IF i \in Counting(lines, x) THEN lines[i].parts ELSE <<>>) = Append(before, e)[i]
        OBVIOUS
      <4>1. CASE i = m
        <5>1. Append(before, e)[i] = e
          BY <3>2, <4>1
        <5> QED
          BY <4>1, <5>1 DEF e
      <4>2. CASE i # m
        <5>1. Append(before, e)[i] = before[i] /\ i \in 1 .. m - 1
          BY <3>2, <3>3, <4>2
        <5> QED
          BY <3>1, <5>1
      <4> QED
        BY <4>1, <4>2
    <3> DEFINE t == Append(before, e)
    <3>5. t = [i \in 1 .. m |-> t[i]]
      <4>1. t \in Seq(Seq(Pieces)) /\ Len(t) = m
        BY <3>2
      <4> HIDE DEF t
      <4> QED
        BY <4>1
    <3>6. \A i \in 1 .. m : (IF i \in Counting(lines, x) THEN lines[i].parts ELSE <<>>) = t[i]
      BY <3>4
    <3> HIDE DEF t
    <3>7. Values(lines, x, m) = t
      BY <3>5, <3>6 DEF Values
    <3> QED
      BY <3>7 DEF t
  <2> HIDE DEF before, e
  <2>8. FlattenSeq(Append(before, e)) = FlattenSeq(before) \o e
    BY <2>6, FlattenAppend
  <2> QED
    BY <2>1, <2>2, <2>4, <2>5, <2>7, <2>8 DEF before
<1> QED
  BY <1>4, <1>5 DEF ListSays, new

\* The list a file has in the end says of each name what its lines say.
LEMMA ProcessTags ==
  ASSUME NEW f \in Files
  PROVE  ListSays(TagsOf[f], Contents[f].lines, Len(Contents[f].lines))
<1> DEFINE lines == Contents[f].lines
           n == Len(lines)
           Lists == Seq(TagSet)
           Steps == (1 .. n) \X Lists
           step == [t \in Steps |-> AddTagLine(t[2], lines[t[1]])]
           D(g) == [i \in 0 .. n |-> IF i = 0 THEN <<>> ELSE AddTagLine(g[i - 1], lines[i])]
           tags == CHOOSE g : g = D(g)
<1>1. lines \in Seq(Lines) /\ n \in Nat /\ n \in 0 .. n
  <2>1. lines \in Seq(Lines)
    BY LinesAre
  <2> HIDE DEF lines
  <2> QED
    BY <2>1
<1>2. TagsOf[f] = tags[n]
  BY DEF TagsOf, process_tags
<1> HIDE DEF lines
<1>3. \A i \in 1 .. n : lines[i] \in Lines
  BY <1>1
<1> HIDE DEF n
<1>4. step \in [Steps -> Lists]
  <2>1. ASSUME NEW t \in Steps PROVE AddTagLine(t[2], lines[t[1]]) \in Lists
    <3> DEFINE a == t[2]
               line == lines[t[1]]
    <3>1. a \in Seq(TagSet) /\ line \in Lines
      BY <1>3
    <3> HIDE DEF a, line
    <3>2. More(AddTagLine(a, line), a, line.name, line.name, Adds(a, line))
      BY <3>1, AddTagLineSays
    <3> QED
      BY <3>2 DEF More, a, line
  <2> QED
    BY <2>1
<1> HIDE DEF Lists
<1>5. PICK h \in [0 .. n -> Lists] : Follows(h, n, <<>>, step)
  <2>1. <<>> \in Lists
    BY DEF Lists
  <2> HIDE DEF step
  <2> QED
    BY <1>1, <1>4, <2>1, RecursionExists
<1>6. h[0] = <<>> /\ \A i \in 1 .. n : h[i] = AddTagLine(h[i - 1], lines[i])
  <2>1. ASSUME NEW i \in 1 .. n PROVE h[i] = AddTagLine(h[i - 1], lines[i])
    <3>1. i - 1 \in 0 .. n
      BY <1>1
    <3>2. <<i, h[i - 1]>> \in Steps
      BY <1>5, <3>1
    <3>3. step[<<i, h[i - 1]>>] = AddTagLine(h[i - 1], lines[i])
      BY <3>2
    <3> QED
      BY <1>5, <3>3 DEF Follows
  <2> QED
    BY <1>5, <2>1 DEF Follows
<1>7. \A g, k : g = D(g) /\ k = D(k) => g[n] = k[n]
  <2>0. SUFFICES ASSUME NEW g, NEW k, g = D(g), k = D(k) PROVE g[n] = k[n]
    OBVIOUS
  <2> DEFINE T == {i \in 0 .. n : g[i] = k[i]}
  <2>1. 0 \in T
    <3>1. 0 \in 0 .. n
      BY <1>1
    <3>2. D(g)[0] = <<>> /\ D(k)[0] = <<>>
      BY <3>1
    <3> HIDE DEF D
    <3> QED
      BY <2>0, <3>1, <3>2
  <2>2. ASSUME NEW i \in 1 .. n, i - 1 \in T PROVE i \in T
    <3>1. i \in 0 .. n /\ i # 0
      BY <1>1
    <3>2. D(g)[i] = AddTagLine(g[i - 1], lines[i]) /\ D(k)[i] = AddTagLine(k[i - 1], lines[i])
      BY <3>1
    <3> HIDE DEF D
    <3> QED
      BY <2>0, <2>2, <3>1, <3>2
  <2> HIDE DEF T
  <2>3. \A i \in 0 .. n : i \in T
    BY <1>1, <2>1, <2>2, CountingUp
  <2> QED
    BY <1>1, <2>3 DEF T
<1>8. h = D(h)
  <2>1. ASSUME NEW i \in 0 .. n PROVE h[i] = IF i = 0 THEN <<>> ELSE AddTagLine(h[i - 1], lines[i])
    <3>1. i # 0 => i \in 1 .. n
      BY <1>1
    <3> QED
      BY <1>6, <3>1
  <2>2. h = [i \in 0 .. n |-> h[i]]
    BY <1>5
  <2> QED
    BY <2>1, <2>2
<1>9. tags[n] = h[n]
  <2>1. tags = D(tags)
    <3> HIDE DEF D
    <3> QED
      BY <1>8
  <2> HIDE DEF tags, D
  <2> QED
    BY <1>7, <1>8, <2>1
<1> HIDE DEF tags, D, step
<1> DEFINE T == {m \in 0 .. n : ListSays(h[m], lines, m)}
<1>10. 0 \in T
  <2>1. 0 \in 0 .. n /\ <<>> \in Seq(TagSet) /\ 1 .. 0 = {}
    BY <1>1
  <2>2. Reverse(<<>>) = <<>>
    <3>1. Reverse(<<>>) \in Seq(TagSet) /\ Len(Reverse(<<>>)) = 0
      BY <2>1, ReverseType
    <3> QED
      BY <3>1
  <2>3. ASSUME NEW x PROVE ~Has(<<>>, x) /\ Said(<<>>, x) = <<>> /\ FlattenSeq(Values(lines, x, 0)) = <<>>
    <3>1. Spoken(<<>>, x) = <<>> /\ Values(lines, x, 0) = <<>>
      BY DEF Spoken, Values
    <3> QED
      BY <3>1, FlattenEmpty DEF Has, Said
  <2>4. ListSays(<<>>, lines, 0)
    BY <2>1, <2>2, <2>3 DEF ListSays
  <2> QED
    BY <1>6, <2>1, <2>4
<1>11. ASSUME NEW m \in 1 .. n, m - 1 \in T PROVE m \in T
  <2>1. ListSays(AddTagLine(h[m - 1], lines[m]), lines, m)
    BY <1>1, <1>11, LineAdds DEF n
  <2>2. m \in 0 .. n
    BY <1>1
  <2> QED
    BY <1>6, <2>1, <2>2
<1> HIDE DEF T
<1>12. \A m \in 0 .. n : m \in T
  BY <1>1, <1>10, <1>11, CountingUp
<1>13. ListSays(h[n], lines, n)
  BY <1>1, <1>12 DEF T
<1> QED
  BY <1>2, <1>9, <1>13 DEF lines, n

-----------------------------------------------------------------------------
(* What info_target has been given.                                         *)

InfoSet == [file : Files, tag : TagSet]

HeardOne(f, x) == [e \in InfoSet |-> IF e.file = f /\ e.tag.name = x THEN e.tag.value ELSE <<>>]
HeardIn(infos, f, x) == FlattenSeq(Mapped(HeardOne(f, x), infos))
Mentions(infos, f) == \E i \in 1 .. Len(infos) : infos[i].file = f

LEMMA HeardOneType == ASSUME NEW f, NEW x PROVE HeardOne(f, x) \in [InfoSet -> Seq(Pieces)]
<1>1. \A e \in InfoSet : e.tag.value \in Seq(Pieces) /\ <<>> \in Seq(Pieces)
  BY DEF InfoSet, TagSet
<1> QED
  BY <1>1 DEF HeardOne

LEMMA HeardIs ==
  ASSUME info \in Seq(InfoSet), NEW f, NEW x
  PROVE  Heard(f, x) = HeardIn(info, f, x)
<1>1. \A i \in 1 .. Len(info) :
        HeardOne(f, x)[info[i]] = IF info[i].file = f /\ info[i].tag.name = x THEN info[i].tag.value ELSE <<>>
  <2> SUFFICES ASSUME NEW i \in 1 .. Len(info)
               PROVE  HeardOne(f, x)[info[i]] = IF info[i].file = f /\ info[i].tag.name = x
                                                THEN info[i].tag.value ELSE <<>>
    OBVIOUS
  <2>1. info[i] \in InfoSet
    OBVIOUS
  <2> QED
    BY <2>1 DEF HeardOne
<1> QED
  BY <1>1 DEF Heard, HeardIn, Mapped

LEMMA HeardMore ==
  ASSUME NEW a \in Seq(InfoSet), NEW b \in Seq(InfoSet), NEW f, NEW x
  PROVE  /\ HeardIn(a \o b, f, x) = HeardIn(a, f, x) \o HeardIn(b, f, x)
         /\ HeardIn(a, f, x) \in Seq(Pieces)
         /\ Mentions(a \o b, f) <=> Mentions(a, f) \/ Mentions(b, f)
<1> DEFINE v == HeardOne(f, x)
           q == Mapped(v, a)
           r == Mapped(v, b)
<1>1. v \in [InfoSet -> Seq(Pieces)]
  BY HeardOneType
<1>2. HeardIn(a, f, x) = FlattenSeq(q) /\ HeardIn(b, f, x) = FlattenSeq(r)
      /\ HeardIn(a \o b, f, x) = FlattenSeq(Mapped(v, a \o b))
  BY DEF HeardIn
<1> HIDE DEF v
<1>3. q \in Seq(Seq(Pieces)) /\ r \in Seq(Seq(Pieces)) /\ Mapped(v, a \o b) = q \o r
  <2>1. q \in Seq(Seq(Pieces)) /\ r \in Seq(Seq(Pieces)) /\ MapsBoth(v, a, b)
    BY <1>1, MappedConcat
  <2> QED
    BY <2>1 DEF MapsBoth
<1> HIDE DEF q, r
<1>4. FlattenSeq(q \o r) = FlattenSeq(q) \o FlattenSeq(r) /\ FlattenSeq(q) \in Seq(Pieces)
  BY <1>3, FlattenConcat, FlattenType
<1> DEFINE all == a \o b
           m == Len(a)
           n == Len(b)
<1>5. m \in Nat /\ n \in Nat /\ Len(all) = m + n
      /\ \A i \in 1 .. m + n : all[i] = IF i <= m THEN a[i] ELSE b[i - m]
  BY ConcatProperties
<1> HIDE DEF all, m, n
<1>6. Mentions(all, f) <=> Mentions(a, f) \/ Mentions(b, f)
  <2>1. ASSUME NEW i \in 1 .. m + n, all[i].file = f PROVE Mentions(a, f) \/ Mentions(b, f)
    <3>1. CASE i <= m
      <4>1. i \in 1 .. m /\ a[i].file = f
        BY <1>5, <2>1, <3>1
      <4> QED
        BY <4>1 DEF Mentions, m
    <3>2. CASE ~(i <= m)
      <4>1. i - m \in 1 .. n /\ b[i - m].file = f
        BY <1>5, <2>1, <3>2
      <4> QED
        BY <4>1 DEF Mentions, n
    <3> QED
      BY <3>1, <3>2
  <2>2. ASSUME NEW i \in 1 .. m, a[i].file = f PROVE Mentions(all, f)
    <3>1. i \in 1 .. m + n /\ i <= m
      BY <1>5
    <3>2. all[i] = a[i]
      BY <1>5, <3>1
    <3> QED
      BY <1>5, <2>2, <3>1, <3>2 DEF Mentions
  <2>3. ASSUME NEW i \in 1 .. n, b[i].file = f PROVE Mentions(all, f)
    <3> DEFINE j == m + i
    <3>1. j \in 1 .. m + n /\ ~(j <= m) /\ j - m = i
      BY <1>5
    <3> HIDE DEF j
    <3>2. all[j] = b[i]
      BY <1>5, <3>1
    <3> QED
      BY <1>5, <2>3, <3>1, <3>2 DEF Mentions
  <2> QED
    BY <1>5, <2>1, <2>2, <2>3 DEF Mentions, m, n
<1> QED
  BY <1>2, <1>3, <1>4, <1>6 DEF all

LEMMA NotMentioned ==
  ASSUME NEW infos \in Seq(InfoSet), NEW f, NEW x, ~Mentions(infos, f)
  PROVE  HeardIn(infos, f, x) = <<>>
<1> DEFINE v == HeardOne(f, x)
           q == Mapped(v, infos)
<1>1. v \in [InfoSet -> Seq(Pieces)] /\ <<>> \in Seq(InfoSet)
  BY HeardOneType
<1>2. q \in Seq(Seq(Pieces)) /\ Len(q) = Len(infos)
  <2> HIDE DEF v
  <2>1. \A S, T : v \in [S -> T] => \A c \in Seq(S) : Mapped(v, c) \in Seq(T)
    BY MappedConcat
  <2>2. \A c \in Seq(InfoSet) : Mapped(v, c) \in Seq(Seq(Pieces))
    BY <1>1, <2>1
  <2>3. Len(q) = Len(infos)
    <3>1. Len(infos) \in Nat
      OBVIOUS
    <3> QED
      BY <3>1 DEF Mapped
  <2> QED
    BY <2>2, <2>3
<1>3. ASSUME NEW i \in 1 .. Len(infos) PROVE q[i] = <<>>
  <2>1. infos[i] \in InfoSet /\ infos[i].file # f
    BY DEF Mentions
  <2> QED
    BY <2>1 DEF HeardOne, Mapped
<1> HIDE DEF q
<1>4. FlattenSeq(q) = <<>>
  BY <1>2, <1>3, FlattenAllEmpty
<1> QED
  BY <1>4 DEF HeardIn, q

\* A file tells what its lines say, of itself.
LEMMA Tells ==
  ASSUME NEW f \in Files
  PROVE  /\ Told(f) \in Seq(InfoSet)
         /\ \A g : Mentions(Told(f), g) => g = f
         /\ \A x : HeardIn(Told(f), f, x) = Written(f, x)
<1> DEFINE tags == Reverse(TagsOf[f])
           told == [i \in 1 .. Len(tags) |-> [file |-> f, tag |-> tags[i]]]
<1>1. TagsOf[f] \in Seq(TagSet)
      /\ \A x : Said(tags, x) = FlattenSeq(Values(Contents[f].lines, x, Len(Contents[f].lines)))
  BY ProcessTags DEF ListSays
<1>2. tags \in Seq(TagSet)
  BY <1>1, ReverseType
<1>3. Told(f) = told
  BY DEF Told
<1>4. \A x : Written(f, x) = Said(tags, x)
  <2> HIDE DEF tags
  <2> SUFFICES ASSUME NEW x PROVE Written(f, x) = Said(tags, x)
    OBVIOUS
  <2>1. Written(f, x) = FlattenSeq(Values(Contents[f].lines, x, Len(Contents[f].lines)))
    BY DEF Written, Values, Counting, NamedLines
  <2> QED
    BY <1>1, <2>1 DEF tags
<1> HIDE DEF tags
<1>5. told \in Seq(InfoSet) /\ Len(told) = Len(tags)
      /\ \A i \in 1 .. Len(tags) : told[i].file = f /\ told[i].tag = tags[i] /\ told[i] \in InfoSet
  <2>1. \A i \in 1 .. Len(tags) : [file |-> f, tag |-> tags[i]] \in InfoSet
    BY <1>2 DEF InfoSet
  <2> QED
    BY <1>2, <2>1
<1> HIDE DEF told
<1>6. \A g : Mentions(told, g) => g = f
  BY <1>5 DEF Mentions
<1>7. ASSUME NEW x PROVE HeardIn(told, f, x) = Said(tags, x)
  <2>1. \A i \in 1 .. Len(tags) : HeardOne(f, x)[told[i]] = IF tags[i].name = x THEN tags[i].value ELSE <<>>
    BY <1>5 DEF HeardOne
  <2>2. Mapped(HeardOne(f, x), told) = Spoken(tags, x)
    BY <1>5, <2>1 DEF Mapped, Spoken
  <2> QED
    BY <2>2 DEF HeardIn, Said
<1> QED
  BY <1>3, <1>4, <1>5, <1>6, <1>7

-----------------------------------------------------------------------------
(* What a load has told, of the files it is past.                           *)

\* Where a file is between its tags and the end: what has been given, and calls
\* that will give it.
OnWay(call, f) == call.file = f /\ call.at \in {"lib", "target"}
Given(given, f) == {i \in 1 .. Len(given) : given[i] = f}
Called(s, f) == {k \in 1 .. Len(s) : OnWay(s[k], f)}
PlacesIn(given, called) == {<<"given", i>> : i \in given} \cup {<<"called", k>> : k \in called}

\* A file without a place has not told its tags, one with one place has told
\* them once.
Spoke(places, infos, f) ==
  /\ places = {} => ~Mentions(infos, f)
  /\ \A p \in places : places = {p} => \A x \in Names : HeardIn(infos, f, x) = Written(f, x)

TagsInv ==
  /\ want.info /\ want.nested => want.target
  /\ info \in Seq(InfoSet)
  /\ want.info /\ want.nested /\ result \in {"loading", "loaded"} =>
       \A f \in Files : Spoke(PlacesIn(Given(loaded, f), Called(stack, f)), info, f)

LEMMA PlaceMoves ==
  ASSUME NEW P, NEW infos, NEW f, Spoke(P, infos, f), NEW p \in P, NEW r, r \notin P
  PROVE  Spoke((P \ {p}) \cup {r}, infos, f)
<1> DEFINE Q == (P \ {p}) \cup {r}
<1>1. Q # {}
  OBVIOUS
<1>2. ASSUME NEW q \in Q, Q = {q} PROVE P = {p}
  <2>1. \A y \in P : y = p
    BY <1>2
  <2> QED
    BY <2>1
<1> QED
  BY <1>1, <1>2 DEF Spoke

LEMMA PlaceTells ==
  ASSUME NEW P, NEW infos \in Seq(InfoSet), NEW f \in Files, Spoke(P, infos, f), NEW r, r \notin P
  PROVE  Spoke(P \cup {r}, infos \o Told(f), f)
<1> DEFINE Q == P \cup {r}
<1>1. Told(f) \in Seq(InfoSet) /\ \A x : HeardIn(Told(f), f, x) = Written(f, x)
  BY Tells
<1>2. ASSUME NEW q \in Q, Q = {q}, NEW x \in Names PROVE HeardIn(infos \o Told(f), f, x) = Written(f, x)
  <2>1. P = {}
    <3>1. \A y \in P : y = q /\ r = q
      BY <1>2
    <3> QED
      BY <3>1
  <2>2. HeardIn(infos, f, x) = <<>>
    <3>1. ~Mentions(infos, f)
      BY <2>1 DEF Spoke
    <3> QED
      BY <3>1, NotMentioned
  <2> DEFINE told == Told(f)
             w == HeardIn(told, f, x)
  <2>3. told \in Seq(InfoSet) /\ w = Written(f, x)
    BY <1>1
  <2> HIDE DEF told
  <2>4. HeardIn(infos \o told, f, x) = HeardIn(infos, f, x) \o w /\ w \in Seq(Pieces)
    BY <2>3, HeardMore
  <2> HIDE DEF w
  <2>5. <<>> \o w = w
    BY <2>4, ConcatEmptySeq
  <2> QED
    BY <2>2, <2>3, <2>4, <2>5 DEF told
<1>3. Q # {}
  OBVIOUS
<1> QED
  BY <1>2, <1>3 DEF Spoke

LEMMA OtherTells ==
  ASSUME NEW P, NEW infos \in Seq(InfoSet), NEW f \in Files, NEW g, g # f, Spoke(P, infos, g)
  PROVE  Spoke(P, infos \o Told(f), g)
<1> DEFINE told == Told(f)
<1>1. told \in Seq(InfoSet) /\ ~Mentions(told, g)
  BY Tells
<1> HIDE DEF told
<1>2. Mentions(infos \o told, g) <=> Mentions(infos, g)
  BY <1>1, HeardMore
<1>3. ASSUME NEW x PROVE HeardIn(infos \o told, g, x) = HeardIn(infos, g, x)
  <2> DEFINE w == HeardIn(infos, g, x)
  <2>1. HeardIn(told, g, x) = <<>>
    BY <1>1, NotMentioned
  <2>2. HeardIn(infos \o told, g, x) = w \o HeardIn(told, g, x) /\ w \in Seq(Pieces)
    BY <1>1, HeardMore
  <2> HIDE DEF w
  <2>3. w \o <<>> = w
    BY <2>2, ConcatEmptySeq
  <2> QED
    BY <2>1, <2>2, <2>3 DEF w
<1> QED
  BY <1>2, <1>3 DEF Spoke, told

\* The innermost call changes, and may call another.
Continues(s, t, n) ==
  /\ n \in Nat \ {0} /\ Len(s) = n
  /\ Len(t) = n \/ (Len(t) = n + 1 /\ t[n + 1].at = "enter")
  /\ \A k \in 1 .. n - 1 : t[k] = s[k]

LEMMA CalledWhere ==
  ASSUME NEW s, NEW t, NEW n, NEW f, Continues(s, t, n)
  PROVE  /\ \A k : k # n => (k \in Called(t, f) <=> k \in Called(s, f))
         /\ n \in Called(t, f) <=> OnWay(t[n], f)
         /\ n \in Called(s, f) <=> OnWay(s[n], f)
<1>0. n \in Nat \ {0} /\ Len(s) = n /\ \A k \in 1 .. n - 1 : t[k] = s[k]
  BY DEF Continues
<1>1. \A k \in 1 .. n : k = n \/ k \in 1 .. n - 1
  BY <1>0
<1> DEFINE m == Len(t)
<1>2. m = n \/ m = n + 1
  BY DEF Continues
<1>3. m = n + 1 => t[n + 1].at = "enter"
  <2>1. n # n + 1
    BY <1>0
  <2> QED
    BY <2>1 DEF Continues
<1> HIDE DEF m
<1>4. 1 .. n \subseteq 1 .. m /\ n \in 1 .. n /\ ~(n \in 1 .. n - 1)
  BY <1>0, <1>2
<1>5. ASSUME NEW k \in 1 .. m PROVE k \in 1 .. n \/ (m = n + 1 /\ k = n + 1)
  <2>1. k \in 1 .. n \/ (m = n + 1 /\ k \in 1 .. n + 1)
    BY <1>2
  <2>2. k \in 1 .. n + 1 => k \in 1 .. n \/ k = n + 1
    BY <1>0
  <2> QED
    BY <2>1, <2>2
<1>6. \A k : k \in Called(t, f) <=> k \in 1 .. n /\ OnWay(t[k], f)
  BY <1>3, <1>4, <1>5 DEF Called, OnWay, m
<1>7. \A k : k \in Called(s, f) <=> k \in 1 .. n /\ OnWay(s[k], f)
  BY <1>0 DEF Called
<1>8. \A k : k \in 1 .. n /\ k # n => (k \in Called(t, f) <=> k \in Called(s, f))
  BY <1>0, <1>1, <1>6, <1>7
<1>9. \A k : k \in Called(t, f) \cup Called(s, f) => k \in 1 .. n
  BY <1>6, <1>7
<1>10. (n \in Called(t, f) <=> OnWay(t[n], f)) /\ (n \in Called(s, f) <=> OnWay(s[n], f))
  BY <1>4, <1>6, <1>7
<1> QED
  BY <1>8, <1>9, <1>10

LEMMA CalledSame ==
  ASSUME NEW s, NEW t, NEW n, NEW f, Continues(s, t, n), OnWay(t[n], f) <=> OnWay(s[n], f)
  PROVE  Called(t, f) = Called(s, f)
<1>0. /\ \A k : k # n => (k \in Called(t, f) <=> k \in Called(s, f))
      /\ n \in Called(t, f) <=> OnWay(t[n], f)
      /\ n \in Called(s, f) <=> OnWay(s[n], f)
  BY CalledWhere
<1>1. \A k : k \in Called(t, f) <=> k \in Called(s, f)
  BY <1>0
<1> QED
  BY <1>1

LEMMA CalledMore ==
  ASSUME NEW s, NEW t, NEW n, NEW f, Continues(s, t, n), OnWay(t[n], f), ~OnWay(s[n], f)
  PROVE  Called(t, f) = Called(s, f) \cup {n} /\ n \notin Called(s, f)
<1>0. /\ \A k : k # n => (k \in Called(t, f) <=> k \in Called(s, f))
      /\ n \in Called(t, f) <=> OnWay(t[n], f)
      /\ n \in Called(s, f) <=> OnWay(s[n], f)
  BY CalledWhere
<1>1. /\ \A k : k \in Called(t, f) <=> k = n \/ k \in Called(s, f)
      /\ n \notin Called(s, f)
  BY <1>0
<1> QED
  BY <1>1

LEMMA CalledLess ==
  ASSUME NEW s, NEW t, NEW n, NEW f, Continues(s, t, n), ~OnWay(t[n], f), OnWay(s[n], f)
  PROVE  Called(t, f) = Called(s, f) \ {n} /\ n \in Called(s, f)
<1>0. /\ \A k : k # n => (k \in Called(t, f) <=> k \in Called(s, f))
      /\ n \in Called(t, f) <=> OnWay(t[n], f)
      /\ n \in Called(s, f) <=> OnWay(s[n], f)
  BY CalledWhere
<1>1. /\ \A k : k \in Called(t, f) <=> k # n /\ k \in Called(s, f)
      /\ n \in Called(s, f)
  BY <1>0
<1> QED
  BY <1>1

\* The places of no file change.
LEMMA NothingTold ==
  ASSUME TagsInv, UNCHANGED <<want, info, loaded>>,
         result' \in {"loading", "loaded"} => result \in {"loading", "loaded"},
         \A f \in Files : Called(stack', f) = Called(stack, f)
  PROVE  TagsInv'
BY DEF TagsInv

LEMMA FailsTold == ASSUME TagsInv, UNCHANGED <<want, info>>, result' = "failing" PROVE TagsInv'
BY DEF TagsInv

LEMMA TopTold ==
  ASSUME LoadInv, TagsInv, stack # <<>>, UNCHANGED <<want, info, loaded, result>>,
         Continues(stack, stack', Len(stack)), stack'[Len(stack)].file = Top.file,
         stack'[Len(stack)].at \in {"lib", "target"} <=> Top.at \in {"lib", "target"}
  PROVE  TagsInv'
<1> DEFINE n == Len(stack)
<1>1. n \in Nat \ {0} /\ Top = stack[n]
  BY StackFacts
<1>2. ASSUME NEW f \in Files PROVE Called(stack', f) = Called(stack, f)
  <2> SUFFICES ASSUME NEW t, t = stack' PROVE Called(t, f) = Called(stack, f)
    OBVIOUS
  <2>1. Continues(stack, t, n) /\ (OnWay(t[n], f) <=> OnWay(stack[n], f))
    BY <1>1 DEF OnWay
  <2> QED
    BY <2>1, CalledSame
<1> QED
  BY <1>2, NothingTold

\* The innermost call goes on to p, or calls.
LEMMA Continuing ==
  ASSUME NEW s, NEW t, NEW n \in Nat \ {0}, Len(s) = n, Len(t) = n \/ (Len(t) = n + 1 /\ t[n + 1].at = "enter"),
         \A k \in 1 .. n - 1 : t[k] = s[k]
  PROVE  Continues(s, t, n)
BY DEF Continues

LEMMA TopContinues ==
  ASSUME LoadInv, stack # <<>>, Top.file \in Files, NEW p \in Stages \ {"enter"},
         \/ stack' = [stack EXCEPT ![Len(stack)].at = p]
         \/ \E m \in Numbers : stack' = [stack EXCEPT ![Len(stack)].at = p, ![Len(stack)].n = m]
         \/ \E g, m : m \in Numbers /\ CallFor(g, p, m)
  PROVE  Continues(stack, stack', Len(stack)) /\ stack'[Len(stack)].at = p /\ stack'[Len(stack)].file = Top.file
<1>1. Len(stack) \in Nat \ {0}
  BY StackFacts
<1>2. CASE \/ stack' = [stack EXCEPT ![Len(stack)].at = p]
           \/ \E m \in Numbers : stack' = [stack EXCEPT ![Len(stack)].at = p, ![Len(stack)].n = m]
  <2>1. /\ Len(stack') = Len(stack) /\ stack'[Len(stack)].at = p /\ stack'[Len(stack)].file = Top.file
        /\ \A k \in 1 .. Len(stack) - 1 : stack'[k] = stack[k]
    BY <1>2, TopMoves
  <2>2. Continues(stack, stack', Len(stack))
    <3> SUFFICES ASSUME NEW t, t = stack' PROVE Continues(stack, t, Len(stack))
      OBVIOUS
    <3> DEFINE n == Len(stack)
    <3>1. n \in Nat \ {0} /\ Len(t) = n /\ \A k \in 1 .. n - 1 : t[k] = stack[k]
      BY <1>1, <2>1
    <3>2. Continues(stack, t, n)
      BY <3>1, Continuing
    <3> QED
      BY <3>2
  <2> QED
    BY <2>1, <2>2
<1>3. CASE \E g, m : m \in Numbers /\ CallFor(g, p, m)
  <2>1. PICK g, m : m \in Numbers /\ CallFor(g, p, m)
    BY <1>3
  <2>2. /\ Len(stack') = Len(stack) + 1 /\ stack'[Len(stack) + 1] = Frame(g)
        /\ stack'[Len(stack)].at = p /\ stack'[Len(stack)].file = Top.file
        /\ \A k \in 1 .. Len(stack) - 1 : stack'[k] = stack[k]
    BY <2>1, TopCalls
  <2>3. Frame(g).at = "enter"
    BY DEF Frame
  <2> QED
    BY <1>1, <2>2, <2>3 DEF Continues
<1> QED
  BY <1>2, <1>3

LEMMA EntersTold == ASSUME LoadInv, TagsInv, Enter PROVE TagsInv'
<1>1. /\ result = "loading" /\ stack # <<>> /\ Top.at = "enter" /\ UNCHANGED <<want, info, loaded>>
      /\ \/ result' = "failing"
         \/ /\ Top.file \in Files /\ result' = result
            /\ stack' = [stack EXCEPT ![Len(stack)].at = "tags"]
  BY DEF Enter, Fails
<1>2. CASE result' = "failing"
  BY <1>1, <1>2, FailsTold
<1>3. CASE /\ Top.file \in Files /\ result' = result
           /\ stack' = [stack EXCEPT ![Len(stack)].at = "tags"]
  <2>1. "tags" \in Stages \ {"enter"}
    BY DEF Stages
  <2>2. Continues(stack, stack', Len(stack)) /\ stack'[Len(stack)].at = "tags" /\ stack'[Len(stack)].file = Top.file
    BY <1>1, <1>3, <2>1, TopContinues
  <2>3. UNCHANGED <<want, info, loaded, result>>
    BY <1>1, <1>3
  <2>4. stack'[Len(stack)].at \in {"lib", "target"} <=> Top.at \in {"lib", "target"}
    BY <1>1, <2>2
  <2> QED
    BY <1>1, <2>2, <2>3, <2>4, TopTold
<1> QED
  BY <1>1, <1>2, <1>3

LEMMA TagsTold == ASSUME LoadInv, TagsInv, Tags PROVE TagsInv'
<1> DEFINE n == Len(stack)
           top == Top.file
           told == Told(top)
<1>1. /\ result = "loading" /\ stack # <<>> /\ Top.at = "tags" /\ UNCHANGED <<want, loaded, result>>
      /\ info' = IF want.info /\ (depth = 1 \/ want.nested) THEN info \o told ELSE info
      /\ stack' = [stack EXCEPT ![n].at = IF want.target THEN "lib" ELSE "done"]
  BY DEF Tags
<1>2. n \in Nat \ {0} /\ Top = stack[n] /\ top \in Files
  BY <1>1, StackFacts
<1>3. told \in Seq(InfoSet)
  BY <1>2, Tells
<1>4. info \in Seq(InfoSet) /\ info' \in Seq(InfoSet)
  <2>1. info \in Seq(InfoSet)
    BY DEF TagsInv
  <2> HIDE DEF told
  <2>2. info \o told \in Seq(InfoSet)
    BY <1>3, <2>1, ConcatProperties
  <2> QED
    BY <1>1, <2>1, <2>2
<1>5. CASE ~(want.info /\ want.nested)
  BY <1>1, <1>4, <1>5 DEF TagsInv
<1>6. CASE want.info /\ want.nested
  <2>1. want.target /\ info' = info \o told /\ stack' = [stack EXCEPT ![n].at = "lib"]
    BY <1>1, <1>6 DEF TagsInv
  <2>2. "lib" \in Stages \ {"enter"}
    BY DEF Stages
  <2>3. Continues(stack, stack', n) /\ stack'[n].at = "lib" /\ stack'[n].file = top
    <3> HIDE DEF told
    <3> QED
      BY <1>1, <1>2, <2>1, <2>2, TopContinues
  <2> HIDE DEF n
  <2>4. ASSUME NEW f \in Files
        PROVE Spoke(PlacesIn(Given(loaded, f), Called(stack', f)), info \o told, f)
    <3> DEFINE P == PlacesIn(Given(loaded, f), Called(stack, f))
    <3>1. Spoke(P, info, f)
      BY <1>1, <1>6 DEF TagsInv
    <3> SUFFICES ASSUME NEW t, t = stack'
                 PROVE  Spoke(PlacesIn(Given(loaded, f), Called(t, f)), info \o told, f)
      OBVIOUS
    <3>2. Continues(stack, t, n) /\ ~OnWay(stack[n], f) /\ (OnWay(t[n], f) <=> f = top)
      BY <1>1, <1>2, <2>3 DEF n, OnWay
    <3>3. CASE f = top
      <4>1. Called(t, f) = Called(stack, f) \cup {n} /\ n \notin Called(stack, f)
        BY <3>2, <3>3, CalledMore
      <4>2. PlacesIn(Given(loaded, f), Called(t, f)) = P \cup {<<"called", n>>} /\ <<"called", n>> \notin P
        BY <4>1 DEF PlacesIn
      <4> HIDE DEF P
      <4> QED
        BY <1>4, <3>1, <3>3, <4>2, PlaceTells
    <3>4. CASE f # top
      <4>1. OnWay(t[n], f) <=> OnWay(stack[n], f)
        BY <3>2, <3>4
      <4>2. Called(t, f) = Called(stack, f)
        BY <3>2, <4>1, CalledSame
      <4> HIDE DEF P
      <4>3. Spoke(P, info \o told, f)
        BY <1>2, <1>4, <3>1, <3>4, OtherTells
      <4> QED
        BY <4>2, <4>3 DEF P
    <3> QED
      BY <3>3, <3>4
  <2> QED
    BY <1>1, <1>4, <1>6, <2>1, <2>4 DEF TagsInv
<1> QED
  BY <1>5, <1>6

LEMMA BaseLibTold == ASSUME LoadInv, TagsInv, BaseLib PROVE TagsInv'
<1>1. /\ result = "loading" /\ stack # <<>> /\ Top.at = "lib" /\ UNCHANGED <<want, info, loaded, result>>
      /\ IF HasLib(Top.file, 1)
         THEN CallFor(Lib(Top.file, 1), "target", 1)
         ELSE stack' = [stack EXCEPT ![Len(stack)].at = "target", ![Len(stack)].n = 1]
  BY DEF BaseLib
<1>2. "target" \in Stages \ {"enter"} /\ 1 \in Numbers /\ Top.file \in Files
  BY <1>1, LibsThere, StackFacts DEF Stages, Numbers
<1>3. Continues(stack, stack', Len(stack)) /\ stack'[Len(stack)].at = "target" /\ stack'[Len(stack)].file = Top.file
  <2>1. \/ \E m \in Numbers : stack' = [stack EXCEPT ![Len(stack)].at = "target", ![Len(stack)].n = m]
        \/ \E g, m : m \in Numbers /\ CallFor(g, "target", m)
    BY <1>1, <1>2
  <2> QED
    BY <1>1, <1>2, <2>1, TopContinues
<1>4. stack'[Len(stack)].at \in {"lib", "target"} <=> Top.at \in {"lib", "target"}
  BY <1>1, <1>3
<1> QED
  BY <1>1, <1>3, <1>4, TopTold

LEMMA NextLibTold == ASSUME LoadInv, TagsInv, NextLib PROVE TagsInv'
<1>1. /\ result = "loading" /\ stack # <<>> /\ Top.at = "next" /\ UNCHANGED <<want, info, loaded, result>>
      /\ IF HasLib(Top.file, Top.n)
         THEN CallFor(Lib(Top.file, Top.n), "next", Top.n + 1)
         ELSE stack' = [stack EXCEPT ![Len(stack)].at = "done"]
  BY DEF NextLib
<1>2. /\ "next" \in Stages \ {"enter"} /\ "done" \in Stages \ {"enter"}
      /\ Top.file \in Files /\ Top.n \in Numbers
  BY <1>1, StackFacts DEF Stages
<1>3. /\ Continues(stack, stack', Len(stack)) /\ stack'[Len(stack)].at \in {"next", "done"}
      /\ stack'[Len(stack)].file = Top.file
  <2>1. CASE HasLib(Top.file, Top.n)
    <3>1. Top.n <= Len(LibNames)
      BY <2>1 DEF HasLib
    <3>2. Top.n + 1 \in Numbers
      BY <1>2, <3>1, LibsThere DEF Numbers
    <3>3. \E g, m : m \in Numbers /\ CallFor(g, "next", m)
      BY <1>1, <2>1, <3>2
    <3> QED
      BY <1>1, <1>2, <3>3, TopContinues
  <2>2. CASE ~HasLib(Top.file, Top.n)
    <3>1. stack' = [stack EXCEPT ![Len(stack)].at = "done"]
      BY <1>1, <2>2
    <3> QED
      BY <1>1, <1>2, <3>1, TopContinues
  <2> QED
    BY <2>1, <2>2
<1>4. stack'[Len(stack)].at \in {"lib", "target"} <=> Top.at \in {"lib", "target"}
  BY <1>1, <1>3
<1> QED
  BY <1>1, <1>3, <1>4, TopTold

LEMMA TargetTold == ASSUME LoadInv, TagsInv, NEW accepted, LoadTarget(accepted) PROVE TagsInv'
<1> DEFINE n == Len(stack)
           top == Top.file
<1>1. /\ result = "loading" /\ stack # <<>> /\ Top.at = "target" /\ UNCHANGED <<want, info>>
      /\ IF accepted
         THEN /\ loaded' = Append(loaded, top) /\ UNCHANGED result
              /\ stack' = [stack EXCEPT ![n].at = "next", ![n].n = 2]
         ELSE result' = "failing"
  BY DEF LoadTarget, AtTarget, Fails
<1>2. n \in Nat \ {0} /\ Top = stack[n] /\ top \in Files /\ loaded \in Seq(Files)
  BY <1>1, StackFacts DEF LoadInv
<1>3. CASE ~accepted
  BY <1>1, <1>3, FailsTold
<1>4. CASE accepted
  <2>1. loaded' = Append(loaded, top) /\ result' = result /\ Moved(stack', "next", 2)
        /\ "next" \in Stages /\ 2 \in Numbers
    BY <1>1, <1>4, LibsThere DEF Moved, Stages, Numbers
  <2>2. Continues(stack, stack', n) /\ stack'[n].at = "next" /\ stack'[n].file = top
    <3>1. "next" \in Stages \ {"enter"}
      BY DEF Stages
    <3>2. \E m \in Numbers : stack' = [stack EXCEPT ![n].at = "next", ![n].n = m]
      BY <2>1 DEF Moved
    <3> QED
      BY <1>1, <1>2, <3>1, <3>2, TopContinues
  <2> DEFINE m == Len(loaded) + 1
  <2>3. ASSUME NEW f \in Files
        PROVE  Given(loaded', f) = Given(loaded, f) \cup (IF f = top THEN {m} ELSE {}) /\ m \notin Given(loaded, f)
    <3>1. /\ Len(loaded) \in Nat /\ Len(loaded') = m /\ loaded'[m] = top
          /\ \A i \in 1 .. Len(loaded) : loaded'[i] = loaded[i]
      BY <1>2, <2>1
    <3> HIDE DEF top
    <3>2. \A i : i \in 1 .. m <=> i \in 1 .. Len(loaded) \/ i = m
      BY <3>1
    <3>3. m \notin 1 .. Len(loaded)
      BY <3>1
    <3> HIDE DEF m
    <3> QED
      BY <3>1, <3>2, <3>3 DEF Given
  <2> HIDE DEF n, m
  <2>4. ASSUME NEW f \in Files, result \in {"loading", "loaded"}, want.info /\ want.nested
        PROVE  Spoke(PlacesIn(Given(loaded', f), Called(stack', f)), info, f)
    <3> DEFINE P == PlacesIn(Given(loaded, f), Called(stack, f))
               p == <<"called", n>>
               r == <<"given", m>>
    <3>1. Spoke(P, info, f)
      BY <2>4 DEF TagsInv
    <3> SUFFICES ASSUME NEW t, t = stack', NEW given, given = Given(loaded', f)
                 PROVE  Spoke(PlacesIn(given, Called(t, f)), info, f)
      OBVIOUS
    <3>2. /\ Continues(stack, t, n) /\ ~OnWay(t[n], f)
          /\ (OnWay(stack[n], f) <=> f = top)
      BY <1>1, <1>2, <2>2 DEF n, OnWay
    <3>3. CASE f = top
      <4>1. Called(t, f) = Called(stack, f) \ {n} /\ n \in Called(stack, f)
        BY <3>2, <3>3, CalledLess
      <4>2. given = Given(loaded, f) \cup {m} /\ m \notin Given(loaded, f)
        BY <2>3, <3>3
      <4>3. PlacesIn(given, Called(t, f)) = (P \ {p}) \cup {r} /\ p \in P /\ r \notin P
        BY <4>1, <4>2 DEF PlacesIn
      <4> HIDE DEF P, p, r
      <4> QED
        BY <3>1, <4>3, PlaceMoves
    <3>4. CASE f # top
      <4>1. OnWay(t[n], f) <=> OnWay(stack[n], f)
        BY <3>2, <3>4
      <4>2. Called(t, f) = Called(stack, f)
        BY <3>2, <4>1, CalledSame
      <4>3. given = Given(loaded, f)
        BY <2>3, <3>4
      <4> QED
        BY <3>1, <4>2, <4>3
    <3> QED
      BY <3>3, <3>4
  <2> QED
    BY <1>1, <2>1, <2>4 DEF TagsInv
<1> QED
  BY <1>3, <1>4

LEMMA ReturnsTold == ASSUME LoadInv, TagsInv, Returns PROVE TagsInv'
<1> DEFINE n == Len(stack)
<1>1. /\ stack # <<>> /\ stack' = Front(stack) /\ UNCHANGED <<want, info, loaded>>
      /\ (result = "loading" /\ Top.at = "done") \/ result = "failing"
      /\ result' = IF n > 1 THEN result ELSE IF result = "loading" THEN "loaded" ELSE "failed"
  BY DEF Returns
<1>2. n \in Nat \ {0} /\ Top = stack[n]
  BY <1>1, StackFacts
<1>3. CASE result = "failing"
  <2>1. result' \in {"failing", "failed"}
    BY <1>1, <1>3
  <2> QED
    BY <1>1, <2>1 DEF TagsInv
<1>4. CASE result = "loading" /\ Top.at = "done"
  <2>1. Len(stack') = n - 1 /\ \A k \in 1 .. n - 1 : stack'[k] = stack[k]
    <3>1. PICK names : stack \in Seq(FramesOf(names))
      BY DEF LoadInv, StackInv
    <3> DEFINE S == FramesOf(names)
    <3>2. stack \in Seq(S) /\ stack # <<>>
      BY <1>1, <3>1
    <3> HIDE DEF S
    <3>3. Len(Front(stack)) = n - 1
      BY <3>2, FrontLast
    <3>4. \A k \in 1 .. n - 1 : Front(stack)[k] = stack[k]
      BY <1>2, <3>2 DEF Front
    <3> QED
      BY <1>1, <3>3, <3>4
  <2>2. \A k : k \in 1 .. n <=> k \in 1 .. n - 1 \/ k = n
    BY <1>2
  <2>3. ASSUME NEW f \in Files PROVE Called(stack', f) = Called(stack, f)
    <3>1. ~OnWay(stack[n], f)
      BY <1>2, <1>4 DEF OnWay
    <3> SUFFICES ASSUME NEW t, t = stack' PROVE Called(t, f) = Called(stack, f)
      OBVIOUS
    <3>2. Len(t) = n - 1 /\ \A k \in 1 .. n - 1 : t[k] = stack[k]
      BY <2>1
    <3>3. Called(t, f) = {k \in 1 .. n - 1 : OnWay(stack[k], f)}
      BY <3>2 DEF Called
    <3>4. Called(stack, f) = {k \in 1 .. n : OnWay(stack[k], f)}
      BY DEF Called
    <3> QED
      BY <2>2, <3>1, <3>3, <3>4
  <2> QED
    BY <1>1, <1>4, <2>3, NothingTold
<1> QED
  BY <1>1, <1>3, <1>4

LEMMA BeginsTold ==
  ASSUME NEW f, NEW version, NEW callbacks \in {NoCallbacks, AllCallbacks, NoTags}, psf_load(f, version, callbacks)
  PROVE  TagsInv'
<1>1. /\ stack' = <<Frame(f)>> /\ want' = callbacks /\ info' = <<>> /\ loaded' = <<>>
      /\ Frame(f).at = "enter"
  BY DEF psf_load, Frame
<1>2. callbacks.info /\ callbacks.nested => callbacks.target
  BY DEF NoCallbacks, AllCallbacks, NoTags
<1>3. info' \in Seq(InfoSet)
  BY <1>1
<1>4. ASSUME NEW g \in Files PROVE Spoke(PlacesIn(Given(loaded', g), Called(stack', g)), info', g)
  <2>1. Given(<<>>, g) = {} /\ ~Mentions(<<>>, g)
    BY DEF Given, Mentions
  <2>2. Called(<<Frame(f)>>, g) = {}
    <3> DEFINE t == <<Frame(f)>>
    <3>1. Len(t) = 1 /\ t[1].at = "enter" /\ \A k \in 1 .. 1 : k = 1
      BY <1>1
    <3> HIDE DEF t
    <3>2. Called(t, g) = {}
      BY <3>1 DEF Called, OnWay
    <3> QED
      BY <3>2 DEF t
  <2>3. PlacesIn(Given(loaded', g), Called(stack', g)) = {}
    BY <1>1, <2>1, <2>2 DEF PlacesIn
  <2> QED
    BY <1>1, <2>1, <2>3 DEF Spoke
<1> QED
  BY <1>1, <1>2, <1>3, <1>4 DEF TagsInv

LEMMA TagsAlways == Spec => []TagsInv
<1>1. Init => TagsInv
  BY DEF Init, NotLoading, TagsInv
<1>2. LoadInv /\ TagsInv /\ [Next]_vars => TagsInv'
  <2> SUFFICES ASSUME LoadInv, TagsInv, [Next]_vars PROVE TagsInv'
    OBVIOUS
  <2>1. CASE UNCHANGED psfvars
    BY <2>1 DEF psfvars, TagsInv
  <2>2. CASE LoadStep \/ \E accepted : LoadTarget(accepted)
    <3>1. CASE BadBody
      <4>1. UNCHANGED <<want, info>> /\ result' = "failing"
        BY <3>1 DEF BadBody, Fails
      <4> QED
        BY <4>1, FailsTold
    <3> QED
      BY <2>2, <3>1, EntersTold, TagsTold, BaseLibTold, NextLibTold, TargetTold, ReturnsTold DEF LoadStep
  <2>3. CASE \E f, version : \E callbacks \in {NoCallbacks, AllCallbacks, NoTags} :
               psf_load(f, version, callbacks)
    BY <2>3, BeginsTold
  <2> QED
    BY <2>1, <2>2, <2>3 DEF Next, psf_load_steps, psf1Loader, psf2fs_load_callback, Probed, Starts, openFile,
       setPosition, Load, vars
<1> QED
  BY <1>1, <1>2, LoadAlways, PTL DEF Spec

\* However lines are joined and values split (psflib.c:190-359), and however
\* the files name each other, a file that was loaded once has told each value
\* of its tags once, in the order of its lines, and no file that was not loaded
\* has told any.
THEOREM TellsTags == Spec => []TagsInOrder
<1>1. LoadInv /\ TagsInv => TagsInOrder
  <2> SUFFICES ASSUME LoadInv, TagsInv, result = "loaded", want.info, want.nested
               PROVE  /\ \A f \in Range(loaded) :
                           Cardinality({i \in 1 .. Len(loaded) : loaded[i] = f}) = 1 =>
                             \A name \in {line.name : line \in Range(Contents[f].lines)} :
                               Heard(f, name) = Written(f, name)
                      /\ {i.file : i \in Range(info)} \subseteq Range(loaded)
    BY DEF TagsInOrder
  <2>1. stack = <<>> /\ loaded \in Seq(Files) /\ info \in Seq(InfoSet)
    BY DEF LoadInv, TagsInv
  <2>2. \A f \in Files : Called(stack, f) = {}
    BY <2>1 DEF Called
  <2>3. ASSUME NEW f \in Files
        PROVE  Spoke({<<"given", i>> : i \in Given(loaded, f)}, info, f)
    <3>1. Spoke(PlacesIn(Given(loaded, f), Called(stack, f)), info, f)
      BY DEF TagsInv
    <3>2. PlacesIn(Given(loaded, f), Called(stack, f)) = {<<"given", i>> : i \in Given(loaded, f)}
      BY <2>2 DEF PlacesIn
    <3> QED
      BY <3>1, <3>2
  <2>4. ASSUME NEW f \in Range(loaded), Cardinality({i \in 1 .. Len(loaded) : loaded[i] = f}) = 1,
               NEW name \in {line.name : line \in Range(Contents[f].lines)}
        PROVE  Heard(f, name) = Written(f, name)
    <3>1. f \in Files
      <4>1. PICK i \in 1 .. Len(loaded) : f = loaded[i]
        BY <2>1, <2>4 DEF Range
      <4> QED
        BY <2>1, <4>1
    <3>2. name \in Names
      BY <2>4, <3>1 DEF Names, Lines
    <3>3. IsFiniteSet(Given(loaded, f))
      <4>1. IsFiniteSet(1 .. Len(loaded))
        BY <2>1, FS_Interval
      <4>2. Given(loaded, f) \in SUBSET (1 .. Len(loaded))
        BY DEF Given
      <4> QED
        BY <4>1, <4>2, FS_Subset
    <3>4. Cardinality(Given(loaded, f)) = 1
      BY <2>4 DEF Given
    <3>5. PICK i : Given(loaded, f) = {i}
      BY <3>3, <3>4, FS_Singleton
    <3>6. {<<"given", k>> : k \in Given(loaded, f)} = {<<"given", i>>}
      BY <3>5
    <3>7. HeardIn(info, f, name) = Written(f, name)
      BY <2>3, <3>1, <3>2, <3>6 DEF Spoke
    <3> QED
      BY <2>1, <3>7, HeardIs
  <2>5. ASSUME NEW i \in Range(info) PROVE i.file \in Range(loaded)
    <3>1. PICK k \in 1 .. Len(info) : info[k] = i
      BY <2>1, <2>5 DEF Range
    <3>2. i.file \in Files /\ Mentions(info, i.file)
      <4>1. info[k] \in InfoSet
        BY <2>1
      <4> QED
        BY <3>1, <4>1 DEF InfoSet, Mentions
    <3>3. Given(loaded, i.file) # {}
      <4>1. {<<"given", j>> : j \in Given(loaded, i.file)} # {}
        BY <2>3, <3>2 DEF Spoke
      <4> QED
        BY <4>1
    <3> QED
      BY <2>1, <3>3 DEF Given, Range
  <2> QED
    BY <2>4, <2>5
<1> QED
  BY <1>1, LoadAlways, TagsAlways, PTL

=============================================================================
