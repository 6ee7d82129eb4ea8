------------------------------- MODULE PSF2FS -------------------------------
(***************************************************************************)
(* The file system of a PSF2 (src/PSFLib/PSFLib/psf2fs.c): archives laid   *)
(* over each other, read in blocks that are decompressed one at a time.    *)
(*                                                                         *)
(* A directory is given by its leaves: the paths, sequences of names as    *)
(* finddirentry compares them, of its files and its empty directories,     *)
(* which the code cannot tell from empty files.  A file is its data, a     *)
(* sequence of bytes, with the size of its blocks and the blocks that do   *)
(* not decompress.                                                         *)
(***************************************************************************)
EXTENDS Integers, Sequences, SequencesExt

CONSTANT Archives      \* Archives[f]: the directory in file f; of other files the
                       \* reserved section is none

VARIABLE fs            \* the file system; freed says that it points to lists
                       \* that have been freed

EmptyFS == [dir |-> <<>>, sources |-> <<>>, freed |-> FALSE]

psf2fs_create == fs' = EmptyFS

-----------------------------------------------------------------------------
(* Merging.                                                                *)

Within(p, q) == Len(p) < Len(q) /\ p = SubSeq(q, 1, Len(p))   \* q is somewhere in p
IsSubdir(dir, p) == \E q \in DOMAIN dir : Within(p, q)

\* A leaf is not in another one, and a file with data has blocks of some size
\* (psf2fs.c:199-209).
ASSUME ArchivesAssumption ==
  \A f \in DOMAIN Archives :
    /\ \A p, q \in DOMAIN Archives[f] : ~Within(p, q)
    /\ \A p \in DOMAIN Archives[f] :
         LET leaf == Archives[f][p]
         IN  /\ leaf.data \in Seq(Nat) /\ leaf.block_size \in Nat
             /\ leaf.data # <<>> => leaf.block_size # 0

\* makearchivedir: every entry points to its source.
makearchivedir(f) ==
  [p \in DOMAIN Archives[f] |-> [source |-> f, data |-> Archives[f][p].data,
                                 block_size |-> Archives[f][p].block_size, bad |-> Archives[f][p].bad]]

\* Slip: a directory of from replaces the file of to with its name.
mergedir_Replace(to, from) ==
  LET taken == {p \in DOMAIN from : ~IsSubdir(to, p)}
  IN  [p \in {q \in DOMAIN to : ~IsSubdir(from, q)} \cup taken |->
         IF p \in taken THEN from[p] ELSE to[p]]

\* mergedir: a file of from replaces that of to; where one has a directory
\* and the other a file, or an empty directory, that of to stays.
mergedir(to, from) ==
  LET taken == {p \in DOMAIN from : ~IsSubdir(to, p) /\ \A q \in DOMAIN to : ~Within(q, p)}
  IN  [p \in DOMAIN to \cup taken |-> IF p \in taken THEN from[p] ELSE to[p]]

\* addarchive: the archive is corrupt, or there is no memory.  The lists that
\* fs still points to are freed then, and nothing can be read of them.  (They
\* are freed once more when the file system is deleted; the model goes on as
\* if that did nothing.)
addarchive_fails == fs' = [dir |-> <<>>, sources |-> <<>>, freed |-> fs.sources # <<>>]

addarchive(f) ==
  fs' = [fs EXCEPT !.dir = mergedir(@, makearchivedir(f)), !.sources = Append(@, f)]

-----------------------------------------------------------------------------
(* Reading.                                                                *)

Error == "error"
Lesser(a, b) == IF a < b THEN a ELSE b

Block(file, k) == SubSeq(file.data, k * file.block_size + 1,
                         Lesser((k + 1) * file.block_size, Len(file.data)))

\* Slip: the place within the block is not looked at.
virtual_read_Whole(file, offset, length) ==
  LET n == Lesser(length, Len(file.data) - offset)
      read[done \in 0 .. n] ==
        IF done = n THEN <<>>
        ELSE LET block == Block(file, (offset + done) \div file.block_size)
                 canread == Lesser(Len(block), n - done)
             IN  SubSeq(block, 1, canread) \o read[done + canread]
  IN  IF offset >= Len(file.data) THEN <<>> ELSE read[0]

\* virtual_read: block after block.  The cache never holds one: from_source
\* is reset when a block is read and set nowhere.
virtual_read(file, offset, length) ==
  LET n == Lesser(length, Len(file.data) - offset)
      read[done \in 0 .. n] ==
        IF done = n THEN <<>>
        ELSE LET at == offset + done
                 block == Block(file, at \div file.block_size)
                 within == at % file.block_size
                 canread == Lesser(Len(block) - within, n - done)
             IN  SubSeq(block, within + 1, within + canread) \o read[done + canread]
  IN  IF offset >= Len(file.data) THEN <<>>
      ELSE IF \E k \in offset \div file.block_size .. (offset + n - 1) \div file.block_size : k \in file.bad
      THEN Error ELSE read[0]

\* psf2fs_virtual_readfile: 0 bytes ask for the length of the file.
psf2fs_virtual_readfile(path, offset, length) ==
  IF path \notin DOMAIN fs.dir THEN Error
  ELSE IF length = 0 THEN Len(fs.dir[path].data)
  ELSE virtual_read(fs.dir[path], offset, length)

-----------------------------------------------------------------------------
(* Properties.                                                             *)

Leaves(f) == DOMAIN Archives[f]
Clash(p, q) == Within(p, q) \/ Within(q, p)

\* What laying archives over each other comes to (psf2fs.c:269-308): a file is
\* that of the last archive that has it, and is lost only if an archive before
\* had a directory in place of the file, or a file in place of one of its
\* directories.  The file system stays a tree.
Overlaid ==
  /\ \A k \in 1 .. Len(fs.sources) : \A p \in Leaves(fs.sources[k]) :
       (\A j \in 1 .. k - 1 : \A q \in Leaves(fs.sources[j]) : ~Clash(p, q)) => p \in DOMAIN fs.dir
  /\ \A p \in DOMAIN fs.dir :
       LET having == {k \in 1 .. Len(fs.sources) : p \in Leaves(fs.sources[k])}
       IN  \E k \in having : /\ fs.dir[p].source = fs.sources[k]
                             /\ \A j \in having : j <= k
  /\ \A p, q \in DOMAIN fs.dir : ~Clash(p, q)

\* Whatever is asked for, a read gives the bytes of the file from the offset
\* on, as many as there are (psf2fs.c:374-456), or an error if some of them are
\* in a block that cannot be decompressed, and never bytes of another place.
ReadsSlice ==
  \A p \in DOMAIN fs.dir :
    LET file == fs.dir[p]
    IN  \A offset \in 0 .. Len(file.data) + 1, length \in 1 .. Len(file.data) + 1 :
          LET upto == Lesser(offset + length, Len(file.data))
              spoilt == \E i \in offset .. upto - 1 : i \div file.block_size \in file.bad
          IN  psf2fs_virtual_readfile(p, offset, length)
                = IF spoilt THEN Error ELSE SubSeq(file.data, offset + 1, upto)

=============================================================================
