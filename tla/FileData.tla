------------------------------ MODULE FileData ------------------------------
(***************************************************************************)
(* The contents of a file: extents, block allocation, read, write and      *)
(* truncate of kernel/fs/graphfs_core.c, and the offset of an open file    *)
(* (gfsf_read, gfsf_write and gfsf_lseek of kernel/fs/vfs.c).              *)
(*                                                                         *)
(* One file on a disk whose other blocks are taken or free.  An operation  *)
(* runs under fs_lock and commits everything or nothing (GfsTxn), so it is *)
(* a function from the committed state to a return code and the next one.  *)
(* A data block is written whole before anything points to it, so blocks   *)
(* that the file does not map have no contents here.                       *)
(***************************************************************************)
EXTENDS Integers, Sequences, FiniteSets, FiniteSetsExt, Functions

CONSTANTS BlockSize,  \* GFS_BLOCK_SIZE
          MaxBlocks,  \* GFS_MAX_FILE_BLOCKS
          Inline,     \* GFS_INLINE_EXTENTS
          NBlocks,    \* blocks of the data area, numbered from 1
          Others,     \* the sets of blocks that other files may occupy
          Data,       \* byte sequences that are written
          ReadLens,   \* lengths that are read
          Seeks,      \* positions that are sought
          MaxGen      \* bound on the transactions committed

FileDataAssumption ==
  /\ BlockSize \in Nat \ {0} /\ MaxBlocks \in Nat \ {0} /\ Inline \in Nat \ {0}
  /\ NBlocks \in Nat /\ \A o \in Others : o \subseteq 3..NBlocks

Block == 1..NBlocks
MaxSize == MaxBlocks * BlockSize
Lbn == 0..(MaxBlocks - 1)

VARIABLES fs,      \* the committed state
          off,     \* f->off of the open description
          append,  \* was it opened with O_APPEND?
          got,     \* what a read has just returned
          other,   \* the blocks of other files
          gen      \* fs->generation

vars == <<fs, off, append, got, other, gen>>

Extent(logical, phys, len) == [logical |-> logical, phys |-> phys, len |-> len]
Zeros(n) == [i \in 1..n |-> 0]
BlocksFor(size) == (size + BlockSize - 1) \div BlockSize

\* An empty file; the node map is in block 1 and its table in block 2.
Init == /\ other \in Others
        /\ fs = [size |-> 0, ext |-> <<>>, disk |-> <<>>,
                 map |-> 1, table |-> 2, committed |-> {1, 2} \cup other]
        /\ off = 0 /\ append \in BOOLEAN /\ got = <<>> /\ gen = 0

-----------------------------------------------------------------------------
(* Blocks                                                                  *)

\* The first block free in both bitmaps, or 0 for GFS_ENOSPC.
alloc_block(committed, working) ==
  LET free == Block \ (committed \cup working) IN IF free = {} THEN 0 ELSE Min(free)

alloc_near(committed, working, hint) ==
  IF hint \in Block \ (committed \cup working) THEN hint ELSE alloc_block(committed, working)

\* The block a logical block is in, or 0 for a hole.
bmap(ext, lbn) ==
  LET in == {k \in DOMAIN ext : ext[k].logical <= lbn /\ lbn < ext[k].logical + ext[k].len}
  IN IF in = {} THEN 0 ELSE LET e == ext[Min(in)] IN e.phys + (lbn - e.logical)

Mapped(ext) == {bmap(ext, lbn) : lbn \in Lbn} \ {0}

Fail(rc, s) == [rc |-> rc, s |-> s]

\* Faulty: the metadata blocks that were replaced stay marked.
Bug_Commit_keeps(s, working, size, ext, disk) ==
  LET table == alloc_block(s.committed, working)
      map == alloc_block(s.committed, working \cup {table})
  IN IF table = 0 \/ map = 0 THEN Fail("ENOSPC", s)
     ELSE [rc |-> "OK",
           s |-> [size |-> size, ext |-> ext, disk |-> Restrict(disk, Mapped(ext)),
                  map |-> map, table |-> table, committed |-> working \cup {table, map}]]

\* node_write and txn_commit: the record goes to a fresh table block, the
\* node map to a fresh block, and the old ones are free once it is published.
Commit(s, working, size, ext, disk) ==
  LET table == alloc_block(s.committed, working)
      w == (working \cup {table}) \ {s.table}
      map == alloc_block(s.committed, w)
  IN IF table = 0 \/ map = 0 THEN Fail("ENOSPC", s)
     ELSE [rc |-> "OK",
           s |-> [size |-> size, ext |-> ext, disk |-> Restrict(disk, Mapped(ext)),
                  map |-> map, table |-> table,
                  committed |-> (w \cup {map}) \ {s.map}]]

-----------------------------------------------------------------------------
(* Operations                                                              *)

\* The bytes from a position on, at most len, holes as zeros.
gfs_read(s, at, len) ==
  LET n == IF at >= s.size THEN 0 ELSE Min({len, s.size - at}) IN
  [i \in 1..n |-> LET pos == at + i - 1
                      phys == bmap(s.ext, pos \div BlockSize)
                  IN IF phys = 0 THEN 0 ELSE s.disk[phys][(pos % BlockSize) + 1]]

\* Faulty: blocks with a hole between them are joined.
Bug_Coalesce_holes(pmap, blocks) ==
  LET upto[n \in 0..blocks] ==
        IF n = 0 THEN <<>>
        ELSE LET ext == upto[n - 1]
                 lbn == n - 1
                 e == ext[Len(ext)]
             IN IF pmap[lbn] = 0 THEN ext
                ELSE IF ext # <<>> /\ e.phys + e.len = pmap[lbn]
                THEN [ext EXCEPT ![Len(ext)].len = @ + 1]
                ELSE Append(ext, Extent(lbn, pmap[lbn], 1))
  IN upto[blocks]

\* The extents of a physical map, adjacent blocks joined.
Coalesce(pmap, blocks) ==
  LET upto[n \in 0..blocks] ==
        IF n = 0 THEN <<>>
        ELSE LET ext == upto[n - 1]
                 lbn == n - 1
                 e == ext[Len(ext)]
             IN IF pmap[lbn] = 0 THEN ext
                ELSE IF ext # <<>> /\ e.logical + e.len = lbn /\ e.phys + e.len = pmap[lbn]
                THEN [ext EXCEPT ![Len(ext)].len = @ + 1]
                ELSE Append(ext, Extent(lbn, pmap[lbn], 1))
  IN upto[blocks]

\* Copy on write: each block the range touches is merged with its old bytes,
\* or zeros, and goes to a fresh block, near the one before.
gfs_write(s, at, data) ==
  LET end == at + Len(data)
      size == Max({s.size, end})
      first == at \div BlockSize
      last == (end - 1) \div BlockSize
      old == [lbn \in Lbn |-> bmap(s.ext, lbn)]
      merged(lbn) == [i \in 1..BlockSize |->
        LET pos == lbn * BlockSize + i - 1 IN
        IF at <= pos /\ pos < end THEN data[pos - at + 1]
        ELSE IF old[lbn] = 0 THEN 0 ELSE s.disk[old[lbn]][i]]
      \* the working bitmap, map and disk after the blocks up to lbn
      step[lbn \in (first - 1)..last] ==
        IF lbn < first THEN [working |-> s.committed, pmap |-> old, disk |-> s.disk, hint |-> 0]
        ELSE LET w == step[lbn - 1]
                 np == alloc_near(s.committed, w.working, w.hint)
             IN [working |-> (w.working \cup {np}) \ {old[lbn]},
                 pmap |-> [w.pmap EXCEPT ![lbn] = np],
                 disk |-> [b \in DOMAIN w.disk \cup {np} |->
                             IF b = np THEN merged(lbn) ELSE w.disk[b]],
                 hint |-> np + 1]
      ext == Coalesce(step[last].pmap, BlocksFor(size))
  IN IF data = <<>> THEN Fail("OK", s)
     ELSE IF end > MaxSize THEN Fail("EFBIG", s)
     ELSE IF Cardinality(Block \ s.committed) < last - first + 1 + 2 THEN Fail("ENOSPC", s)
     ELSE IF Len(ext) > Inline THEN Fail("EFRAG", s)
     ELSE Commit(s, step[last].working, size, ext, step[last].disk)

\* The extents of the first blocks: later ones dropped, the last one trimmed.
Trim(ext, keep) ==
  LET kept == SelectSeq(ext, LAMBDA e : e.logical < keep) IN
  [k \in DOMAIN kept |-> [kept[k] EXCEPT !.len = Min({@, keep - kept[k].logical})]]

\* Faulty: the bytes after the new end stay in the last block.
Bug_gfs_truncate_stale(s, size) ==
  LET ext == Trim(s.ext, BlocksFor(size)) IN
  IF size > MaxSize THEN Fail("EFBIG", s)
  ELSE IF size = s.size THEN Fail("OK", s)
  ELSE Commit(s, s.committed \ (Mapped(s.ext) \ Mapped(ext)), size, ext, s.disk)

\* A shorter file gives back its blocks past the end, and the tail of its
\* last block is zeroed, in a copy.  A longer one only changes its size.
gfs_truncate(s, size) ==
  LET ext == IF size < s.size THEN Trim(s.ext, BlocksFor(size)) ELSE s.ext
      working == s.committed \ (Mapped(s.ext) \ Mapped(ext))
      tail == size % BlockSize
      lbn == size \div BlockSize
      oldp == IF size < s.size /\ tail # 0 THEN bmap(ext, lbn) ELSE 0
      np == alloc_block(s.committed, working)
      zeroed == SubSeq(s.disk[oldp], 1, tail) \o Zeros(BlockSize - tail)
      n == Len(ext)
      repointed == IF ext[n].len = 1 THEN [ext EXCEPT ![n].phys = np]
                   ELSE Append([ext EXCEPT ![n].len = @ - 1], Extent(lbn, np, 1))
  IN IF size > MaxSize THEN Fail("EFBIG", s)
     ELSE IF size = s.size THEN Fail("OK", s)
     ELSE IF oldp = 0 THEN Commit(s, working, size, ext, s.disk)
     ELSE IF np = 0 THEN Fail("ENOSPC", s)
     ELSE IF Len(repointed) > Inline THEN Fail("EFRAG", s)
     ELSE Commit(s, (working \cup {np}) \ {oldp}, size, repointed,
                 [b \in DOMAIN s.disk \cup {np} |-> IF b = np THEN zeroed ELSE s.disk[b]])

-----------------------------------------------------------------------------
(* The calls on an open file                                               *)

\* Bound: transactions committed so far.
Bounded == gen < MaxGen

gfsf_read(len) ==
  LET r == gfs_read(fs, off, len) IN
  /\ got' = r
  /\ off' = off + Len(r)
  /\ UNCHANGED <<fs, append, other, gen>>

\* With O_APPEND the size is read and the bytes are written under one hold of
\* fs_lock.
gfsf_write(data) ==
  LET at == IF append THEN fs.size ELSE off
      r == gfs_write(fs, at, data)
  IN /\ Bounded
     /\ r.rc = "OK"
     /\ fs' = r.s
     /\ off' = at + Len(data)
     /\ gen' = gen + 1
     /\ got' = <<>>
     /\ UNCHANGED <<append, other>>

\* From the start, the offset or the end; a negative position is refused.
gfsf_lseek(base, by) ==
  /\ base + by >= 0
  /\ off' = base + by
  /\ got' = <<>>
  /\ UNCHANGED <<fs, append, other, gen>>

\* Opening with O_TRUNC, and the sizes the file system is asked for directly.
truncate(size) ==
  LET r == gfs_truncate(fs, size) IN
  /\ Bounded
  /\ r.rc = "OK"
  /\ fs' = r.s
  /\ gen' = gen + 1
  /\ got' = <<>>
  /\ UNCHANGED <<off, append, other>>

Next == \/ \E len \in ReadLens : gfsf_read(len)
        \/ \E data \in Data : gfsf_write(data)
        \/ \E base \in {0, off, fs.size}, by \in Seeks : base + by <= MaxSize /\ gfsf_lseek(base, by)
        \/ \E size \in 0..MaxSize : truncate(size)

Spec == Init /\ [][Next]_vars

-----------------------------------------------------------------------------
(* Properties                                                              *)

Plain == INSTANCE ByteArray WITH bytes <- gfs_read(fs, 0, fs.size)

\* Through the extents, the copies and the offset, the file is a sequence of
\* bytes: what was written is what is read, gaps and bytes cut off read as
\* zeros after growing again, and a failed call changes nothing.
IsByteArray == Plain!Spec

\* What gfs_fsck asks of data nodes and the bitmap: no block is mapped twice or
\* past the end, bytes after the end are zero, and exactly the blocks in use
\* are marked.  The extents are in order, which gfs_truncate relies on when it
\* repoints the last one (graphfs_core.c:1664).
FileSound ==
  LET ext == fs.ext
      blocks == {<<k, j>> \in (DOMAIN ext) \X Lbn : j < ext[k].len}
      phys(x) == ext[x[1]].phys + x[2]
      tail == fs.size % BlockSize
      lastp == bmap(ext, fs.size \div BlockSize)
  IN /\ Len(ext) <= Inline
     /\ \A k \in DOMAIN ext : ext[k].logical + ext[k].len <= BlocksFor(fs.size)
     /\ \A k \in 2..Len(ext) : ext[k - 1].logical + ext[k - 1].len <= ext[k].logical
     /\ tail # 0 /\ lastp # 0 => \A i \in (tail + 1)..BlockSize : fs.disk[lastp][i] = 0
     /\ fs.committed = {fs.map, fs.table} \cup other \cup {phys(x) : x \in blocks}
     /\ Cardinality(fs.committed) = 2 + Cardinality(other) + Cardinality(blocks)

\* A transaction copies before it frees, so a full disk could refuse the very
\* call that makes room.  It never refuses to empty a file: every commit frees
\* the two metadata blocks it replaced (the reserve of graphfs_core.c:1297).
CanEmpty == fs.size > 0 => gfs_truncate(fs, 0).rc = "OK"
=============================================================================
