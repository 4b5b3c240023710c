------------------------------- MODULE GfsTxn -------------------------------
(***************************************************************************)
(* Copy-on-write transactions of graphfs (kernel/fs/graphfs_core.c): the   *)
(* block allocator, node records, the commit, the mount, and crashes and   *)
(* I/O errors at every block write.                                        *)
(*                                                                         *)
(* The tree is two superblock slots, a node map, table blocks that hold    *)
(* the node records, and one block per node: a file's data or the root     *)
(* directory's edges.  Extents and edge chains longer than one block are   *)
(* left out.  A checksum is modelled by the contents it is computed from,  *)
(* so it matches exactly when the block holds what the parent says.  Data  *)
(* blocks have none.                                                       *)
(*                                                                         *)
(* An operation is a script of block writes, todo.  A block write succeeds,*)
(* fails with an error after which the block holds anything, or is cut     *)
(* short by a crash; a read that fails ends the operation.  Operations are *)
(* serialised by fs_lock, so there is one script at a time.                *)
(*                                                                         *)
(* Two faults of the device are chosen by constants, because the code does *)
(* not survive them: a superblock write that reports an error although it  *)
(* has landed, and a superblock that a mount cannot read, so that it takes *)
(* the other one.                                                          *)
(***************************************************************************)
EXTENDS Integers, Sequences, FiniteSets, FiniteSetsExt, Functions

CONSTANTS File,      \* data nodes, each known by one name in the root
          Root,      \* the root directory's node
          Value,     \* contents of a data block
          Table,     \* node table blocks, by index in the node map
          TableOf,   \* the table block of a node's record
          Absent, Empty,
          Torn,      \* a block that was not written to the end
          NBlocks,   \* blocks of the data area, numbered from 1
          MaxGen,    \* bound on the generations committed
          Ambiguous, \* may a superblock write that fails have landed?
          Unreadable \* may the read of a superblock fail at a mount?

Node == File \cup {Root}
Block == 1..NBlocks
Slots == {0, 1}

\* What a block pointer, a node record, a table block, the node map and a
\* superblock can hold.
Pointer(c) == [phys: Block \cup {0}, crc: c \cup {Torn}]
NodesOf(t) == {n \in Node : TableOf[n] = t}
NodeRecord == [type: {"FREE", "NAMESPACE", "DATA"}, bp: Pointer([names: SUBSET File])]
NodeMap == [Table -> Pointer(UNION {[NodesOf(t) -> NodeRecord] : t \in Table})]
Superblock == [gen: 0..MaxGen, nodemap: [phys: Block, crc: NodeMap], bm_crc: SUBSET Block]

ASSUME TxnAssumption ==
  /\ Root \notin File /\ TableOf \in [Node -> Table]
  /\ "map" \notin Table \cup Node /\ Table \cap Node = {}
  /\ Torn \notin Superblock
  /\ Absent \notin Value \cup {Empty} /\ Empty \notin Value /\ Torn \notin Value
  /\ NBlocks \in Nat /\ NBlocks >= 2 /\ MaxGen \in Nat \ {0}
  /\ Ambiguous \in BOOLEAN /\ Unreadable \in BOOLEAN

VARIABLES sb,        \* the superblock slots
          bitmap,    \* the two bitmap copies, as sets of blocks in use
          disk,      \* the data area
          pc,        \* "down", "idle", or inside an operation: "busy"
          gen,       \* fs->generation
          nodemap,   \* fs->nodemap: a block pointer
          committed, \* fs->committed_bm
          working,   \* fs->working_bm
          map,       \* fs->map
          recs,      \* the operation's struct disk_node variables
          todo       \* the steps the operation has left

ondisk == <<sb, bitmap, disk>>
memory == <<gen, nodemap, committed>>
txn == <<working, map, recs, todo>>
vars == <<ondisk, pc, memory, txn>>

\* A block pointer (struct gfs_bp) is a block and its checksum.
Ptr(b, c) == [phys |-> b, crc |-> c]
NoPtr == Ptr(0, Torn)

\* A node record: its type, and its one block (the head of the edges of a
\* namespace, the one extent of a data node).
Rec(type, bp) == [type |-> type, bp |-> bp]
Free == Rec("FREE", NoPtr)

\* Is the block what its parent's checksum says?
Intact(bp) == disk[bp.phys] = bp.crc

-----------------------------------------------------------------------------
(* The tree a node map pointer leads to                                    *)

RecordIn(m, n) == LET t == m[TableOf[n]] IN IF t.phys = 0 THEN Free ELSE t.crc[n]

Records(bp) == [n \in Node |-> RecordIn(bp.crc, n)]

\* Every block reached from the node map, once for each reference to it.
References(bp) ==
  LET tables == {t \in Table : bp.crc[t].phys # 0}
      nodes  == {n \in Node : RecordIn(bp.crc, n).bp.phys # 0}
  IN [x \in {"map"} \cup tables \cup nodes |->
        IF x = "map" THEN bp.phys
        ELSE IF x \in tables THEN bp.crc[x].phys ELSE RecordIn(bp.crc, x).bp.phys]

Reachable(bp) == Range(References(bp))

\* An edge block, and the names in the root directory's.
Edges(names) == [names |-> names]
NamesIn(m) == LET bp == RecordIn(m, Root).bp IN IF bp.phys = 0 THEN {} ELSE bp.crc.names

\* The names in the root and what the files hold: what a reader of the tree
\* sees.  A file's data is whatever its block holds.
Contents(bp) ==
  LET names == NamesIn(bp.crc)
      b(f) == RecordIn(bp.crc, f).bp.phys
  IN [f \in File |-> IF f \notin names THEN Absent
                     ELSE IF b(f) = 0 THEN Empty ELSE disk[b(f)]]

\* All metadata reads back with the checksum its parent holds.
TreeIntact(bp) ==
  /\ Intact(bp)
  /\ \A t \in Table : bp.crc[t].phys # 0 => Intact(bp.crc[t])
  /\ LET edges == RecordIn(bp.crc, Root).bp IN edges.phys # 0 => Intact(edges)

\* Faulty: takes the first slot that is valid.
Bug_first_valid(slots) == IF 0 \in slots /\ sb[0] # Torn THEN 0 ELSE 1

\* gfs_mount's choice among the slots that it could read: the valid
\* superblock of the highest generation.
Newest(slots) == CHOOSE s \in slots :
                   /\ sb[s] # Torn
                   /\ \A x \in slots : sb[x] # Torn => sb[x].gen <= sb[s].gen

\* The slot of the last commit.
LiveSlot == Newest(Slots)

-----------------------------------------------------------------------------
(* mkfs and mount                                                          *)

\* gfs_mkfs: an empty root, in both slots, as generations 0 and 1.
Init ==
  LET table == [n \in {n \in Node : TableOf[n] = TableOf[Root]} |->
                  IF n = Root THEN Rec("NAMESPACE", NoPtr) ELSE Free]
      m     == [t \in Table |-> IF t = TableOf[Root] THEN Ptr(2, table) ELSE NoPtr]
  IN /\ disk = [b \in Block |-> IF b = 1 THEN m ELSE IF b = 2 THEN table ELSE Torn]
     /\ sb = [s \in Slots |-> [gen |-> s, nodemap |-> Ptr(1, m), bm_crc |-> {1, 2}]]
     /\ bitmap = [s \in Slots |-> {1, 2}]
     /\ pc = "down"
     /\ gen = 0 /\ nodemap = NoPtr /\ committed = {} /\ working = {}
     /\ map = [t \in Table |-> NoPtr]
     /\ recs = [n \in Node |-> Free]
     /\ todo = <<>>

\* A slot whose read fails is passed over.  A writable mount fails when no
\* slot that was read is valid, and when the node map or the bitmap of the
\* slot it has chosen does not read back.
gfs_mount ==
  \E slots \in SUBSET Slots :
    LET s == sb[Newest(slots)] IN
    /\ pc = "down"
    /\ Unreadable \/ slots = Slots
    /\ \E x \in slots : sb[x] # Torn
    /\ Intact(s.nodemap)
    /\ bitmap[s.gen % 2] = s.bm_crc
    /\ pc' = "idle"
    /\ gen' = s.gen /\ nodemap' = s.nodemap
    /\ committed' = s.bm_crc /\ working' = s.bm_crc
    /\ map' = s.nodemap.crc
    /\ UNCHANGED <<ondisk, recs, todo>>

\* Memory is lost; variables of the mounted system keep no meaning.
Lost == /\ pc' = "down"
        /\ gen' = 0 /\ nodemap' = NoPtr /\ committed' = {} /\ working' = {}
        /\ map' = [t \in Table |-> NoPtr]
        /\ recs' = [n \in Node |-> Free]
        /\ todo' = <<>>

crash == pc # "down" /\ Lost /\ UNCHANGED ondisk

\* The operation returns an error; what was committed stays as it was.
Abort == /\ pc' = "idle"
         /\ recs' = [n \in Node |-> Free]
         /\ todo' = <<>>
         /\ UNCHANGED <<memory, working, map>>

-----------------------------------------------------------------------------
(* Blocks                                                                  *)

\* A block free in both bitmaps, so that nothing the committed tree reaches
\* is overwritten.
allocatable == Block \ (committed \cup working)

alloc_block == Min(allocatable)

\* free_block clears the bit in the working bitmap only.
free_block(bm, b) == bm \ {b}

Step(kind, node, c) == [kind |-> kind, node |-> node, c |-> c]
Commit == Step("map", Root, 0)
Doing(kind) == pc = "busy" /\ Head(todo).kind = kind

\* write_meta and bwrite to a block of the data area.  Done is what follows
\* when the write succeeds.
WriteTo(b, c, Done) ==
  \/ disk' = [disk EXCEPT ![b] = c] /\ Done
  \/ disk' = [disk EXCEPT ![b] = Torn] /\ Abort
  \/ disk' = [disk EXCEPT ![b] = Torn] /\ Lost

\* A node's data or edge block is written to a fresh block and the old one
\* freed.  A directory that becomes empty keeps no edge block.  The operation
\* ends when the old block cannot be read or no block is free.
put ==
  LET s == Head(todo)
      n == s.node
      b == alloc_block
      empty == n = Root /\ s.c = Edges({})
      old == recs[n].bp.phys
      Done(bm, bp) == /\ working' = free_block(bm, old)
                      /\ recs' = [recs EXCEPT ![n].bp = bp]
                      /\ todo' = Tail(todo)
                      /\ UNCHANGED <<pc, memory, map>>
  IN
  /\ Doing("put")
  /\ \/ /\ empty
        /\ Done(working, NoPtr)
        /\ UNCHANGED disk
     \/ Abort /\ UNCHANGED disk
     \/ /\ ~empty /\ allocatable # {}
        /\ WriteTo(b, s.c, Done(working \cup {b}, Ptr(b, IF n = Root THEN s.c ELSE Torn)))
  /\ UNCHANGED <<sb, bitmap>>

\* A node's table block is rewritten to a fresh block with the new record.  The
\* operation ends when the old one cannot be read or no block is free.
node_write ==
  LET n == Head(todo).node
      t == TableOf[n]
      table == [x \in {x \in Node : TableOf[x] = t} |->
                  IF x = n THEN recs[n] ELSE RecordIn(map, x)]
      b == alloc_block
  IN
  /\ Doing("node")
  /\ \/ Abort /\ UNCHANGED disk
     \/ /\ allocatable # {}
        /\ WriteTo(b, table, /\ working' = free_block(working \cup {b}, map[t].phys)
                             /\ map' = [map EXCEPT ![t] = Ptr(b, table)]
                             /\ todo' = Tail(todo)
                             /\ UNCHANGED <<pc, memory, recs>>)
  /\ UNCHANGED <<sb, bitmap>>

\* gfs_unlink at the last name: free the node's data blocks and the record.
reclaim ==
  LET n == Head(todo).node IN
  /\ Doing("reclaim")
  /\ working' = free_block(working, recs[n].bp.phys)
  /\ recs' = [recs EXCEPT ![n] = Free]
  /\ todo' = Tail(todo)
  /\ UNCHANGED <<ondisk, pc, memory, map>>

-----------------------------------------------------------------------------
(* Commit                                                                  *)

new_gen == gen + 1

\* Faulty: writes over the copies of the live generation.
Bug_parity_live == gen % 2

\* The bitmap copy and the superblock slot the live generation does not use.
parity == new_gen % 2

\* The new node map.
commit_map ==
  LET b == alloc_block IN
  /\ Doing("map")
  /\ \/ /\ allocatable = {} /\ Abort /\ UNCHANGED disk
     \/ /\ allocatable # {}
        /\ WriteTo(b, map, /\ working' = free_block(working \cup {b}, nodemap.phys)
                           /\ todo' = <<Step("bitmap", Root, b)>>
                           /\ UNCHANGED <<pc, memory, map, recs>>)
  /\ UNCHANGED <<sb, bitmap>>

\* write_bitmap, to the copy that the live generation does not use.
commit_bitmap ==
  /\ Doing("bitmap")
  /\ \/ /\ bitmap' = [bitmap EXCEPT ![parity] = working]
        /\ todo' = <<Step("sb", Root, Head(todo).c)>>
        /\ UNCHANGED <<pc, memory, working, map, recs>>
     \/ bitmap' = [bitmap EXCEPT ![parity] = Torn] /\ Abort
     \/ bitmap' = [bitmap EXCEPT ![parity] = Torn] /\ Lost
  /\ UNCHANGED <<sb, disk>>

\* Faulty: goes on with the old allocation bitmap.
Bug_commit_keeps_bitmap ==
  LET new == [gen |-> new_gen, nodemap |-> Ptr(Head(todo).c, map), bm_crc |-> working] IN
  /\ Doing("sb")
  /\ \/ /\ sb' = [sb EXCEPT ![parity] = new]
        /\ pc' = "idle"
        /\ gen' = new_gen /\ nodemap' = new.nodemap
        /\ recs' = [n \in Node |-> Free]
        /\ todo' = <<>>
        /\ UNCHANGED <<committed, working, map>>
     \/ sb' = [sb EXCEPT ![parity] = Torn] /\ (Abort \/ Lost)
  /\ UNCHANGED <<bitmap, disk>>

\* The superblock write is the atomic publish; memory adopts it afterwards.
\* A crash leaves the slot as it was, written or torn.
commit_sb ==
  LET new == [gen |-> new_gen, nodemap |-> Ptr(Head(todo).c, map), bm_crc |-> working] IN
  /\ Doing("sb")
  /\ \/ /\ sb' = [sb EXCEPT ![parity] = new]
        /\ pc' = "idle"
        /\ gen' = new_gen /\ nodemap' = new.nodemap /\ committed' = working
        /\ recs' = [n \in Node |-> Free]
        /\ todo' = <<>>
        /\ UNCHANGED <<working, map>>
     \/ /\ sb' \in {sb, [sb EXCEPT ![parity] = Torn]}
                     \cup (IF Ambiguous THEN {[sb EXCEPT ![parity] = new]} ELSE {})
        /\ Abort
     \/ sb' \in {[sb EXCEPT ![parity] = new], [sb EXCEPT ![parity] = Torn]} /\ Lost
  /\ UNCHANGED <<bitmap, disk>>

-----------------------------------------------------------------------------
(* The operations                                                          *)

Names == NamesIn(nodemap.crc)

\* txn_begin, and the script of the operation, which ends with the commit.
\* r are the records it starts from.
Begin(r, steps) ==
  /\ gen < MaxGen
  /\ Intact(nodemap)
  /\ pc' = "busy"
  /\ working' = committed
  /\ map' = nodemap.crc
  /\ recs' = r
  /\ todo' = steps
  /\ UNCHANGED <<ondisk, memory>>

\* gfs_create_at: the node is born linked.
gfs_create_at(f) ==
  /\ pc = "idle" /\ f \notin Names
  /\ Begin([Records(nodemap) EXCEPT ![f] = Rec("DATA", NoPtr)],
           <<Step("node", f, 0), Step("put", Root, Edges(Names \cup {f})), Step("node", Root, 0),
             Commit>>)

\* gfs_write of one block, for which it wants three free blocks.
gfs_write(f, v) ==
  /\ pc = "idle" /\ f \in Names
  /\ NBlocks - Cardinality(committed) >= 3
  /\ Begin(Records(nodemap), <<Step("put", f, v), Step("node", f, 0), Commit>>)

gfs_unlink(f) ==
  /\ pc = "idle" /\ f \in Names
  /\ Begin(Records(nodemap),
           <<Step("put", Root, Edges(Names \ {f})), Step("node", Root, 0),
             Step("reclaim", f, 0), Step("node", f, 0), Commit>>)

Next ==
  \/ gfs_mount \/ crash
  \/ \E f \in File : \/ gfs_create_at(f) \/ gfs_unlink(f)
                     \/ \E v \in Value : gfs_write(f, v)
  \/ put \/ node_write \/ reclaim
  \/ commit_map \/ commit_bitmap \/ commit_sb

Spec == Init /\ [][Next]_vars

-----------------------------------------------------------------------------
(* Properties                                                              *)

Live == sb[LiveSlot]

\* The bitmaps hold blocks, the generation counts, and a busy system has
\* steps left.
TypeOK ==
  /\ pc \in {"down", "idle", "busy"}
  /\ gen \in 0..MaxGen
  /\ committed \subseteq Block /\ working \subseteq Block
  /\ nodemap.phys \in Block \cup {0}
  /\ \A s \in Slots : bitmap[s] # Torn => bitmap[s] \subseteq Block
  /\ pc = "busy" <=> todo # <<>>

\* A crash at this moment, in the middle of anything, leaves a disk that
\* mounts: the live superblock's whole tree reads back with the checksums in
\* it, and so does its bitmap.  The code needs for this that neither of the
\* two faults happens: a superblock write that failed has not landed, and
\* mounts can read the live superblock.
CrashRecoverable ==
  /\ \E s \in Slots : sb[s] # Torn
  /\ TreeIntact(Live.nodemap)
  /\ bitmap[Live.gen % 2] = Live.bm_crc

\* What fsck checks of the live tree: no block is referenced twice, the
\* bitmap is exactly what is reachable, and the names are the nodes in use.
FsckClean ==
  LET bp == Live.nodemap
      refs == References(bp)
  IN /\ \A x, y \in DOMAIN refs : refs[x] = refs[y] => x = y
     /\ Live.bm_crc = Reachable(bp)
     /\ \A f \in File : RecordIn(bp.crc, f).type # "FREE" <=> Contents(bp)[f] # Absent

\* Memory is a superblock on the disk, the one in the slot that the next
\* commit does not write.
MemoryOnDisk ==
  pc # "down" => sb[gen % 2] = [gen |-> gen, nodemap |-> nodemap, bm_crc |-> committed]

\* A mounted system works on what was committed last: after every success,
\* failed read or write, and crash, the generation, the node map and the
\* bitmap in memory are those of the live superblock.  That holds of mounts
\* that can read the live superblock; gfs_mount goes back a generation when it
\* cannot, and MemoryOnDisk is all that is left.
MemoryIsLive ==
  pc # "down" => /\ gen = Live.gen /\ nodemap = Live.nodemap
                 /\ committed = Live.bm_crc

\* What is on the disk passes fsck, and what is in memory agrees with it, on
\* a device without the two faults.
CleanAndCurrent == TypeOK /\ FsckClean /\ MemoryIsLive

Store == INSTANCE AtomicStore WITH content <- Contents(Live.nodemap)

\* Operations are all-or-nothing, and the store a mount would find changes by
\* a committed operation and nothing else: no crash and no failed write can
\* undo one or leave a part of one, on a device without the two faults.
IsAtomicStore == Store!StoreSpec
=============================================================================
