------------------------------ MODULE GfsProofs ------------------------------
(***************************************************************************)
(* Proofs about GfsTxn, for any files, values, tables, disk size and number*)
(* of generations.                                                         *)
(***************************************************************************)
EXTENDS GfsTxn, WellFoundedInduction, TLAPS

-----------------------------------------------------------------------------
(* The inductive invariant                                                 *)

\* A tree is a block mb for its node map, the map m, the node records r and
\* the bitmap bm, on a disk d.  Its blocks are held by the map, by tables and
\* by nodes.
Holder == {"map"} \cup Table \cup Node

Blocks(mb, m, r) ==
  [x \in Holder |-> IF x = "map" THEN mb ELSE IF x \in Table THEN m[x].phys ELSE r[x].bp.phys]

\* The bitmap is what is held, and nothing is held twice.
Exact(h, bm) ==
  /\ \A x \in Holder : h[x] \in bm \cup {0}
  /\ \A b \in bm : \E x \in Holder : h[x] = b
  /\ \A x, y \in Holder : h[x] # 0 /\ h[x] = h[y] => x = y

Typed(mb, m, r, bm) ==
  /\ mb \in Block /\ m \in NodeMap /\ r \in [Node -> NodeRecord] /\ bm \in SUBSET Block
  /\ \A t \in Table : m[t].phys # 0 => m[t].crc \in [NodesOf(t) -> NodeRecord]
  /\ r[Root].bp.phys # 0 => r[Root].bp.crc \in [names: SUBSET File]
  /\ r[Root].type # "FREE" /\ \A f \in File : r[f].type # "FREE" \/ r[f] = Free

\* The disk holds what the tree's pointers say.
OnDisk(d, m, r) ==
  /\ \A t \in Table : m[t].phys # 0 => d[m[t].phys] = m[t].crc
  /\ r[Root].bp.phys # 0 => d[r[Root].bp.phys] = r[Root].bp.crc
  /\ \A f \in File : r[f].bp.phys # 0 => d[r[f].bp.phys] \in Value

Sound(d, mb, m, r, bm) ==
  Typed(mb, m, r, bm) /\ Exact(Blocks(mb, m, r), bm) /\ OnDisk(d, m, r)

NamesOf(r) == IF r[Root].bp.phys = 0 THEN {} ELSE r[Root].bp.crc.names

\* A tree that can be mounted.
Committed(d, bp, bm) ==
  /\ Sound(d, bp.phys, bp.crc, Records(bp), bm) /\ d[bp.phys] = bp.crc
  /\ \A f \in File : f \in NamesOf(Records(bp)) <=> Records(bp)[f] # Free

\* Slot s holds a generation of its parity, and one of them is live.
SlotInv ==
  /\ sb \in [Slots -> Superblock \cup {Torn}]
  /\ bitmap \in [Slots -> (SUBSET Block) \cup {Torn}]
  /\ \A s \in Slots : sb[s] # Torn => sb[s].gen % 2 = s
  /\ \E s \in Slots : sb[s] # Torn
  /\ DOMAIN disk = Block

DiskInv == bitmap[LiveSlot] = Live.bm_crc /\ Committed(disk, Live.nodemap, Live.bm_crc)

MemInv ==
  /\ pc \in {"down", "idle", "busy"} /\ gen \in 0..MaxGen
  /\ committed \subseteq Block /\ working \subseteq Block
  /\ nodemap.phys \in Block \cup {0}
  /\ pc # "down" => MemoryIsLive
  /\ pc # "busy" => todo = <<>>

\* The records as committed, and the nodes whose record in the map is current.
Old == Records(nodemap)
Same(S) == \A n \in Node \ S : recs[n] = Old[n]
Current(S) == \A n \in Node \ S : RecordIn(map, n) = recs[n]

node(n) == Step("node", n, 0)
edges(names) == Step("put", Root, Edges(names))

\* The last steps of a transaction.
Closing == \/ todo = <<Commit>>
           \/ \E b \in Block : todo = <<Step("bitmap", Root, b)>>
           \/ \E b \in Block : todo = <<Step("sb", Root, b)>>

Creating(f) ==
  /\ f \notin Names /\ recs[f] = Rec("DATA", NoPtr) /\ Same({f, Root})
  /\ \/ /\ todo = <<node(f), edges(Names \cup {f}), node(Root), Commit>>
        /\ recs[Root] = Old[Root] /\ Current({f})
     \/ /\ todo = <<edges(Names \cup {f}), node(Root), Commit>>
        /\ recs[Root] = Old[Root] /\ Current({})
     \/ /\ todo = <<node(Root), Commit>>
        /\ NamesOf(recs) = Names \cup {f} /\ Current({Root})
     \/ Closing /\ NamesOf(recs) = Names \cup {f} /\ Current({})

Wrote(f, v) == recs[f].type # "FREE" /\ recs[f].bp.phys # 0 /\ disk[recs[f].bp.phys] = v

Writing(f, v) ==
  /\ f \in Names /\ Same({f})
  /\ \/ /\ todo = <<Step("put", f, v), node(f), Commit>>
        /\ recs[f] = Old[f] /\ Current({})
     \/ todo = <<node(f), Commit>> /\ Wrote(f, v) /\ Current({f})
     \/ Closing /\ Wrote(f, v) /\ Current({})

Unlinking(f) ==
  /\ f \in Names /\ Same({f, Root})
  /\ \/ /\ todo = <<edges(Names \ {f}), node(Root), Step("reclaim", f, 0), node(f), Commit>>
        /\ recs[Root] = Old[Root] /\ recs[f] = Old[f] /\ Current({})
     \/ /\ todo = <<node(Root), Step("reclaim", f, 0), node(f), Commit>>
        /\ NamesOf(recs) = Names \ {f} /\ recs[f] = Old[f] /\ Current({Root})
     \/ /\ todo = <<Step("reclaim", f, 0), node(f), Commit>>
        /\ NamesOf(recs) = Names \ {f} /\ recs[f] = Old[f] /\ Current({})
     \/ /\ todo = <<node(f), Commit>>
        /\ NamesOf(recs) = Names \ {f} /\ recs[f] = Free /\ Current({f})
     \/ Closing /\ NamesOf(recs) = Names \ {f} /\ recs[f] = Free /\ Current({})

Operation(f) == Creating(f) \/ Unlinking(f) \/ \E v \in Value : Writing(f, v)

\* The tree that the transaction is building: until the commit writes its
\* map, the old map's block is part of it.
Building ==
  \/ Head(todo).kind \notin {"bitmap", "sb"} /\ Sound(disk, nodemap.phys, map, recs, working)
  \/ \E b \in Block :
       /\ Sound(disk, b, map, recs, working) /\ disk[b] = map
       /\ \/ todo = <<Step("bitmap", Root, b)>>
          \/ todo = <<Step("sb", Root, b)>> /\ bitmap[parity] = working

BusyInv ==
  pc = "busy" =>
    /\ gen < MaxGen /\ Building
    /\ \E f \in File : Operation(f)

TxnInv == SlotInv /\ DiskInv /\ MemInv /\ BusyInv

\* What a mount would find.
Found == Contents(Live.nodemap)

\* A step that keeps the invariant and what a mount would find.
Kept == TxnInv' /\ Found' = Found

\* A step that writes at most a block that the transaction may allocate.
Fresh == \/ disk' = disk
         \/ \E b \in allocatable : \E c : disk' = [disk EXCEPT ![b] = c]

-----------------------------------------------------------------------------
(* Numbers and scripts                                                     *)

\* A set of natural numbers has a smallest element.
LEMMA Smallest ==
  ASSUME NEW T \in SUBSET Nat, T # {}
  PROVE  \E x \in T : \A y \in T : x <= y
<1> DEFINE R == OpToRel(<, Nat)
<1>1. PICK x \in T : \A y \in T : ~(<<y, x>> \in R)
  <2> HIDE DEF R
  <2> QED BY NatLessThanWellFounded, WFMin, Zenon DEF R
<1>2. \A y \in T : ~(y < x)
  BY <1>1, Zenon DEF OpToRel
<1> QED BY <1>2

\* A generation and the next one have different parities.
LEMMA Parity == \A g \in Nat : g % 2 \in Slots /\ (g + 1) % 2 \in Slots /\ (g + 1) % 2 # g % 2
BY DEF Slots

\* The first step of a script and the rest.
LEMMA Steps ==
  \A a, b, c, d, e :
    /\ Head(<<a>>) = a
    /\ Head(<<a, b>>) = a /\ Tail(<<a, b>>) = <<b>>
    /\ Head(<<a, b, c>>) = a /\ Tail(<<a, b, c>>) = <<b, c>>
    /\ Head(<<a, b, c, d>>) = a /\ Tail(<<a, b, c, d>>) = <<b, c, d>>
    /\ Head(<<a, b, c, d, e>>) = a /\ Tail(<<a, b, c, d, e>>) = <<b, c, d, e>>
OBVIOUS

-----------------------------------------------------------------------------
(* Trees                                                                   *)

\* A holder gets another block, or none.
LEMMA Exchange ==
  ASSUME NEW h, NEW g, NEW bm \in SUBSET Block, Exact(h, bm),
         NEW x \in Holder, NEW b \in (Block \ bm) \cup {0},
         \A y \in Holder : g[y] = IF y = x THEN b ELSE h[y]
  PROVE  Exact(g, (bm \cup ({b} \ {0})) \ {h[x]})
<1>1. 0 \notin Block
  BY TxnAssumption DEF Block
<1>2. h[x] \in bm \cup {0}
  BY Zenon DEF Exact
<1>3. b # h[x] \/ b = 0
  BY <1>2, Zenon
<1>4. \A y \in Holder : g[y] \in ((bm \cup ({b} \ {0})) \ {h[x]}) \cup {0}
  BY <1>3, Zenon DEF Exact
<1>5. \A c \in (bm \cup ({b} \ {0})) \ {h[x]} : \E y \in Holder : g[y] = c
  BY <1>1, Zenon DEF Exact
<1>6. \A y, z \in Holder : g[y] # 0 /\ g[y] = g[z] => y = z
  BY <1>2 DEF Exact
<1> QED BY <1>4, <1>5, <1>6, Zenon DEF Exact

\* Writes to other blocks do not touch a tree.
LEMMA WriteOutside ==
  ASSUME NEW d, NEW dd, NEW mb, NEW m, NEW r, NEW bm, Sound(d, mb, m, r, bm),
         \A b \in bm : dd[b] = d[b]
  PROVE  Sound(dd, mb, m, r, bm)
<1>1. \A t \in Table : m[t].phys # 0 => m[t].phys \in bm
  BY TxnAssumption, Zenon DEF Sound, Exact, Blocks, Holder
<1>2. \A n \in Node : r[n].bp.phys # 0 => r[n].bp.phys \in bm
  BY TxnAssumption, Zenon DEF Sound, Exact, Blocks, Holder
<1>3. OnDisk(dd, m, r)
  BY <1>1, <1>2 DEF Sound, OnDisk, Node
<1> QED BY <1>3, Zenon DEF Sound

\* Node n gets a record R, with a fresh block or none.
LEMMA NodeSound ==
  ASSUME NEW d, NEW dd, NEW mb, NEW m, NEW r, NEW bm, Sound(d, mb, m, r, bm),
         NEW n \in Node, NEW R \in NodeRecord, R.bp.phys \in (Block \ bm) \cup {0},
         R.type # "FREE" \/ (n # Root /\ R = Free),
         \A b \in bm : dd[b] = d[b],
         R.bp.phys # 0 => IF n = Root THEN dd[R.bp.phys] = R.bp.crc /\ R.bp.crc \in [names: SUBSET File]
                          ELSE dd[R.bp.phys] \in Value
  PROVE  \A rs, ws : /\ rs = [r EXCEPT ![n] = R]
                     /\ ws = (bm \cup ({R.bp.phys} \ {0})) \ {r[n].bp.phys}
                     => Sound(dd, mb, m, rs, ws)
<1> DEFINE rr == [r EXCEPT ![n] = R]
           b == R.bp.phys
           bb == (bm \cup ({b} \ {0})) \ {r[n].bp.phys}
<1>1. bm \in SUBSET Block /\ r \in [Node -> NodeRecord]
  BY Zenon DEF Sound, Typed
<1>2. \A x \in Node : rr[x] = IF x = n THEN R ELSE r[x]
  BY <1>1, Zenon
<1>3. n \in Holder /\ n # "map" /\ n \notin Table
  BY TxnAssumption, Zenon DEF Holder
<1>4. Exact(Blocks(mb, m, rr), bb)
  <2>1. \A y \in Holder : Blocks(mb, m, rr)[y] = IF y = n THEN b ELSE Blocks(mb, m, r)[y]
    <3> HIDE DEF rr
    <3> QED BY <1>2, <1>3, Zenon DEF Blocks, Holder
  <2>2. Blocks(mb, m, r)[n] = r[n].bp.phys
    BY <1>3, Zenon DEF Blocks
  <2>3. Exact(Blocks(mb, m, r), bm)
    BY Zenon DEF Sound
  <2>4. b \in (Block \ bm) \cup {0}
    BY Zenon
  <2> HIDE DEF rr, b
  <2>5. Exact(Blocks(mb, m, rr), (bm \cup ({b} \ {0})) \ {Blocks(mb, m, r)[n]})
    BY <1>1, <1>3, <2>1, <2>3, <2>4, Exchange, Zenon
  <2> QED BY <2>2, <2>5, Zenon
<1>5. Typed(mb, m, rr, bb)
  <2>1. rr \in [Node -> NodeRecord]
    BY <1>1, Zenon
  <2>2. bb \in SUBSET Block
    BY <1>1, Zenon
  <2>3. Root \in Node /\ \A f \in File : f \in Node /\ f # Root
    BY TxnAssumption, Zenon DEF Node
  <2>4. rr[Root].bp.phys # 0 => rr[Root].bp.crc \in [names: SUBSET File]
    BY <1>2, <2>3, Zenon DEF Sound, Typed
  <2>5. rr[Root].type # "FREE" /\ \A f \in File : rr[f].type # "FREE" \/ rr[f] = Free
    BY <1>2, <2>3, Zenon DEF Sound, Typed
  <2> HIDE DEF rr, bb
  <2> QED BY <2>1, <2>2, <2>4, <2>5 DEF Sound, Typed
<1>6. OnDisk(dd, m, rr)
  <2>1. OnDisk(dd, m, r)
    BY WriteOutside, Zenon DEF Sound
  <2>2. Root \in Node /\ \A f \in File : f \in Node /\ f # Root
    BY TxnAssumption DEF Node
  <2> HIDE DEF rr
  <2> QED BY <1>2, <2>1, <2>2, Zenon DEF OnDisk
<1> HIDE DEF rr, bb
<1>7. Sound(dd, mb, m, rr, bb)
  BY <1>4, <1>5, <1>6, Zenon DEF Sound
<1> QED BY <1>7, Zenon DEF rr, bb

\* A table block is written to a fresh block.
LEMMA TableSound ==
  ASSUME NEW d, NEW dd, NEW mb, NEW m, NEW r, NEW bm, Sound(d, mb, m, r, bm),
         NEW t \in Table, NEW b \in Block \ bm, NEW table \in [NodesOf(t) -> NodeRecord],
         \A y \in bm : dd[y] = d[y], dd[b] = table
  PROVE  \A ms, ws : /\ ms = [m EXCEPT ![t] = Ptr(b, table)]
                     /\ ws = (bm \cup {b}) \ {m[t].phys}
                     => Sound(dd, mb, ms, r, ws)
<1> DEFINE mm == [m EXCEPT ![t] = Ptr(b, table)]
           bb == (bm \cup {b}) \ {m[t].phys}
<1>1. bm \in SUBSET Block /\ m \in NodeMap
  BY Zenon DEF Sound, Typed
<1>2. \A x \in Table : mm[x] = IF x = t THEN Ptr(b, table) ELSE m[x]
  BY <1>1, Zenon DEF NodeMap
<1>3. t \in Holder /\ t # "map" /\ b # 0 /\ Ptr(b, table).phys = b /\ Ptr(b, table).crc = table
  BY TxnAssumption DEF Holder, Block, Ptr
<1>4. Exact(Blocks(mb, mm, r), bb)
  <2>1. \A y \in Holder : Blocks(mb, mm, r)[y] = IF y = t THEN b ELSE Blocks(mb, m, r)[y]
    <3> HIDE DEF mm
    <3> QED BY <1>2, <1>3 DEF Blocks, Holder
  <2>2. Blocks(mb, m, r)[t] = m[t].phys
    BY <1>3, Zenon DEF Blocks
  <2>3. Exact(Blocks(mb, m, r), bm)
    BY Zenon DEF Sound
  <2>4. Exact(Blocks(mb, mm, r), (bm \cup ({b} \ {0})) \ {m[t].phys})
    <3> HIDE DEF mm
    <3> QED BY <1>1, <1>3, <2>1, <2>2, <2>3, Exchange
  <2>5. {b} \ {0} = {b}
    BY <1>3, Zenon
  <2> HIDE DEF mm
  <2> QED BY <2>4, <2>5, Zenon
<1>5. Typed(mb, mm, r, bb)
  <2>1. Ptr(b, table) \in Pointer(UNION {[NodesOf(x) -> NodeRecord] : x \in Table})
    BY Zenon DEF Ptr, Pointer
  <2>2. mm \in NodeMap
    <3> DEFINE P == Pointer(UNION {[NodesOf(x) -> NodeRecord] : x \in Table})
    <3>1. Ptr(b, table) \in P /\ m \in [Table -> P]
      BY <1>1, <2>1, Zenon DEF NodeMap
    <3> HIDE DEF P
    <3>2. mm \in [Table -> P]
      BY <3>1, Zenon
    <3> QED BY <3>2, Zenon DEF NodeMap, P
  <2>3. bb \in SUBSET Block
    BY <1>1, Zenon
  <2>4. \A x \in Table : mm[x].phys # 0 => mm[x].crc \in [NodesOf(x) -> NodeRecord]
    <3> HIDE DEF mm
    <3> QED BY <1>2, <1>3, Zenon DEF Sound, Typed
  <2> HIDE DEF mm, bb
  <2> QED BY <2>2, <2>3, <2>4, Zenon DEF Sound, Typed
<1>6. OnDisk(dd, mm, r)
  <2>1. OnDisk(dd, m, r)
    BY WriteOutside, Zenon DEF Sound
  <2> HIDE DEF mm
  <2> QED BY <1>2, <1>3, <2>1, Zenon DEF OnDisk
<1> HIDE DEF mm, bb
<1>7. Sound(dd, mb, mm, r, bb)
  BY <1>4, <1>5, <1>6, Zenon DEF Sound
<1> QED BY <1>7, Zenon DEF mm, bb

\* The map is written to a fresh block.
LEMMA MapSound ==
  ASSUME NEW d, NEW dd, NEW mb, NEW m, NEW r, NEW bm, Sound(d, mb, m, r, bm),
         NEW b \in Block \ bm, \A y \in bm : dd[y] = d[y]
  PROVE  \A ws : ws = (bm \cup {b}) \ {mb} => Sound(dd, b, m, r, ws)
<1>1. bm \in SUBSET Block /\ b # 0 /\ "map" \in Holder
  BY TxnAssumption DEF Sound, Typed, Block, Holder
<1>2. Exact(Blocks(b, m, r), (bm \cup {b}) \ {mb})
  <2>1. \A y \in Holder : Blocks(b, m, r)[y] = IF y = "map" THEN b ELSE Blocks(mb, m, r)[y]
    BY Zenon DEF Blocks
  <2>2. Blocks(mb, m, r)["map"] = mb
    BY <1>1, Zenon DEF Blocks
  <2>3. Exact(Blocks(mb, m, r), bm)
    BY Zenon DEF Sound
  <2>4. Exact(Blocks(b, m, r), (bm \cup ({b} \ {0})) \ {mb})
    BY <1>1, <2>1, <2>2, <2>3, Exchange
  <2>5. {b} \ {0} = {b}
    BY <1>1, Zenon
  <2> QED BY <2>4, <2>5, Zenon
<1>3. Typed(b, m, r, (bm \cup {b}) \ {mb})
  BY <1>1, Zenon DEF Sound, Typed
<1>4. OnDisk(dd, m, r)
  BY WriteOutside DEF Sound
<1> QED BY <1>2, <1>3, <1>4, Zenon DEF Sound

-----------------------------------------------------------------------------
(* The live slot                                                           *)

\* The two slots hold generations of different parity, so one is the newest.
LEMMA LiveIs ==
  ASSUME SlotInv
  PROVE  /\ LiveSlot \in Slots /\ Live \in Superblock /\ Live # Torn
         /\ Live.gen \in 0..MaxGen /\ Live.gen % 2 = LiveSlot
         /\ \A x \in Slots : sb[x] # Torn => sb[x].gen <= Live.gen
<1>1. \A s \in Slots : sb[s] # Torn => sb[s] \in Superblock /\ sb[s].gen \in 0..MaxGen
  BY Zenon DEF SlotInv, Superblock
<1>2. \E s \in Slots : /\ sb[s] # Torn
                       /\ \A x \in Slots : sb[x] # Torn => sb[x].gen <= sb[s].gen
  <2>1. CASE sb[0] = Torn \/ sb[1] = Torn
    BY <1>1, <2>1 DEF SlotInv, Slots
  <2>2. CASE sb[0] # Torn /\ sb[1] # Torn
    <3>1. sb[0].gen \in Int /\ sb[1].gen \in Int
      BY <1>1, <2>2 DEF Slots
    <3>2. sb[0].gen <= sb[1].gen \/ sb[1].gen <= sb[0].gen
      BY <3>1
    <3> QED BY <2>2, <3>1, <3>2 DEF Slots
  <2> QED BY <2>1, <2>2, Zenon
<1>3. /\ LiveSlot \in Slots /\ sb[LiveSlot] # Torn
      /\ \A x \in Slots : sb[x] # Torn => sb[x].gen <= sb[LiveSlot].gen
  BY <1>2 DEF LiveSlot, Newest
<1> QED BY <1>1, <1>3, Zenon DEF Live, SlotInv

\* gfs_mount's choice between two superblocks.
Latest(S) == CHOOSE s \in Slots :
               /\ S[s] # Torn
               /\ \A x \in Slots : S[x] # Torn => S[x].gen <= S[s].gen

\* A slot of a higher generation than the other's is the live one.
LEMMA LiveWins ==
  ASSUME NEW S, NEW s \in Slots, S[s] # Torn, S[s].gen \in Int,
         \A x \in Slots : x # s /\ S[x] # Torn => S[x].gen \in Int /\ S[x].gen < S[s].gen
  PROVE  Latest(S) = s
<1>1. \A x \in Slots : S[x] # Torn => S[x].gen <= S[s].gen
  OBVIOUS
<1>2. \A x \in Slots : S[x] # Torn /\ S[s].gen <= S[x].gen => x = s
  OBVIOUS
<1> QED BY <1>1, <1>2, Zenon DEF Latest

\* A transaction writes the slot that is not live.
LEMMA ParityIsOther ==
  ASSUME SlotInv, MemInv, pc = "busy"
  PROVE  parity \in Slots /\ parity # LiveSlot /\ gen = Live.gen /\ gen \in Nat
<1>1. gen = Live.gen /\ gen \in Nat
  BY DEF MemInv, MemoryIsLive
<1>2. gen % 2 = LiveSlot
  BY <1>1, LiveIs, Zenon
<1> QED BY <1>1, <1>2, Parity, Zenon DEF parity, new_gen

\* The live superblock stays while the other slot is torn or nothing happens.
LEMMA LiveStays ==
  ASSUME SlotInv, NEW s \in Slots, s # LiveSlot,
         sb' = sb \/ sb' = [sb EXCEPT ![s] = Torn],
         bitmap' \in [Slots -> (SUBSET Block) \cup {Torn}], DOMAIN disk' = Block
  PROVE  SlotInv' /\ LiveSlot' = LiveSlot /\ Live' = Live
<1>1. /\ LiveSlot \in Slots /\ Live # Torn /\ Live.gen \in 0..MaxGen
      /\ \A x \in Slots : sb[x] # Torn => sb[x].gen <= Live.gen
  BY LiveIs, Zenon
<1>2. CASE sb' = sb
  BY <1>2, Zenon DEF SlotInv, LiveSlot, Newest, Live
<1>3. CASE sb' = [sb EXCEPT ![s] = Torn]
  <2>1. sb'[s] = Torn /\ \A x \in Slots : x # s => sb'[x] = sb[x]
    BY <1>3, Zenon DEF SlotInv
  <2>2. SlotInv'
    BY <1>1, <1>3, <2>1, Zenon DEF SlotInv, Live
  <2>3. sb'[LiveSlot] = Live /\ \A x \in Slots : x # LiveSlot => sb'[x] = Torn
    BY <1>1, <2>1 DEF Slots, Live
  <2>4. PICK l \in Slots : l = LiveSlot
    BY <1>1, Zenon
  <2>5. Latest(sb') = l
    <3>1. sb'[l] # Torn /\ sb'[l].gen \in Int
      BY <1>1, <2>3, <2>4
    <3>2. \A x \in Slots : x # l => sb'[x] = Torn
      BY <2>3, <2>4, Zenon
    <3> QED BY <3>1, <3>2, LiveWins, Zenon
  <2> QED BY <2>2, <2>3, <2>4, <2>5, Zenon DEF Live, LiveSlot, Newest, Latest
<1> QED BY <1>2, <1>3, Zenon

-----------------------------------------------------------------------------
(* The committed tree                                                      *)

ContentsOf(d, bp) ==
  [f \in File |-> IF f \notin NamesIn(bp.crc) THEN Absent
                  ELSE IF RecordIn(bp.crc, f).bp.phys = 0 THEN Empty
                  ELSE d[RecordIn(bp.crc, f).bp.phys]]

\* Writes to other blocks do not touch a committed tree.
LEMMA CommittedStays ==
  ASSUME NEW d, NEW dd, NEW bp, NEW bm, Committed(d, bp, bm), \A b \in bm : dd[b] = d[b]
  PROVE  Committed(dd, bp, bm) /\ ContentsOf(dd, bp) = ContentsOf(d, bp)
<1>1. Sound(dd, bp.phys, bp.crc, Records(bp), bm)
  BY WriteOutside, Zenon DEF Committed
<1>2. bp.phys \in bm
  <2>1. Exact(Blocks(bp.phys, bp.crc, Records(bp)), bm) /\ bp.phys \in Block
    BY Zenon DEF Committed, Sound, Typed
  <2>2. Blocks(bp.phys, bp.crc, Records(bp))["map"] = bp.phys /\ "map" \in Holder
    BY Zenon DEF Blocks, Holder
  <2>3. bp.phys # 0
    BY <2>1, TxnAssumption DEF Block
  <2> QED BY <2>1, <2>2, <2>3, Zenon DEF Exact
<1>3. \A f \in File : RecordIn(bp.crc, f).bp.phys # 0 => RecordIn(bp.crc, f).bp.phys \in bm
  <2> TAKE f \in File
  <2>1. f \in Node /\ f \in Holder /\ f # "map" /\ f \notin Table
    BY TxnAssumption, Zenon DEF Node, Holder
  <2>2. Exact(Blocks(bp.phys, bp.crc, Records(bp)), bm)
    BY Zenon DEF Committed, Sound
  <2>3. Blocks(bp.phys, bp.crc, Records(bp))[f] = RecordIn(bp.crc, f).bp.phys
    BY <2>1, Zenon DEF Blocks, Records
  <2> QED BY <2>1, <2>2, <2>3, Zenon DEF Exact
<1>4. Committed(dd, bp, bm)
  BY <1>1, <1>2, Zenon DEF Committed
<1>5. ContentsOf(dd, bp) = ContentsOf(d, bp)
  BY <1>3 DEF ContentsOf
<1> QED BY <1>4, <1>5, Zenon

\* A step that leaves the live slot, its bitmap and its blocks alone.
LEMMA DiskStays ==
  ASSUME DiskInv, LiveSlot' = LiveSlot, Live' = Live,
         \A b \in Live.bm_crc : disk'[b] = disk[b], bitmap'[LiveSlot] = bitmap[LiveSlot]
  PROVE  DiskInv' /\ Found' = Found
<1>1. PICK bp, bm : bp = Live.nodemap /\ bm = Live.bm_crc
  BY Zenon
<1>2. Live'.nodemap = bp /\ Live'.bm_crc = bm
  BY <1>1, Zenon
<1>3. Committed(disk, bp, bm)
  BY <1>1, Zenon DEF DiskInv
<1>4. Committed(disk', bp, bm) /\ ContentsOf(disk', bp) = ContentsOf(disk, bp)
  BY <1>1, <1>3, CommittedStays
<1>5. bitmap'[LiveSlot'] = Live'.bm_crc
  BY Zenon DEF DiskInv
<1>6. DiskInv'
  BY <1>2, <1>4, <1>5, Zenon DEF DiskInv
<1>7. Contents(bp) = ContentsOf(disk, bp) /\ Contents(bp)' = ContentsOf(disk', bp)
  BY Zenon DEF Contents, ContentsOf
<1>8. Found' = Contents(bp)'
  BY <1>2, Zenon DEF Found
<1>9. Found = Contents(bp)
  BY <1>1 DEF Found
<1> QED BY <1>4, <1>6, <1>7, <1>8, <1>9, Zenon

\* The operation ends without a commit.
LEMMA Stops ==
  ASSUME TxnInv, pc = "busy", Abort \/ Lost, SlotInv', DiskInv', Live' = Live
  PROVE  TxnInv'
<1>1. CASE Abort
  <2>1. MemInv'
    BY <1>1, Zenon DEF TxnInv, MemInv, MemoryIsLive, Abort, memory
  <2> QED BY <1>1, <2>1, Zenon DEF TxnInv, BusyInv, Abort
<1>2. CASE Lost
  <2>1. MemInv'
    BY <1>2, TxnAssumption DEF MemInv, Lost, NoPtr, Ptr
  <2> QED BY <1>2, <2>1, Zenon DEF TxnInv, BusyInv, Lost
<1> QED BY <1>1, <1>2, Zenon

\* A step inside a transaction that writes at most a block it has allocated.
LEMMA Quiet ==
  ASSUME TxnInv, pc = "busy", UNCHANGED <<sb, bitmap>>,
         Fresh
  PROVE  /\ SlotInv' /\ DiskInv' /\ Live' = Live /\ Found' = Found
         /\ Abort \/ Lost => TxnInv'
         /\ UNCHANGED <<pc, memory>> /\ working' \subseteq Block => MemInv'
<1>1. \A b \in Live.bm_crc : disk'[b] = disk[b]
  BY Zenon DEF TxnInv, MemInv, MemoryIsLive, allocatable, SlotInv, Fresh
<1>2. DOMAIN disk' = Block
  BY Zenon DEF TxnInv, SlotInv, Fresh
<1>3. SlotInv' /\ LiveSlot' = LiveSlot /\ Live' = Live
  BY <1>2, Zenon DEF TxnInv, SlotInv, LiveSlot, Newest, Live
<1>4. DiskInv' /\ Found' = Found
  BY <1>1, <1>3, DiskStays, Zenon DEF TxnInv
<1>5. Abort \/ Lost => TxnInv'
  BY <1>3, <1>4, Stops, Zenon
<1>6. UNCHANGED <<pc, memory>> /\ working' \subseteq Block => MemInv'
  BY <1>3 DEF TxnInv, MemInv, MemoryIsLive, memory
<1> QED BY <1>3, <1>4, <1>5, <1>6, Zenon

-----------------------------------------------------------------------------
(* Steps of a transaction                                                  *)

\* The first allocatable block is one.
LEMMA Allocates ==
  ASSUME allocatable # {}
  PROVE  alloc_block \in allocatable /\ alloc_block # 0
<1>1. allocatable \in SUBSET Nat /\ 0 \notin allocatable
  BY TxnAssumption DEF allocatable, Block
<1>2. \E x \in allocatable : \A y \in allocatable : x <= y
  BY <1>1, Smallest, Zenon
<1>3. alloc_block \in allocatable
  BY <1>2 DEF alloc_block, Min
<1> QED BY <1>1, <1>3, Zenon

\* The kinds of steps that come before the commit.
Work == {"put", "node", "reclaim", "map"}

\* What a step of kind "put", "node" or "reclaim" that succeeds leaves alone.
Advances == /\ pc' = "busy" /\ UNCHANGED <<memory, sb, bitmap>> /\ todo' = Tail(todo)
            /\ \A b \in working : disk'[b] = disk[b]
            /\ Sound(disk', nodemap.phys, map', recs', working')

\* Before the commit the tree under construction has the old map's block.
LEMMA Built ==
  ASSUME TxnInv, pc = "busy", Head(todo).kind \in Work
  PROVE  Sound(disk, nodemap.phys, map, recs, working)
<1>1. Building
  BY Zenon DEF TxnInv, BusyInv
<1>2. \A b : Head(<<Step("bitmap", Root, b)>>).kind = "bitmap" /\ Head(<<Step("sb", Root, b)>>).kind = "sb"
  BY Steps DEF Step
<1> QED BY <1>1, <1>2, Zenon DEF Building, Work

\* An advance in a script keeps everything but the script's stage.
LEMMA Advanced ==
  ASSUME TxnInv, pc = "busy", Advances, Head(Tail(todo)).kind \in Work,
         Fresh
  PROVE  /\ SlotInv' /\ DiskInv' /\ MemInv' /\ Found' = Found
         /\ gen' < MaxGen /\ Building' /\ Names' = Names /\ Old' = Old
<1>1. working' \subseteq Block
  BY Zenon DEF Advances, Sound, Typed
<1>2. SlotInv' /\ DiskInv' /\ MemInv' /\ Found' = Found
  BY <1>1, Quiet, Zenon DEF Advances
<1>3. nodemap' = nodemap /\ gen' = gen
  BY DEF Advances, memory
<1>4. Building'
  BY <1>3, Zenon DEF Building, Advances, Work
<1>5. gen' < MaxGen
  BY <1>3, Zenon DEF TxnInv, BusyInv
<1> QED BY <1>2, <1>3, <1>4, <1>5, Zenon DEF Names, Old

\* A record that is given another pointer.
LEMMA Repoint ==
  ASSUME NEW r \in NodeRecord, NEW bp
  PROVE  /\ [r EXCEPT !.bp = bp] = Rec(r.type, bp)
         /\ Rec(r.type, bp).type = r.type /\ Rec(r.type, bp).bp = bp
         /\ bp \in Pointer([names: SUBSET File]) => Rec(r.type, bp) \in NodeRecord
<1>1. ASSUME NEW T, NEW S, r \in [type: T, bp: S]
      PROVE  [r EXCEPT !.bp = bp] = [type |-> r.type, bp |-> bp] /\ r.type \in T
  BY <1>1
<1>2. /\ [r EXCEPT !.bp = bp] = [type |-> r.type, bp |-> bp]
      /\ r.type \in {"FREE", "NAMESPACE", "DATA"}
  BY <1>1 DEF NodeRecord
<1> QED BY <1>2, Zenon DEF Rec, NodeRecord

\* A node's block is written: the operation stops, or the node has a record
\* with the new contents.
LEMMA PutStep ==
  ASSUME TxnInv, put, NEW n \in Node, NEW c, Head(todo) = Step("put", n, c),
         recs[n].type # "FREE",
         IF n = Root THEN \E E \in SUBSET File : c = Edges(E) ELSE c \in Value
  PROVE  \/ Kept
         \/ /\ Advances /\ map' = map
            /\ Fresh
            /\ \E R : /\ recs' = [recs EXCEPT ![n] = R] /\ R.type # "FREE"
                      /\ IF n = Root
                         THEN c = Edges(IF R.bp.phys = 0 THEN {} ELSE R.bp.crc.names)
                         ELSE R.bp.phys # 0 /\ disk'[R.bp.phys] = c
<1>1. pc = "busy" /\ UNCHANGED <<sb, bitmap>>
  BY Zenon DEF put, Doing
<1>2. Sound(disk, nodemap.phys, map, recs, working)
  BY <1>1, Built DEF Step, Work
<1>3. recs \in [Node -> NodeRecord] /\ recs[n] \in NodeRecord /\ working \in SUBSET Block
  BY <1>2, Zenon DEF Sound, Typed
<1>4. \A bp : [recs EXCEPT ![n].bp = bp] = [recs EXCEPT ![n] = Rec(recs[n].type, bp)]
  <2>1. ASSUME NEW bp PROVE [recs[n] EXCEPT !.bp = bp] = Rec(recs[n].type, bp)
    BY <1>3, Repoint, Zenon
  <2>2. \A bp : [recs EXCEPT ![n].bp = bp] = [recs EXCEPT ![n] = [recs[n] EXCEPT !.bp = bp]]
    BY <1>3
  <2> QED BY <2>1, <2>2, Zenon
<1>5. Step("put", n, c).node = n /\ Step("put", n, c).c = c
  BY DEF Step
<1>6. CASE /\ n = Root /\ c = Edges({}) /\ UNCHANGED disk
           /\ working' = free_block(working, recs[n].bp.phys)
           /\ recs' = [recs EXCEPT ![n].bp = NoPtr]
           /\ todo' = Tail(todo)
           /\ UNCHANGED <<pc, memory, map>>
  <2> DEFINE R == Rec(recs[n].type, NoPtr)
  <2>1. R \in NodeRecord /\ R.type # "FREE" /\ R.bp.phys = 0
    <3>1. NoPtr \in Pointer([names: SUBSET File]) /\ NoPtr.phys = 0
      BY Zenon DEF NoPtr, Ptr, Pointer
    <3>2. R \in NodeRecord /\ R.type = recs[n].type /\ R.bp = NoPtr
      BY <1>3, <3>1, Repoint, Zenon
    <3> HIDE DEF R
    <3> QED BY <3>1, <3>2, Zenon
  <2>2. recs' = [recs EXCEPT ![n] = R]
    BY <1>4, <1>6, Zenon
  <2>3. Sound(disk', nodemap.phys, map', recs', working')
    <3> HIDE DEF R
    <3>1. working' = (working \cup ({R.bp.phys} \ {0})) \ {recs[n].bp.phys}
      BY <1>6, <2>1, Zenon DEF free_block
    <3>2. Sound(disk, nodemap.phys, map, recs', working')
      BY <1>2, <2>1, <2>2, <3>1, NodeSound, Zenon
    <3> QED BY <1>6, <3>2, Zenon
  <2>4. Advances
    BY <1>1, <1>6, <2>3, Zenon DEF Advances
  <2> QED BY <1>6, <2>1, <2>2, <2>4, Zenon DEF Fresh
<1>7. CASE Abort /\ UNCHANGED disk
  BY <1>1, <1>7, Quiet, Zenon DEF Kept, Fresh
<1>8. ASSUME NEW b, b = alloc_block, allocatable # {}, n = Root => c # Edges({}),
             disk' = [disk EXCEPT ![b] = c],
             working' = free_block(working \cup {b}, recs[n].bp.phys),
             recs' = [recs EXCEPT ![n].bp = Ptr(b, IF n = Root THEN c ELSE Torn)],
             todo' = Tail(todo), UNCHANGED <<pc, memory, map>>
      PROVE  /\ Advances /\ map' = map
             /\ Fresh
             /\ \E R : /\ recs' = [recs EXCEPT ![n] = R] /\ R.type # "FREE"
                       /\ IF n = Root
                          THEN c = Edges(IF R.bp.phys = 0 THEN {} ELSE R.bp.crc.names)
                          ELSE R.bp.phys # 0 /\ disk'[R.bp.phys] = c
  <2> DEFINE k == IF n = Root THEN c ELSE Torn
             R == Rec(recs[n].type, Ptr(b, k))
  <2>1. b \in allocatable /\ b # 0 /\ b \in Block \ working
    BY <1>8, Allocates, Zenon DEF allocatable
  <2>2. n = Root => c \in [names: SUBSET File] /\ c = Edges(c.names)
    BY DEF Edges
  <2>3. R \in NodeRecord /\ R.type # "FREE" /\ R.bp.phys = b /\ R.bp.crc = k
    <3>1. /\ Ptr(b, k) \in Pointer([names: SUBSET File])
          /\ Ptr(b, k).phys = b /\ Ptr(b, k).crc = k
      BY <2>1, <2>2, Zenon DEF Ptr, Pointer
    <3>2. R \in NodeRecord /\ R.type = recs[n].type /\ R.bp = Ptr(b, k)
      BY <1>3, <3>1, Repoint, Zenon
    <3> HIDE DEF R, k
    <3> QED BY <3>1, <3>2, Zenon
  <2>4. disk'[b] = c /\ \A y \in working : disk'[y] = disk[y]
    BY <1>3, <1>8, <2>1 DEF TxnInv, SlotInv
  <2>5. recs' = [recs EXCEPT ![n] = R]
    BY <1>4, <1>8, Zenon
  <2> HIDE DEF R
  <2>6. Sound(disk', nodemap.phys, map', recs', working')
    <3>1. IF n = Root THEN disk'[R.bp.phys] = R.bp.crc /\ R.bp.crc \in [names: SUBSET File]
          ELSE disk'[R.bp.phys] \in Value
      BY <2>2, <2>3, <2>4, Zenon
    <3> HIDE DEF k
    <3>2. working' = (working \cup ({R.bp.phys} \ {0})) \ {recs[n].bp.phys}
      BY <1>8, <2>1, <2>3, Zenon DEF free_block
    <3>3. R \in NodeRecord /\ R.type # "FREE" /\ R.bp.phys \in (Block \ working) \cup {0}
      BY <2>1, <2>3, Zenon
    <3>4. Sound(disk', nodemap.phys, map, recs', working')
      BY <1>2, <2>4, <2>5, <3>1, <3>2, <3>3, NodeSound, Zenon
    <3> QED BY <1>8, <3>4
  <2>7. Advances
    BY <1>1, <1>8, <2>4, <2>6, Zenon DEF Advances
  <2>8. IF n = Root THEN c = Edges(IF R.bp.phys = 0 THEN {} ELSE R.bp.crc.names)
        ELSE R.bp.phys # 0 /\ disk'[R.bp.phys] = c
    BY <2>1, <2>2, <2>3, <2>4, Zenon
  <2> QED BY <1>8, <2>1, <2>3, <2>5, <2>7, <2>8, Zenon DEF Fresh
<1>9. CASE allocatable # {} /\ disk' = [disk EXCEPT ![alloc_block] = Torn] /\ (Abort \/ Lost)
  BY <1>1, <1>9, Allocates, Quiet, Zenon DEF Kept, Fresh
<1> QED BY <1>5, <1>6, <1>7, <1>8, <1>9, Zenon DEF put, WriteTo


\* Writing the root directory's edges gives it those names.
LEMMA PutEdges ==
  ASSUME TxnInv, put, NEW E \in SUBSET File, Head(todo) = Step("put", Root, Edges(E)),
         recs[Root].type # "FREE"
  PROVE  \/ Kept
         \/ \E R :
              /\ Advances /\ map' = map
              /\ Fresh
              /\ recs' = [recs EXCEPT ![Root] = R] /\ R.type # "FREE"
              /\ E = (IF R.bp.phys = 0 THEN {} ELSE R.bp.crc.names)
<1>1. Root \in Node /\ \E F \in SUBSET File : Edges(E) = Edges(F)
  BY Zenon DEF Node
<1>2. \/ Kept
      \/ /\ Advances /\ map' = map
         /\ Fresh
         /\ \E R : /\ recs' = [recs EXCEPT ![Root] = R] /\ R.type # "FREE"
                   /\ IF Root = Root
                      THEN Edges(E) = Edges(IF R.bp.phys = 0 THEN {} ELSE R.bp.crc.names)
                      ELSE R.bp.phys # 0 /\ disk'[R.bp.phys] = Edges(E)
  BY <1>1, PutStep
<1>3. \A F : Edges(E) = Edges(F) => E = F
  <2> SUFFICES ASSUME NEW F, Edges(E) = Edges(F) PROVE E = F
    BY Zenon
  <2>1. Edges(E).names = E /\ Edges(F).names = F
    BY DEF Edges
  <2> QED BY <2>1, Zenon
<1> QED BY <1>2, <1>3, Zenon

\* The same for a file.
LEMMA PutData ==
  ASSUME TxnInv, put, NEW f \in File, NEW v \in Value, Head(todo) = Step("put", f, v),
         recs[f].type # "FREE"
  PROVE  \/ Kept
         \/ \E R :
              /\ Advances /\ map' = map
              /\ Fresh
              /\ recs' = [recs EXCEPT ![f] = R] /\ R.type # "FREE"
              /\ R.bp.phys # 0 /\ disk'[R.bp.phys] = v
<1>1. f \in Node /\ f # Root
  BY TxnAssumption, Zenon DEF Node
<1>2. \/ Kept
      \/ /\ Advances /\ map' = map
         /\ Fresh
         /\ \E R : /\ recs' = [recs EXCEPT ![f] = R] /\ R.type # "FREE"
                   /\ IF f = Root
                      THEN v = Edges(IF R.bp.phys = 0 THEN {} ELSE R.bp.crc.names)
                      ELSE R.bp.phys # 0 /\ disk'[R.bp.phys] = v
  BY <1>1, PutStep, Zenon
<1> QED BY <1>1, <1>2, Zenon

\* A node's table block is written: the operation stops, or the map has every
\* record as it is in memory.
LEMMA NodeStep ==
  ASSUME TxnInv, node_write, NEW n \in Node, Head(todo) = node(n), Current({n})
  PROVE  \/ Kept
         \/ /\ Advances /\ recs' = recs /\ Current({})'
            /\ Fresh
<1>1. pc = "busy" /\ UNCHANGED <<sb, bitmap>>
  BY Zenon DEF node_write, Doing
<1>2. Sound(disk, nodemap.phys, map, recs, working)
  BY <1>1, Built DEF node, Step, Work
<1>3. /\ recs \in [Node -> NodeRecord] /\ working \in SUBSET Block /\ map \in NodeMap
      /\ \A t \in Table : map[t].phys # 0 => map[t].crc \in [NodesOf(t) -> NodeRecord]
  BY <1>2, Zenon DEF Sound, Typed
<1>4. Head(todo).node = n
  BY DEF node, Step
<1> DEFINE t == TableOf[n]
           table == [x \in {x \in Node : TableOf[x] = t} |->
                      IF x = n THEN recs[n] ELSE RecordIn(map, x)]
<1>5. t \in Table /\ \A x \in Node : TableOf[x] \in Table
  BY TxnAssumption, Zenon
<1>6. Free \in NodeRecord
  BY Zenon DEF Free, Rec, NoPtr, Ptr, NodeRecord, Pointer
<1>7. table \in [NodesOf(t) -> NodeRecord]
  <2>1. ASSUME NEW x \in NodesOf(t) PROVE RecordIn(map, x) \in NodeRecord
    BY <1>3, <1>5, <1>6, Zenon DEF RecordIn, NodesOf
  <2> HIDE DEF t
  <2> QED BY <1>3, <2>1, Zenon DEF NodesOf
<1>8. CASE Abort /\ UNCHANGED disk
  BY <1>1, <1>8, Quiet, Zenon DEF Kept, Fresh
<1>9. ASSUME NEW b, b = alloc_block, allocatable # {}, disk' = [disk EXCEPT ![b] = table],
             working' = free_block(working \cup {b}, map[t].phys),
             map' = [map EXCEPT ![t] = Ptr(b, table)],
             todo' = Tail(todo), UNCHANGED <<pc, memory, recs>>
      PROVE  /\ Advances /\ recs' = recs /\ Current({})'
             /\ Fresh
  <2>1. b \in allocatable /\ b # 0 /\ b \in Block \ working
    BY <1>9, Allocates, Zenon DEF allocatable
  <2>2. disk'[b] = table /\ \A y \in working : disk'[y] = disk[y]
    <3> HIDE DEF table
    <3> QED BY <1>3, <1>9, <2>1, Zenon DEF TxnInv, SlotInv
  <2>3. Sound(disk', nodemap.phys, map', recs', working')
    <3> HIDE DEF t, table
    <3>1. working' = (working \cup {b}) \ {map[t].phys} /\ recs' = recs
      BY <1>9, Zenon DEF free_block
    <3>2. Sound(disk', nodemap.phys, map', recs, working')
      <4>1. /\ t \in Table /\ b \in Block \ working /\ table \in [NodesOf(t) -> NodeRecord]
            /\ disk'[b] = table /\ map' = [map EXCEPT ![t] = Ptr(b, table)]
        BY <1>5, <1>7, <1>9, <2>1, <2>2, Zenon
      <4>2. \A y \in working : disk'[y] = disk[y]
        BY <2>2, Zenon
      <4> QED BY ONLY <1>2, <3>1, <4>1, <4>2, TableSound, Zenon
    <3> QED BY <3>1, <3>2, Zenon
  <2>4. Advances
    BY <1>1, <1>9, <2>2, <2>3, Zenon DEF Advances
  <2>5. ASSUME NEW x \in Node PROVE RecordIn(map', x) = recs[x]
    <3>1. CASE TableOf[x] # t
      <4>1. x # n /\ map'[TableOf[x]] = map[TableOf[x]]
        BY <1>3, <1>5, <1>9, <3>1, Zenon DEF NodeMap
      <4> QED BY <4>1, Zenon DEF RecordIn, Current
    <3>2. CASE TableOf[x] = t
      <4>1. map'[TableOf[x]] = Ptr(b, table)
        <5> HIDE DEF t, table
        <5> QED BY <1>3, <1>5, <1>9, <3>2, Zenon DEF NodeMap
      <4>2. RecordIn(map', x) = table[x]
        <5> HIDE DEF t, table
        <5> QED BY <2>1, <4>1 DEF RecordIn, Ptr
      <4>3. table[x] = IF x = n THEN recs[n] ELSE RecordIn(map, x)
        BY <3>2, Zenon
      <4> QED BY <4>2, <4>3, Zenon DEF Current
    <3> QED BY <3>1, <3>2, Zenon
  <2>6. Current({})'
    BY <1>9, <2>5, Zenon DEF Current
  <2> HIDE DEF table
  <2> QED BY <1>9, <2>1, <2>4, <2>6, Zenon DEF Fresh
<1>10. CASE allocatable # {} /\ disk' = [disk EXCEPT ![alloc_block] = Torn] /\ (Abort \/ Lost)
  BY <1>1, <1>10, Allocates, Quiet, Zenon DEF Kept, Fresh
<1>11. \/ Abort /\ UNCHANGED disk
       \/ allocatable # {} /\ disk' = [disk EXCEPT ![alloc_block] = Torn] /\ (Abort \/ Lost)
       \/ /\ allocatable # {} /\ disk' = [disk EXCEPT ![alloc_block] = table]
          /\ working' = free_block(working \cup {alloc_block}, map[t].phys)
          /\ map' = [map EXCEPT ![t] = Ptr(alloc_block, table)]
          /\ todo' = Tail(todo) /\ UNCHANGED <<pc, memory, recs>>
  BY <1>4, Zenon DEF node_write, WriteTo
<1> HIDE DEF table, t
<1> QED BY <1>8, <1>9, <1>10, <1>11, Zenon

\* A node that lost its last name is freed.
LEMMA ReclaimStep ==
  ASSUME TxnInv, reclaim, NEW f \in File, Head(todo) = Step("reclaim", f, 0)
  PROVE  /\ Advances /\ map' = map /\ disk' = disk
         /\ recs' = [recs EXCEPT ![f] = Free]
<1>1. Head(todo).node = f
  BY DEF Step
<1>2. /\ pc = "busy" /\ UNCHANGED <<sb, bitmap, disk, pc, memory, map>>
      /\ working' = free_block(working, recs[f].bp.phys)
      /\ recs' = [recs EXCEPT ![f] = Free] /\ todo' = Tail(todo)
  BY <1>1, Zenon DEF reclaim, Doing, ondisk
<1>3. Sound(disk, nodemap.phys, map, recs, working)
  BY <1>2, Built DEF Step, Work
<1>4. Free \in NodeRecord /\ Free.bp.phys = 0
  BY Zenon DEF Free, Rec, NoPtr, Ptr, NodeRecord, Pointer
<1>5. f \in Node /\ f # Root
  BY TxnAssumption, Zenon DEF Node
<1>6. working' = (working \cup ({Free.bp.phys} \ {0})) \ {recs[f].bp.phys}
  BY <1>2, <1>4, Zenon DEF free_block
<1>7. Sound(disk, nodemap.phys, map, recs', working')
  BY <1>2, <1>3, <1>4, <1>5, <1>6, NodeSound, Zenon
<1> QED BY <1>2, <1>7, Zenon DEF Advances


-----------------------------------------------------------------------------
(* Where a script is                                                       *)

\* The steps' fields.
LEMMA Fields ==
  /\ \A k, n, c : Step(k, n, c).kind = k /\ Step(k, n, c).node = n /\ Step(k, n, c).c = c
  /\ \A n : node(n).kind = "node" /\ node(n).node = n
  /\ \A E : edges(E).kind = "put"
  /\ Commit.kind = "map"
BY DEF Step, node, edges, Commit

\* Writing a record comes before the commit.
LEMMA NodeKind == \A n : node(n).kind \in Work
BY DEF node, Step, Work

\* The last steps are those of the commit.
LEMMA ClosingKinds ==
  ASSUME Closing
  PROVE  Head(todo).kind \in {"map", "bitmap", "sb"}
BY Steps, Fields DEF Closing

\* The stages of a creation, by the next step.
LEMMA CreateStages ==
  ASSUME NEW f, Creating(f)
  PROVE  \/ /\ Head(todo) = node(f) /\ Current({f}) /\ recs[Root] = Old[Root]
            /\ Tail(todo) = <<edges(Names \cup {f}), node(Root), Commit>>
         \/ /\ Head(todo) = edges(Names \cup {f}) /\ Current({})
            /\ Tail(todo) = <<node(Root), Commit>>
         \/ /\ Head(todo) = node(Root) /\ NamesOf(recs) = Names \cup {f} /\ Current({Root})
            /\ Tail(todo) = <<Commit>>
         \/ Closing
<1>1. todo = <<node(f), edges(Names \cup {f}), node(Root), Commit>> =>
        Head(todo) = node(f) /\ Tail(todo) = <<edges(Names \cup {f}), node(Root), Commit>>
  BY Steps
<1>2. todo = <<edges(Names \cup {f}), node(Root), Commit>> =>
        Head(todo) = edges(Names \cup {f}) /\ Tail(todo) = <<node(Root), Commit>>
  BY Steps
<1>3. todo = <<node(Root), Commit>> =>
        Head(todo) = node(Root) /\ Tail(todo) = <<Commit>>
  BY Steps, Zenon
<1> QED BY <1>1, <1>2, <1>3, Zenon DEF Creating

\* The stages of a write.
LEMMA WriteStages ==
  ASSUME NEW f, NEW v, Writing(f, v)
  PROVE  \/ /\ Head(todo) = Step("put", f, v) /\ recs[f] = Old[f] /\ Current({})
            /\ Tail(todo) = <<node(f), Commit>>
         \/ /\ Head(todo) = node(f) /\ Wrote(f, v) /\ Current({f})
            /\ Tail(todo) = <<Commit>>
         \/ Closing
<1>1. todo = <<Step("put", f, v), node(f), Commit>> =>
        Head(todo) = Step("put", f, v) /\ Tail(todo) = <<node(f), Commit>>
  BY Steps
<1>2. todo = <<node(f), Commit>> =>
        Head(todo) = node(f) /\ Tail(todo) = <<Commit>>
  BY Steps
<1> QED BY <1>1, <1>2, Zenon DEF Writing

\* The stages of an unlink.
LEMMA UnlinkStages ==
  ASSUME NEW f, Unlinking(f)
  PROVE  \/ /\ Head(todo) = edges(Names \ {f}) /\ recs[f] = Old[f] /\ Current({})
            /\ Tail(todo) = <<node(Root), Step("reclaim", f, 0), node(f), Commit>>
         \/ /\ Head(todo) = node(Root) /\ Current({Root})
            /\ NamesOf(recs) = Names \ {f} /\ recs[f] = Old[f]
            /\ Tail(todo) = <<Step("reclaim", f, 0), node(f), Commit>>
         \/ /\ Head(todo) = Step("reclaim", f, 0) /\ Current({})
            /\ NamesOf(recs) = Names \ {f} /\ recs[f] = Old[f]
            /\ Tail(todo) = <<node(f), Commit>>
         \/ /\ Head(todo) = node(f) /\ Current({f})
            /\ NamesOf(recs) = Names \ {f} /\ recs[f] = Free
            /\ Tail(todo) = <<Commit>>
         \/ Closing
<1>1. todo = <<edges(Names \ {f}), node(Root), Step("reclaim", f, 0), node(f), Commit>> =>
        Head(todo) = edges(Names \ {f}) /\ Tail(todo) = <<node(Root), Step("reclaim", f, 0), node(f), Commit>>
  BY Steps
<1>2. todo = <<node(Root), Step("reclaim", f, 0), node(f), Commit>> =>
        Head(todo) = node(Root) /\ Tail(todo) = <<Step("reclaim", f, 0), node(f), Commit>>
  BY Steps
<1>3. todo = <<Step("reclaim", f, 0), node(f), Commit>> =>
        Head(todo) = Step("reclaim", f, 0) /\ Tail(todo) = <<node(f), Commit>>
  BY Steps
<1>4. todo = <<node(f), Commit>> =>
        Head(todo) = node(f) /\ Tail(todo) = <<Commit>>
  BY Steps
<1> QED BY <1>1, <1>2, <1>3, <1>4, Zenon DEF Unlinking

\* The tree in memory is the live one; its names are its nodes in use.
LEMMA Mounted ==
  ASSUME TxnInv, pc # "down"
  PROVE  /\ Sound(disk, nodemap.phys, nodemap.crc, Old, committed)
         /\ Names = NamesOf(Old) /\ Names \subseteq File
         /\ \A f \in File : f \in Names <=> Old[f] # Free
<1>1. nodemap = Live.nodemap /\ committed = Live.bm_crc
  BY Zenon DEF TxnInv, MemInv, MemoryIsLive
<1>2. Committed(disk, nodemap, committed)
  BY <1>1, Zenon DEF TxnInv, DiskInv
<1>3. Names = NamesOf(Old)
  BY Zenon DEF Names, NamesIn, NamesOf, Old, Records, Node
<1>4. NamesOf(Old) \subseteq File
  BY <1>2, Zenon DEF Committed, Sound, Typed, NamesOf, Old
<1> QED BY <1>2, <1>3, <1>4, Zenon DEF Committed, Old

\* A transaction that goes on.
LEMMA GoesOn ==
  ASSUME TxnInv, pc = "busy", Advances, Head(Tail(todo)).kind \in Work,
         Fresh,
         NEW f \in File, (Operation(f))'
  PROVE  Kept
<1>1. SlotInv' /\ DiskInv' /\ MemInv' /\ Found' = Found /\ gen' < MaxGen /\ Building'
  BY Advanced, Zenon
<1>2. BusyInv'
  BY <1>1, Zenon DEF BusyInv
<1> QED BY <1>1, <1>2, Zenon DEF TxnInv, Kept

\* Writing a file's data or the directory's edges keeps the invariant.
LEMMA PutInv ==
  ASSUME TxnInv, put
  PROVE  Kept
<1>1. pc = "busy" /\ Head(todo).kind = "put"
  BY Zenon DEF put, Doing
<1>2. PICK f \in File : Operation(f)
  BY <1>1, Zenon DEF TxnInv, BusyInv
<1>3. Sound(disk, nodemap.phys, map, recs, working)
  BY <1>1, Built, Zenon DEF Work
<1>4. recs \in [Node -> NodeRecord] /\ recs[Root].type # "FREE"
  BY <1>3, Zenon DEF Sound, Typed
<1>5. Names \subseteq File /\ Root \in Node /\ f \in Node /\ f # Root
  BY <1>1, Mounted, TxnAssumption, Zenon DEF Node
<1>6. \A E \in SUBSET File : edges(E) = Step("put", Root, Edges(E))
  BY Zenon DEF edges
<1>7. CASE Creating(f)
  <2>1. /\ Head(todo) = edges(Names \cup {f}) /\ Current({})
        /\ Tail(todo) = <<node(Root), Commit>>
    BY <1>1, <1>7, CreateStages, ClosingKinds, Fields, Zenon
  <2>2. Names \cup {f} \in SUBSET File /\ Head(todo) = Step("put", Root, Edges(Names \cup {f}))
    BY <1>5, <1>6, <2>1, Zenon
  <2>3. SUFFICES ASSUME ~(Kept) PROVE FALSE
    BY Zenon
  <2>4. PICK R :
          /\ Advances /\ map' = map
          /\ Fresh
          /\ recs' = [recs EXCEPT ![Root] = R] /\ R.type # "FREE"
          /\ Names \cup {f} = (IF R.bp.phys = 0 THEN {} ELSE R.bp.crc.names)
    BY <1>4, <2>2, <2>3, PutEdges, Zenon
  <2>5. Head(Tail(todo)).kind \in Work
    <3>1. Head(Tail(todo)) = node(Root)
      BY <2>1, Steps, Zenon
    <3> QED BY <3>1, NodeKind, Zenon
  <2>6. Names' = Names /\ Old' = Old
    BY <1>1, <2>4, <2>5, Advanced, Zenon
  <2>7. recs'[Root] = R /\ \A x \in Node \ {Root} : recs'[x] = recs[x]
    BY <1>4, <1>5, <2>4
  <2>8. NamesOf(recs') = Names \cup {f}
    BY <2>4, <2>7 DEF NamesOf
  <2>9. Current({Root})' /\ Same({f, Root})'
    BY <1>7, <2>1, <2>4, <2>6, <2>7, Zenon DEF Current, Same, Creating
  <2>10. todo' = <<node(Root), Commit>>
    BY <2>1, <2>4, Zenon DEF Advances
  <2>11. Creating(f)'
    BY <1>5, <1>7, <2>6, <2>7, <2>8, <2>9, <2>10, Zenon DEF Creating
  <2> QED BY <1>1, <2>3, <2>4, <2>5, <2>11, GoesOn, Zenon DEF Operation
<1>8. CASE Unlinking(f)
  <2>1. /\ Head(todo) = edges(Names \ {f}) /\ recs[f] = Old[f] /\ Current({})
        /\ Tail(todo) = <<node(Root), Step("reclaim", f, 0), node(f), Commit>>
    <3>1. Head(todo).kind = "put" /\ Unlinking(f)
      BY <1>1, <1>8, Zenon
    <3>2. ~Closing
      BY <3>1, ClosingKinds, Zenon
    <3>3. Head(todo) # node(Root) /\ Head(todo) # Step("reclaim", f, 0) /\ Head(todo) # node(f)
      BY <3>1, Fields
    <3> QED BY <3>1, <3>2, <3>3, UnlinkStages, Zenon
  <2>2. Names \ {f} \in SUBSET File /\ Head(todo) = Step("put", Root, Edges(Names \ {f}))
    BY <1>5, <1>6, <2>1, Zenon
  <2>3. SUFFICES ASSUME ~(Kept) PROVE FALSE
    OBVIOUS
  <2>4. PICK R :
          /\ Advances /\ map' = map
          /\ Fresh
          /\ recs' = [recs EXCEPT ![Root] = R] /\ R.type # "FREE"
          /\ Names \ {f} = (IF R.bp.phys = 0 THEN {} ELSE R.bp.crc.names)
    BY <1>4, <2>2, <2>3, PutEdges, Zenon
  <2>5. Head(Tail(todo)).kind \in Work
    <3>1. Head(Tail(todo)) = node(Root)
      <4>1. Head(<<node(Root), Step("reclaim", f, 0), node(f), Commit>>) = node(Root)
        BY Steps
      <4> QED BY <2>1, <4>1, Zenon
    <3> QED BY <3>1, NodeKind, Zenon
  <2>6. Names' = Names /\ Old' = Old
    BY <1>1, <2>4, <2>5, Advanced, Zenon
  <2>7. recs'[Root] = R /\ \A x \in Node \ {Root} : recs'[x] = recs[x]
    BY <1>4, <1>5, <2>4, Zenon
  <2>8. NamesOf(recs') = Names \ {f}
    BY <2>4, <2>7, Zenon DEF NamesOf
  <2>9. Current({Root})' /\ Same({f, Root})'
    BY <1>8, <2>1, <2>4, <2>6, <2>7, Zenon DEF Current, Same, Unlinking
  <2>10. todo' = <<node(Root), Step("reclaim", f, 0), node(f), Commit>>
    BY <2>1, <2>4, Zenon DEF Advances
  <2>11. Unlinking(f)'
    BY <1>5, <1>8, <2>1, <2>6, <2>7, <2>8, <2>9, <2>10, Zenon DEF Unlinking
  <2> QED BY <1>1, <2>3, <2>4, <2>5, <2>11, GoesOn, Zenon DEF Operation
<1>9. CASE \E v \in Value : Writing(f, v)
  <2> PICK v \in Value : Writing(f, v)
    BY <1>9, Zenon
  <2>1. /\ Head(todo) = Step("put", f, v) /\ recs[f] = Old[f] /\ Current({})
        /\ Tail(todo) = <<node(f), Commit>>
    BY <1>1, WriteStages, ClosingKinds, Fields, Zenon
  <2>2. recs[f].type # "FREE"
    <3>1. recs[f] # Free
      BY <1>1, <2>1, Mounted, Zenon DEF Writing
    <3> QED BY <1>3, <3>1, Zenon DEF Sound, Typed
  <2>3. SUFFICES ASSUME ~(Kept) PROVE FALSE
    BY Zenon
  <2>4. PICK R :
          /\ Advances /\ map' = map
          /\ Fresh
          /\ recs' = [recs EXCEPT ![f] = R] /\ R.type # "FREE"
          /\ R.bp.phys # 0 /\ disk'[R.bp.phys] = v
    BY <2>1, <2>2, <2>3, PutData, Zenon
  <2>5. Head(Tail(todo)).kind \in Work
    <3>1. Head(Tail(todo)) = node(f)
      BY <2>1, Steps, Zenon
    <3> QED BY <3>1, NodeKind, Zenon
  <2>6. Names' = Names /\ Old' = Old
    BY <1>1, <2>4, <2>5, Advanced, Zenon
  <2>7. recs'[f] = R /\ \A x \in Node \ {f} : recs'[x] = recs[x]
    BY <1>4, <1>5, <2>4
  <2>8. Current({f})' /\ Same({f})' /\ Wrote(f, v)'
    BY <2>1, <2>4, <2>6, <2>7, Zenon DEF Current, Same, Wrote, Writing
  <2>9. todo' = <<node(f), Commit>>
    BY <2>1, <2>4, Zenon DEF Advances
  <2>10. Writing(f, v)'
    BY <2>6, <2>8, <2>9, Zenon DEF Writing
  <2> QED BY <1>1, <2>3, <2>4, <2>5, <2>10, GoesOn, Zenon DEF Operation
<1> QED BY <1>2, <1>7, <1>8, <1>9, Zenon DEF Operation


\* The block a file's record points to is in the working bitmap.
LEMMA Held ==
  ASSUME NEW d, NEW mb, NEW m, NEW r, NEW bm, Sound(d, mb, m, r, bm), NEW n \in Node
  PROVE  r[n].bp.phys \in bm \cup {0}
<1>1. n \in Holder /\ n # "map" /\ n \notin Table
  BY TxnAssumption, Zenon DEF Holder
<1>2. Blocks(mb, m, r)[n] = r[n].bp.phys
  BY <1>1, Zenon DEF Blocks
<1> QED BY <1>1, <1>2, Zenon DEF Sound, Exact

\* A file that was written keeps its data while other blocks are written.
LEMMA WroteStays ==
  ASSUME NEW f \in File, NEW v, Wrote(f, v), recs'[f] = recs[f], NEW mb, NEW m,
         Sound(disk, mb, m, recs, working), \A b \in working : disk'[b] = disk[b]
  PROVE  Wrote(f, v)'
<1>1. recs[f].bp.phys \in working
  BY Held DEF Wrote, Node
<1> QED BY <1>1, Zenon DEF Wrote

\* Writing a node's table block keeps the invariant.
LEMMA NodeInv ==
  ASSUME TxnInv, node_write
  PROVE  Kept
<1>1. pc = "busy" /\ Head(todo).kind = "node"
  BY Zenon DEF node_write, Doing
<1>2. PICK f \in File : Operation(f)
  BY <1>1, Zenon DEF TxnInv, BusyInv
<1>3. Sound(disk, nodemap.phys, map, recs, working)
  BY <1>1, Built, Zenon DEF Work
<1>4. Root \in Node /\ f \in Node
  BY Zenon DEF Node
<1>5. ~Closing
  BY <1>1, ClosingKinds, Zenon
<1>6. SUFFICES ASSUME ~(Kept) PROVE FALSE
  BY Zenon
<1>7. ASSUME NEW n \in Node, Head(todo) = node(n), Current({n}), Head(Tail(todo)).kind \in Work
      PROVE  /\ Advances /\ recs' = recs /\ Current({})' /\ Names' = Names /\ Old' = Old
             /\ Fresh
  <2>1. /\ Advances /\ recs' = recs /\ Current({})'
        /\ Fresh
    BY <1>6, <1>7, NodeStep, Zenon
  <2>2. Names' = Names /\ Old' = Old
    BY <1>1, <1>7, <2>1, Advanced, Zenon
  <2> QED BY <2>1, <2>2, Zenon
<1>8. \A a : Head(<<a>>) = a
  BY Steps, Zenon
<1>9. CASE Creating(f)
  <2>1. Head(todo) # edges(Names \cup {f})
    BY <1>1, Fields, Zenon
  <2>2. CASE /\ Head(todo) = node(f) /\ Current({f}) /\ recs[Root] = Old[Root]
             /\ Tail(todo) = <<edges(Names \cup {f}), node(Root), Commit>>
    <3>1. Head(Tail(todo)) = edges(Names \cup {f}) /\ edges(Names \cup {f}).kind = "put"
      <4>1. Head(<<edges(Names \cup {f}), node(Root), Commit>>) = edges(Names \cup {f})
        BY Steps
      <4> QED BY <2>2, <4>1, Fields, Zenon
    <3>2. Head(Tail(todo)).kind \in Work
      BY <3>1, Zenon DEF Work
    <3>3. /\ Advances /\ recs' = recs /\ Current({})' /\ Names' = Names /\ Old' = Old
          /\ Fresh
      BY <1>4, <1>7, <2>2, <3>2, Zenon
    <3>4. todo' = <<edges(Names \cup {f}), node(Root), Commit>>
      BY <2>2, <3>3, Zenon DEF Advances
    <3>5. Creating(f)'
      BY <1>9, <2>2, <3>3, <3>4, Zenon DEF Creating, Same
    <3> QED BY <1>1, <1>6, <3>2, <3>3, <3>5, GoesOn, Zenon DEF Operation
  <2>3. CASE /\ Head(todo) = node(Root) /\ NamesOf(recs) = Names \cup {f} /\ Current({Root})
             /\ Tail(todo) = <<Commit>>
    <3>1. Head(Tail(todo)).kind \in Work
      BY <1>8, <2>3, Fields, Zenon DEF Work
    <3>2. /\ Advances /\ recs' = recs /\ Current({})' /\ Names' = Names /\ Old' = Old
          /\ Fresh
      BY <1>4, <1>7, <2>3, <3>1
    <3>3. todo' = <<Commit>>
      BY <2>3, <3>2 DEF Advances
    <3>4. Creating(f)'
      BY <1>9, <2>3, <3>2, <3>3, Zenon DEF Creating, Same, Closing
    <3> QED BY <1>1, <1>6, <3>1, <3>2, <3>4, GoesOn, Zenon DEF Operation
  <2> QED BY <1>5, <1>9, <2>1, <2>2, <2>3, CreateStages, Zenon
<1>10. CASE Unlinking(f)
  <2>1. Head(todo) # edges(Names \ {f}) /\ Head(todo) # Step("reclaim", f, 0)
    BY <1>1, Fields
  <2>2. CASE /\ Head(todo) = node(Root) /\ Current({Root})
             /\ NamesOf(recs) = Names \ {f} /\ recs[f] = Old[f]
             /\ Tail(todo) = <<Step("reclaim", f, 0), node(f), Commit>>
    <3>1. Head(Tail(todo)) = Step("reclaim", f, 0) /\ Step("reclaim", f, 0).kind = "reclaim"
      <4>1. Head(<<Step("reclaim", f, 0), node(f), Commit>>) = Step("reclaim", f, 0)
        BY Steps
      <4>2. Step("reclaim", f, 0).kind = "reclaim"
        BY Fields
      <4> QED BY <2>2, <4>1, <4>2, Zenon
    <3>2. Head(Tail(todo)).kind \in Work
      BY <3>1, Zenon DEF Work
    <3>3. /\ Advances /\ recs' = recs /\ Current({})' /\ Names' = Names /\ Old' = Old
          /\ Fresh
      BY <1>4, <1>7, <2>2, <3>2, Zenon
    <3>4. todo' = <<Step("reclaim", f, 0), node(f), Commit>>
      BY <2>2, <3>3, Zenon DEF Advances
    <3>5. Unlinking(f)'
      BY <1>10, <2>2, <3>3, <3>4, Zenon DEF Unlinking, Same
    <3> QED BY <1>1, <1>6, <3>2, <3>3, <3>5, GoesOn, Zenon DEF Operation
  <2>3. CASE /\ Head(todo) = node(f) /\ Current({f})
             /\ NamesOf(recs) = Names \ {f} /\ recs[f] = Free
             /\ Tail(todo) = <<Commit>>
    <3>1. Head(Tail(todo)).kind \in Work
      BY <1>8, <2>3, Fields, Zenon DEF Work
    <3>2. /\ Advances /\ recs' = recs /\ Current({})' /\ Names' = Names /\ Old' = Old
          /\ Fresh
      BY <1>4, <1>7, <2>3, <3>1
    <3>3. todo' = <<Commit>>
      BY <2>3, <3>2 DEF Advances
    <3>4. Unlinking(f)'
      BY <1>10, <2>3, <3>2, <3>3, Zenon DEF Unlinking, Same, Closing
    <3> QED BY <1>1, <1>6, <3>1, <3>2, <3>4, GoesOn, Zenon DEF Operation
  <2> QED BY <1>5, <1>10, <2>1, <2>2, <2>3, UnlinkStages, Zenon
<1>11. CASE \E v \in Value : Writing(f, v)
  <2>1. PICK v \in Value : Writing(f, v)
    BY <1>11, Zenon
  <2>2. Head(todo) # Step("put", f, v)
    BY <1>1, Fields
  <2>3. /\ Head(todo) = node(f) /\ Wrote(f, v) /\ Current({f})
        /\ Tail(todo) = <<Commit>>
    BY <1>5, <2>1, <2>2, WriteStages, Zenon
  <2>4. Head(Tail(todo)).kind \in Work
    BY <1>8, <2>3, Fields, Zenon DEF Work
  <2>5. /\ Advances /\ recs' = recs /\ Current({})' /\ Names' = Names /\ Old' = Old
        /\ Fresh
    BY <1>4, <1>7, <2>3, <2>4
  <2>6. Wrote(f, v)'
    BY <1>3, <2>3, <2>5, WroteStays DEF Advances
  <2>7. todo' = <<Commit>>
    BY <2>3, <2>5, Zenon DEF Advances
  <2>8. Writing(f, v)'
    BY <2>1, <2>5, <2>6, <2>7, Zenon DEF Writing, Same, Closing
  <2> QED BY <1>1, <1>6, <2>4, <2>5, <2>8, GoesOn, Zenon DEF Operation
<1> QED BY <1>2, <1>9, <1>10, <1>11, Zenon DEF Operation

\* Freeing an unlinked node keeps the invariant.
LEMMA ReclaimInv ==
  ASSUME TxnInv, reclaim
  PROVE  Kept
<1>1. pc = "busy" /\ Head(todo).kind = "reclaim"
  BY Zenon DEF reclaim, Doing
<1>2. PICK f \in File : Operation(f)
  BY <1>1, Zenon DEF TxnInv, BusyInv
<1>3. ~Closing
  BY <1>1, ClosingKinds, Zenon
<1>4. /\ \A n : Head(todo) # node(n)
      /\ \A E : Head(todo) # edges(E)
      /\ \A v : Head(todo) # Step("put", f, v)
  BY <1>1, Fields
<1>5. Unlinking(f)
  BY <1>2, <1>3, <1>4, CreateStages, WriteStages, Zenon DEF Operation
<1>6. /\ Head(todo) = Step("reclaim", f, 0) /\ Current({})
      /\ NamesOf(recs) = Names \ {f} /\ recs[f] = Old[f]
      /\ Tail(todo) = <<node(f), Commit>>
  BY <1>3, <1>4, <1>5, UnlinkStages, Zenon
<1>7. /\ Advances /\ map' = map /\ disk' = disk
      /\ recs' = [recs EXCEPT ![f] = Free]
  BY <1>6, ReclaimStep, Zenon
<1>8. Head(Tail(todo)).kind \in Work
  <2>1. Head(Tail(todo)) = node(f)
    BY <1>6, Steps, Zenon
  <2> QED BY <2>1, NodeKind, Zenon
<1>9. Names' = Names /\ Old' = Old
  BY <1>1, <1>7, <1>8, Advanced, Zenon DEF Fresh
<1>10. f \in Node /\ Root \in Node /\ f # Root /\ recs \in [Node -> NodeRecord]
  <2>1. Sound(disk, nodemap.phys, map, recs, working)
    BY <1>1, Built DEF Work
  <2> QED BY <2>1, TxnAssumption DEF Node, Sound, Typed
<1>11. recs'[f] = Free /\ \A x \in Node \ {f} : recs'[x] = recs[x]
  BY <1>7, <1>10, Zenon
<1>12. Current({f})' /\ Same({f, Root})' /\ NamesOf(recs') = NamesOf(recs)
  BY <1>5, <1>6, <1>7, <1>9, <1>10, <1>11, Zenon DEF Current, Same, Unlinking, NamesOf
<1>13. todo' = <<node(f), Commit>>
  BY <1>6, <1>7, Zenon DEF Advances
<1>14. Unlinking(f)'
  BY <1>5, <1>6, <1>9, <1>11, <1>12, <1>13, Zenon DEF Unlinking
<1> QED BY <1>1, <1>7, <1>8, <1>14, GoesOn, Zenon DEF Fresh, Operation

-----------------------------------------------------------------------------
(* The commit                                                              *)

\* The map has every record, and they differ from the committed ones by the
\* operation on f.
Final(f) ==
  /\ Current({})
  /\ \/ /\ f \notin Names /\ recs[f] = Rec("DATA", NoPtr) /\ Same({f, Root})
        /\ NamesOf(recs) = Names \cup {f}
     \/ /\ f \in Names /\ recs[f] = Free /\ Same({f, Root})
        /\ NamesOf(recs) = Names \ {f}
     \/ \E v \in Value : f \in Names /\ Same({f}) /\ Wrote(f, v)

\* A commit begins with everything written but the roots of the tree.
LEMMA AtCommit ==
  ASSUME TxnInv, pc = "busy", Head(todo).kind \in {"map", "bitmap", "sb"}
  PROVE  Closing /\ \E f \in File : Final(f)
<1>1. PICK f \in File : Operation(f)
  BY Zenon DEF TxnInv, BusyInv
<1>2. ASSUME NEW a, NEW b, NEW c, NEW d, NEW e, a.kind \notin {"map", "bitmap", "sb"}
      PROVE  todo # <<a, b>> /\ todo # <<a, b, c>> /\ todo # <<a, b, c, d>> /\ todo # <<a, b, c, d, e>>
  BY <1>2, Steps
<1>3. \A n : node(n).kind \notin {"map", "bitmap", "sb"}
  BY Fields, Zenon
<1>4. \A E : edges(E).kind \notin {"map", "bitmap", "sb"}
  BY Fields, Zenon
<1>5. \A n, c : Step("put", n, c).kind \notin {"map", "bitmap", "sb"}
  BY Fields, Zenon
<1>6. \A n, c : Step("reclaim", n, c).kind \notin {"map", "bitmap", "sb"}
  BY Fields
<1>7. CASE Creating(f)
  <2>1. Closing /\ NamesOf(recs) = Names \cup {f} /\ Current({})
    BY <1>2, <1>3, <1>4, <1>7 DEF Creating
  <2> QED BY <1>7, <2>1, Zenon DEF Creating, Final
<1>8. CASE Unlinking(f)
  <2>1. Closing /\ NamesOf(recs) = Names \ {f} /\ recs[f] = Free /\ Current({})
    BY <1>2, <1>3, <1>4, <1>6, <1>8, Zenon DEF Unlinking
  <2> QED BY <1>8, <2>1, Zenon DEF Unlinking, Final
<1>9. CASE \E v \in Value : Writing(f, v)
  <2>1. PICK v \in Value : Writing(f, v)
    BY <1>9, Zenon
  <2>2. Closing /\ Wrote(f, v) /\ Current({})
    BY <1>2, <1>3, <1>5, <2>1, Zenon DEF Writing
  <2> QED BY <2>1, <2>2, Zenon DEF Writing, Final
<1> QED BY <1>1, <1>7, <1>8, <1>9, Zenon DEF Operation

\* A step of the commit before the superblock.
LEMMA CommitGoesOn ==
  ASSUME TxnInv, pc = "busy", NEW f \in File, Final(f), Closing',
         UNCHANGED <<pc, memory, map, recs>>,
         NEW mb, Sound(disk, mb, map, recs, working),
         \A b \in working : disk'[b] = disk[b],
         SlotInv', DiskInv', MemInv', Building'
  PROVE  TxnInv'
<1>1. Names' = Names /\ Old' = Old /\ gen' = gen
  BY Zenon DEF Names, Old, memory
<1>2. recs' = recs /\ map' = map /\ Current({})'
  BY Zenon DEF Final, Current
<1>3. \A S : Same(S) => Same(S)'
  BY <1>1, <1>2, Zenon DEF Same
<1>4. (Operation(f))'
  <2>1. CASE /\ f \notin Names /\ recs[f] = Rec("DATA", NoPtr) /\ Same({f, Root})
             /\ NamesOf(recs) = Names \cup {f}
    <3>1. Creating(f)'
      BY <1>1, <1>2, <1>3, <2>1, Zenon DEF Creating
    <3> QED BY <3>1, Zenon DEF Operation
  <2>2. CASE /\ f \in Names /\ recs[f] = Free /\ Same({f, Root})
             /\ NamesOf(recs) = Names \ {f}
    <3>1. Unlinking(f)'
      BY <1>1, <1>2, <1>3, <2>2, Zenon DEF Unlinking
    <3> QED BY <3>1, Zenon DEF Operation
  <2>3. ASSUME NEW v \in Value, f \in Names, Same({f}), Wrote(f, v)
        PROVE  Writing(f, v)'
    <3>1. Wrote(f, v)'
      BY <1>2, <2>3, WroteStays, Zenon
    <3> QED BY <1>1, <1>2, <1>3, <2>3, <3>1, Zenon DEF Writing
  <2> QED BY <2>1, <2>2, <2>3, Zenon DEF Final, Operation
<1>5. BusyInv'
  BY <1>1, <1>4, Zenon DEF BusyInv, TxnInv
<1> QED BY <1>5, Zenon DEF TxnInv

\* Writing the node map keeps the invariant.
LEMMA MapInv ==
  ASSUME TxnInv, commit_map
  PROVE  Kept
<1>1. pc = "busy" /\ Head(todo).kind = "map" /\ UNCHANGED <<sb, bitmap>>
  BY Zenon DEF commit_map, Doing
<1>2. PICK f \in File : Final(f)
  BY <1>1, AtCommit, Zenon
<1>3. Sound(disk, nodemap.phys, map, recs, working)
  BY <1>1, Built, Zenon DEF Work
<1>4. CASE Abort /\ UNCHANGED disk
  BY <1>1, <1>4, Quiet, Zenon DEF Kept, Fresh
<1>5. CASE allocatable # {} /\ disk' = [disk EXCEPT ![alloc_block] = Torn] /\ (Abort \/ Lost)
  BY <1>1, <1>5, Allocates, Quiet, Zenon DEF Kept, Fresh
<1>6. ASSUME NEW b, b = alloc_block, allocatable # {}, disk' = [disk EXCEPT ![b] = map],
             working' = free_block(working \cup {b}, nodemap.phys),
             todo' = <<Step("bitmap", Root, b)>>, UNCHANGED <<pc, memory, map, recs>>
      PROVE  Kept
  <2>1. b \in allocatable /\ b \in Block \ working /\ working \in SUBSET Block
    BY <1>6, Allocates, Zenon DEF allocatable, TxnInv, MemInv
  <2>2. disk'[b] = map /\ \A y \in working : disk'[y] = disk[y]
    BY <1>6, <2>1, Zenon DEF TxnInv, SlotInv
  <2>3. Sound(disk', b, map, recs, working')
    <3>1. working' = (working \cup {b}) \ {nodemap.phys}
      BY <1>6, Zenon DEF free_block
    <3> QED BY <1>3, <2>1, <2>2, <3>1, MapSound, Zenon
  <2>4. Building'
    BY <1>6, <2>1, <2>2, <2>3, Zenon DEF Building
  <2>5. working' \subseteq Block
    BY <2>3, Zenon DEF Sound, Typed
  <2>6. SlotInv' /\ DiskInv' /\ MemInv' /\ Found' = Found
    BY <1>1, <1>6, <2>1, <2>5, Quiet, Zenon DEF Fresh
  <2>7. Closing'
    BY <1>6, <2>1, Zenon DEF Closing
  <2> QED BY <1>1, <1>2, <1>3, <1>6, <2>2, <2>4, <2>6, <2>7, CommitGoesOn, Zenon DEF Kept
<1> QED BY <1>4, <1>5, <1>6, Zenon DEF commit_map, WriteTo

\* The tree that a commit publishes.
LEMMA AtRoots ==
  ASSUME TxnInv, pc = "busy", Head(todo).kind \in {"bitmap", "sb"}
  PROVE  \E b \in Block :
           /\ Sound(disk, b, map, recs, working) /\ disk[b] = map /\ Head(todo).c = b
           /\ Head(todo).kind = "sb" => bitmap[parity] = working
<1>1. PICK b \in Block :
        /\ Sound(disk, b, map, recs, working) /\ disk[b] = map
        /\ \/ todo = <<Step("bitmap", Root, b)>>
           \/ todo = <<Step("sb", Root, b)>> /\ bitmap[parity] = working
  BY Zenon DEF TxnInv, BusyInv, Building
<1>2. CASE todo = <<Step("bitmap", Root, b)>>
  <2>1. Head(todo) = Step("bitmap", Root, b)
    BY <1>2, Steps, Zenon
  <2> QED BY <1>1, <2>1, Fields
<1>3. CASE todo = <<Step("sb", Root, b)>> /\ bitmap[parity] = working
  <2>1. Head(todo) = Step("sb", Root, b)
    BY <1>3, Steps, Zenon
  <2> QED BY <1>1, <1>3, <2>1, Fields
<1> QED BY <1>1, <1>2, <1>3, Zenon

\* Writing the bitmap copy keeps the invariant.
LEMMA BitmapInv ==
  ASSUME TxnInv, commit_bitmap
  PROVE  Kept
<1>1. pc = "busy" /\ Head(todo).kind = "bitmap" /\ UNCHANGED <<sb, disk>>
  BY Zenon DEF commit_bitmap, Doing
<1>2. PICK f \in File : Final(f)
  BY <1>1, AtCommit, Zenon
<1>3. PICK b \in Block : Sound(disk, b, map, recs, working) /\ disk[b] = map /\ Head(todo).c = b
  BY <1>1, AtRoots, Zenon
<1>4. parity \in Slots /\ parity # LiveSlot
  BY <1>1, ParityIsOther, Zenon DEF TxnInv
<1>5. working \in SUBSET Block
  BY Zenon DEF TxnInv, MemInv
<1>6. ASSUME NEW x \in (SUBSET Block) \cup {Torn}, bitmap' = [bitmap EXCEPT ![parity] = x]
      PROVE  SlotInv' /\ DiskInv' /\ Live' = Live /\ Found' = Found
  <2>1. bitmap' \in [Slots -> (SUBSET Block) \cup {Torn}] /\ bitmap'[LiveSlot] = bitmap[LiveSlot]
    <3>1. bitmap \in [Slots -> (SUBSET Block) \cup {Torn}]
      BY Zenon DEF TxnInv, SlotInv
    <3>2. LiveSlot \in Slots
      BY LiveIs, Zenon DEF TxnInv
    <3> QED BY <1>4, <1>6, <3>1, <3>2, Zenon
  <2>2. SlotInv' /\ LiveSlot' = LiveSlot /\ Live' = Live
    BY <1>1, <1>4, <2>1, LiveStays, Zenon DEF TxnInv, SlotInv
  <2> QED BY <1>1, <2>1, <2>2, DiskStays, Zenon DEF TxnInv
<1>7. CASE /\ bitmap' = [bitmap EXCEPT ![parity] = working]
           /\ todo' = <<Step("sb", Root, Head(todo).c)>>
           /\ UNCHANGED <<pc, memory, working, map, recs>>
  <2>1. SlotInv' /\ DiskInv' /\ Live' = Live /\ Found' = Found
    BY <1>5, <1>6, <1>7, Zenon
  <2>2. MemInv'
    BY <1>1, <1>7, <2>1, Zenon DEF TxnInv, MemInv, MemoryIsLive, memory
  <2>3. bitmap'[parity'] = working'
    <3>1. parity' = parity
      BY <1>7, Zenon DEF parity, new_gen, memory
    <3> QED BY <1>4, <1>7, <3>1, Zenon DEF TxnInv, SlotInv
  <2>4. todo' = <<Step("sb", Root, b)>>
    BY <1>3, <1>7, Zenon
  <2>5. Building' /\ Closing'
    BY <1>1, <1>3, <1>7, <2>3, <2>4, Zenon DEF Building, Closing
  <2> QED BY <1>1, <1>2, <1>3, <1>7, <2>1, <2>2, <2>5, CommitGoesOn, Zenon DEF Kept
<1>8. CASE bitmap' = [bitmap EXCEPT ![parity] = Torn] /\ (Abort \/ Lost)
  BY <1>1, <1>6, <1>8, Stops, Zenon DEF Kept
<1> QED BY <1>7, <1>8, Zenon DEF commit_bitmap


-----------------------------------------------------------------------------
(* The publish                                                             *)

\* What a reader of the records r finds.
Reads(d, r) ==
  [x \in File |-> IF x \notin NamesOf(r) THEN Absent
                  ELSE IF r[x].bp.phys = 0 THEN Empty ELSE d[r[x].bp.phys]]

\* Reading from a node map is reading its records.
LEMMA ReadsContents ==
  ASSUME NEW d, NEW bp
  PROVE  ContentsOf(d, bp) = Reads(d, Records(bp))
<1>1. \A n \in Node : Records(bp)[n] = RecordIn(bp.crc, n)
  BY Zenon DEF Records
<1>2. Root \in Node /\ \A f \in File : f \in Node
  BY Zenon DEF Node
<1>3. NamesIn(bp.crc) = NamesOf(Records(bp))
  BY <1>1, <1>2, Zenon DEF NamesIn, NamesOf
<1> QED BY <1>1, <1>2, <1>3, Zenon DEF ContentsOf, Reads

\* The records of a finished transaction read as one operation on the store.
LEMMA OneOperation ==
  ASSUME TxnInv, pc = "busy", NEW f \in File, Final(f)
  PROVE  /\ Reads(disk, Old) \in [File -> Value \cup {Absent, Empty}]
         /\ \/ /\ Reads(disk, Old)[f] = Absent
               /\ Reads(disk, recs) = [Reads(disk, Old) EXCEPT ![f] = Empty]
            \/ /\ Reads(disk, Old)[f] # Absent
               /\ Reads(disk, recs) = [Reads(disk, Old) EXCEPT ![f] = Absent]
            \/ /\ Reads(disk, Old)[f] # Absent
               /\ \E v \in Value : Reads(disk, recs) = [Reads(disk, Old) EXCEPT ![f] = v]
<1>1. /\ Sound(disk, nodemap.phys, nodemap.crc, Old, committed)
      /\ Names = NamesOf(Old) /\ Names \subseteq File
  BY Mounted, Zenon
<1>2. \A x \in File : Old[x].bp.phys # 0 => disk[Old[x].bp.phys] \in Value
  BY <1>1, Zenon DEF Sound, OnDisk
<1>3. \A x \in File : x \in Node /\ x # Root
  BY TxnAssumption, Zenon DEF Node
<1>4. \A x \in File : x \in Names => Reads(disk, Old)[x] \in Value \cup {Empty}
  BY <1>1, <1>2, Zenon DEF Reads
<1>5. \A x \in File : x \notin Names => Reads(disk, Old)[x] = Absent
  BY <1>1, Zenon DEF Reads
<1>6. f \in Names => Reads(disk, Old)[f] # Absent
  BY <1>4, TxnAssumption, Zenon
<1>7. Reads(disk, Old) \in [File -> Value \cup {Absent, Empty}]
  BY <1>1, <1>2, Zenon DEF Reads
<1>8. ASSUME NEW c, Reads(disk, recs)[f] = c,
             \A x \in File \ {f} : Reads(disk, recs)[x] = Reads(disk, Old)[x]
      PROVE  Reads(disk, recs) = [Reads(disk, Old) EXCEPT ![f] = c]
  <2>1. /\ Reads(disk, recs) = [x \in File |-> Reads(disk, recs)[x]]
        /\ Reads(disk, Old) = [x \in File |-> Reads(disk, Old)[x]]
    BY Zenon DEF Reads
  <2> QED BY <1>8, <2>1, Zenon
<1>9. ASSUME NEW x \in File, recs[x] = Old[x], x \in NamesOf(recs) <=> x \in Names
      PROVE  Reads(disk, recs)[x] = Reads(disk, Old)[x]
  BY <1>1, <1>9, Zenon DEF Reads
<1>10. CASE /\ f \notin Names /\ recs[f] = Rec("DATA", NoPtr) /\ Same({f, Root})
            /\ NamesOf(recs) = Names \cup {f}
  <2>1. recs[f].bp.phys = 0
    BY <1>10 DEF Rec, NoPtr, Ptr
  <2>2. Reads(disk, recs)[f] = Empty
    BY <1>10, <2>1, Zenon DEF Reads
  <2>3. \A x \in File \ {f} : Reads(disk, recs)[x] = Reads(disk, Old)[x]
    BY <1>3, <1>9, <1>10, Zenon DEF Same
  <2> QED BY <1>5, <1>7, <1>8, <1>10, <2>2, <2>3, Zenon
<1>11. CASE /\ f \in Names /\ recs[f] = Free /\ Same({f, Root})
            /\ NamesOf(recs) = Names \ {f}
  <2>1. Reads(disk, recs)[f] = Absent
    BY <1>11, Zenon DEF Reads
  <2>2. \A x \in File \ {f} : Reads(disk, recs)[x] = Reads(disk, Old)[x]
    BY <1>3, <1>9, <1>11, Zenon DEF Same
  <2> QED BY <1>6, <1>7, <1>8, <1>11, <2>1, <2>2, Zenon
<1>12. ASSUME NEW v \in Value, f \in Names, Same({f}), Wrote(f, v)
       PROVE  Reads(disk, recs) = [Reads(disk, Old) EXCEPT ![f] = v]
  <2>1. NamesOf(recs) = Names
    BY <1>1, <1>3, <1>12, Zenon DEF Same, NamesOf, Node
  <2>2. Reads(disk, recs)[f] = v
    BY <1>12, <2>1, Zenon DEF Reads, Wrote
  <2>3. \A x \in File \ {f} : Reads(disk, recs)[x] = Reads(disk, Old)[x]
    BY <1>3, <1>9, <1>12, <2>1, Zenon DEF Same
  <2> QED BY <1>8, <2>2, <2>3, Zenon
<1> QED BY <1>6, <1>7, <1>10, <1>11, <1>12, Zenon DEF Final


\* The tree a finished transaction publishes can be mounted.
LEMMA Publishable ==
  ASSUME TxnInv, pc = "busy", NEW f \in File, Final(f), NEW b \in Block,
         Sound(disk, b, map, recs, working), disk[b] = map
  PROVE  Records(Ptr(b, map)) = recs /\ Committed(disk, Ptr(b, map), working)
<1>1. Ptr(b, map).phys = b /\ Ptr(b, map).crc = map
  BY Zenon DEF Ptr
<1>2. Records(Ptr(b, map)) = recs
  <2>1. recs \in [Node -> NodeRecord] /\ \A n \in Node : RecordIn(map, n) = recs[n]
    BY Zenon DEF Sound, Typed, Final, Current
  <2> QED BY <1>1, <2>1, Zenon DEF Records
<1>3. \A x \in File : x \in Names <=> Old[x] # Free
  BY Mounted, Zenon
<1>4. \A x \in File : x \in Node /\ x # Root
  BY TxnAssumption, Zenon DEF Node
<1>5. \A x \in File : x \in NamesOf(recs) <=> recs[x] # Free
  <2>1. CASE /\ f \notin Names /\ recs[f] = Rec("DATA", NoPtr) /\ Same({f, Root})
             /\ NamesOf(recs) = Names \cup {f}
    <3>1. recs[f] # Free
      <4>1. Rec("DATA", NoPtr).type # "FREE" /\ Free.type = "FREE"
        BY Zenon DEF Free, Rec
      <4> QED BY <2>1, <4>1, Zenon
    <3> QED BY <1>3, <1>4, <2>1, <3>1, Zenon DEF Same
  <2>2. CASE /\ f \in Names /\ recs[f] = Free /\ Same({f, Root})
             /\ NamesOf(recs) = Names \ {f}
    BY <1>3, <1>4, <2>2, Zenon DEF Same
  <2>3. ASSUME NEW v \in Value, f \in Names, Same({f}), Wrote(f, v)
        PROVE  \A x \in File : x \in NamesOf(recs) <=> recs[x] # Free
    <3>1. NamesOf(recs) = Names
      <4>1. Root \in Node \ {f} /\ Names = NamesOf(Old)
        BY <1>4, Mounted, Zenon DEF Node
      <4> QED BY <2>3, <4>1, Zenon DEF Same, NamesOf
    <3>2. recs[f] # Free
      <4>1. Free.bp.phys = 0
        BY DEF Free, Rec, NoPtr, Ptr
      <4> QED BY <2>3, <4>1, Zenon DEF Wrote
    <3> QED BY <1>3, <1>4, <2>3, <3>1, <3>2, Zenon DEF Same
  <2> QED BY <2>1, <2>2, <2>3, Zenon DEF Final
<1> QED BY <1>1, <1>2, <1>5, Zenon DEF Committed

\* Writing the superblock makes its slot the live one and changes the store
\* by one operation.
LEMMA Publish ==
  ASSUME TxnInv, pc = "busy", Head(todo).kind = "sb", NEW new,
         new = [gen |-> new_gen, nodemap |-> Ptr(Head(todo).c, map), bm_crc |-> working],
         sb' = [sb EXCEPT ![parity] = new], UNCHANGED <<bitmap, disk>>
  PROVE  /\ SlotInv' /\ DiskInv' /\ Live' = new /\ new.gen \in 0..MaxGen
         /\ \E f \in File :
              \/ Found[f] = Absent /\ Found' = [Found EXCEPT ![f] = Empty]
              \/ Found[f] # Absent /\ Found' = [Found EXCEPT ![f] = Absent]
              \/ Found[f] # Absent /\ \E v \in Value : Found' = [Found EXCEPT ![f] = v]
<1>1. PICK f \in File : Final(f)
  BY AtCommit, Zenon
<1>2. PICK b \in Block : /\ Sound(disk, b, map, recs, working) /\ disk[b] = map /\ Head(todo).c = b
                         /\ bitmap[parity] = working
  BY AtRoots, Zenon
<1>3. Records(Ptr(b, map)) = recs /\ Committed(disk, Ptr(b, map), working)
  BY <1>1, <1>2, Publishable, Zenon
<1>4. parity \in Slots /\ gen = Live.gen /\ gen \in Nat /\ parity = (gen + 1) % 2
  BY ParityIsOther, Zenon DEF TxnInv, parity, new_gen
<1>5. gen + 1 \in 0..MaxGen
  BY <1>4, TxnAssumption DEF TxnInv, BusyInv
<1>6. new.gen = gen + 1 /\ new.nodemap = Ptr(b, map) /\ new.bm_crc = working
  BY <1>2, Zenon DEF new_gen
<1>7. new \in Superblock /\ new # Torn
  <2>1. Ptr(b, map) \in [phys: Block, crc: NodeMap] /\ working \in SUBSET Block
    BY <1>2, Zenon DEF Ptr, Sound, Typed
  <2>2. new \in Superblock
    BY <1>2, <1>5, <2>1, Zenon DEF Superblock, new_gen
  <2> QED BY <2>2, TxnAssumption, Zenon
<1>8. PICK s \in Slots : s = parity
  BY <1>4, Zenon
<1>9. /\ sb \in [Slots -> Superblock \cup {Torn}] /\ sb' = [sb EXCEPT ![s] = new]
      /\ \A x \in Slots : sb[x] # Torn => sb[x].gen % 2 = x
  BY <1>8, Zenon DEF TxnInv, SlotInv
<1>10. sb'[s] = new /\ \A x \in Slots \ {s} : sb'[x] = sb[x]
  BY <1>9, Zenon
<1>11. SlotInv'
  <2>1. sb' \in [Slots -> Superblock \cup {Torn}]
    BY <1>7, <1>9, Zenon
  <2>2. \A x \in Slots : sb'[x] # Torn => sb'[x].gen % 2 = x
    <3>1. new.gen % 2 = s
      BY <1>4, <1>6, <1>8, Zenon
    <3> QED BY <1>9, <1>10, <3>1, Zenon
  <2>3. \E x \in Slots : sb'[x] # Torn
    BY <1>7, <1>10, Zenon
  <2> QED BY <2>1, <2>2, <2>3, Zenon DEF TxnInv, SlotInv
<1>12. LiveSlot' = s
  <2>1. \A x \in Slots : sb[x] # Torn => sb[x].gen <= Live.gen /\ sb[x].gen \in 0..MaxGen
    BY <1>9, LiveIs, Zenon DEF TxnInv, Superblock
  <2>2. \A x \in Slots : x # s /\ sb'[x] # Torn => sb'[x].gen \in Int /\ sb'[x].gen < sb'[s].gen
    BY <1>4, <1>6, <1>10, <2>1
  <2>3. sb'[s].gen \in Int /\ sb'[s] # Torn
    BY <1>4, <1>6, <1>7, <1>10
  <2>4. Latest(sb') = s
    BY <2>2, <2>3, LiveWins, Zenon
  <2> QED BY <2>4, Zenon DEF LiveSlot, Newest, Latest
<1>13. Live' = new
  BY <1>10, <1>12, Zenon DEF Live
<1>14. Live'.nodemap = Ptr(b, map) /\ Live'.bm_crc = working
  BY <1>6, <1>13, Zenon
<1>15. DiskInv'
  <2>1. bitmap'[LiveSlot'] = working
    BY <1>2, <1>8, <1>12, Zenon
  <2>2. Committed(disk', Live'.nodemap, Live'.bm_crc)
    BY <1>3, <1>14, Zenon
  <2> QED BY <1>14, <2>1, <2>2, Zenon DEF DiskInv
<1>16. Found = Reads(disk, Old) /\ Found' = Reads(disk, recs)
  <2>1. nodemap = Live.nodemap
    BY Zenon DEF TxnInv, MemInv, MemoryIsLive
  <2>2. Found = ContentsOf(disk, nodemap)
    BY <2>1, Zenon DEF Found, Contents, ContentsOf
  <2>3. Found' = ContentsOf(disk, Ptr(b, map))
    <3>1. PICK bp : bp = Ptr(b, map)
      BY Zenon
    <3>2. Found' = Contents(bp)'
      BY <1>14, <3>1, Zenon DEF Found
    <3>3. Contents(bp)' = ContentsOf(disk', bp)
      BY Zenon DEF Contents, ContentsOf
    <3> QED BY <3>1, <3>2, <3>3, Zenon
  <2> QED BY <1>3, <2>2, <2>3, ReadsContents, Zenon DEF Old
<1>17. \/ Found[f] = Absent /\ Found' = [Found EXCEPT ![f] = Empty]
       \/ Found[f] # Absent /\ Found' = [Found EXCEPT ![f] = Absent]
       \/ Found[f] # Absent /\ \E v \in Value : Found' = [Found EXCEPT ![f] = v]
  BY <1>1, <1>16, OneOperation, Zenon
<1> QED BY <1>5, <1>6, <1>11, <1>13, <1>15, <1>17, Zenon


\* A change of the store by one operation, or none, is what AtomicStore allows.
LEMMA StoreStep ==
  ASSUME \/ Found' = Found
         \/ \E f \in File :
              \/ Found[f] = Absent /\ Found' = [Found EXCEPT ![f] = Empty]
              \/ Found[f] # Absent /\ Found' = [Found EXCEPT ![f] = Absent]
              \/ Found[f] # Absent /\ \E v \in Value : Found' = [Found EXCEPT ![f] = v]
  PROVE  [Store!StoreNext]_Found
<1> SUFFICES ASSUME Found' # Found PROVE Store!StoreNext
  BY Zenon
<1>1. PICK f \in File :
        \/ Found[f] = Absent /\ Found' = [Found EXCEPT ![f] = Empty]
        \/ Found[f] # Absent /\ Found' = [Found EXCEPT ![f] = Absent]
        \/ Found[f] # Absent /\ \E v \in Value : Found' = [Found EXCEPT ![f] = v]
  OBVIOUS
<1> QED BY <1>1, Zenon DEF Store!StoreNext, Store!Create, Store!Unlink, Store!Write, Found

\* The superblock write, when one that fails has not landed.
LEMMA SbInv ==
  ASSUME TxnInv, commit_sb, Ambiguous = FALSE
  PROVE  TxnInv' /\ [Store!StoreNext]_Found
<1>1. pc = "busy" /\ Head(todo).kind = "sb" /\ UNCHANGED <<bitmap, disk>>
  BY Zenon DEF commit_sb, Doing
<1>2. PICK new : new = [gen |-> new_gen, nodemap |-> Ptr(Head(todo).c, map), bm_crc |-> working]
  BY Zenon
<1>3. parity \in Slots /\ parity # LiveSlot
  BY <1>1, ParityIsOther, Zenon DEF TxnInv
<1>4. CASE /\ sb' = [sb EXCEPT ![parity] = new]
           /\ pc' = "idle"
           /\ gen' = new_gen /\ nodemap' = new.nodemap /\ committed' = working
           /\ todo' = <<>>
           /\ UNCHANGED working
  <2>1. /\ SlotInv' /\ DiskInv' /\ Live' = new /\ new.gen \in 0..MaxGen
        /\ [Store!StoreNext]_Found
    BY <1>1, <1>2, <1>4, Publish, StoreStep, Zenon
  <2>2. new.gen = new_gen /\ new.bm_crc = working /\ new.nodemap = Ptr(Head(todo).c, map)
    BY <1>2, Zenon
  <2>3. working \subseteq Block /\ Head(todo).c \in Block
    BY <1>1, AtRoots, Zenon DEF TxnInv, MemInv
  <2>4. nodemap'.phys \in Block \cup {0}
    BY <1>4, <2>2, <2>3 DEF Ptr
  <2>5. MemoryIsLive'
    BY <1>4, <2>1, <2>2, Zenon DEF MemoryIsLive
  <2>6. MemInv'
    BY <1>4, <2>1, <2>2, <2>3, <2>4, <2>5, Zenon DEF MemInv
  <2>7. BusyInv'
    BY <1>4, Zenon DEF BusyInv
  <2> QED BY <2>1, <2>6, <2>7, Zenon DEF TxnInv
<1>5. CASE (sb' = sb \/ sb' = [sb EXCEPT ![parity] = Torn]) /\ (Abort \/ Lost)
  <2>1. SlotInv' /\ LiveSlot' = LiveSlot /\ Live' = Live
    BY <1>1, <1>3, <1>5, LiveStays, Zenon DEF TxnInv, SlotInv
  <2>2. DiskInv' /\ Found' = Found
    BY <1>1, <2>1, DiskStays, Zenon DEF TxnInv
  <2> QED BY <1>1, <1>5, <2>1, <2>2, Stops, StoreStep, Zenon
<1>6. CASE sb' = [sb EXCEPT ![parity] = new] /\ Lost
  <2>1. SlotInv' /\ DiskInv' /\ [Store!StoreNext]_Found
    BY <1>1, <1>2, <1>6, Publish, StoreStep, Zenon
  <2>2. MemInv'
    BY <1>6, TxnAssumption DEF MemInv, Lost, NoPtr, Ptr
  <2> QED BY <1>6, <2>1, <2>2, Zenon DEF TxnInv, BusyInv, Lost
<1> QED BY <1>2, <1>4, <1>5, <1>6, Zenon DEF commit_sb

-----------------------------------------------------------------------------
(* Operations, mounts and crashes                                          *)

\* A step that writes nothing.
LEMMA SameDisk ==
  ASSUME TxnInv, UNCHANGED ondisk
  PROVE  SlotInv' /\ DiskInv' /\ Live' = Live /\ Found' = Found
<1>1. sb' = sb /\ bitmap' = bitmap /\ disk' = disk
  BY Zenon DEF ondisk
<1>2. SlotInv' /\ LiveSlot' = LiveSlot /\ Live' = Live
  BY <1>1, Zenon DEF TxnInv, SlotInv, LiveSlot, Newest, Live
<1> QED BY <1>1, <1>2, DiskStays, Zenon DEF TxnInv

\* The invariant after Begin, for records that are sound.
LEMMA Begins ==
  ASSUME TxnInv, pc = "idle", NEW r, NEW steps, Begin(r, steps),
         Sound(disk, nodemap.phys, nodemap.crc, r, committed),
         NEW f \in File, (Operation(f))',
         Head(todo').kind \in Work
  PROVE  Kept
<1>1. /\ gen < MaxGen /\ pc' = "busy" /\ working' = committed /\ map' = nodemap.crc
      /\ recs' = r /\ UNCHANGED ondisk /\ UNCHANGED memory
  BY Zenon DEF Begin
<1>2. SlotInv' /\ DiskInv' /\ Live' = Live /\ Found' = Found
  BY <1>1, SameDisk, Zenon
<1>3. gen' = gen /\ nodemap' = nodemap /\ committed' = committed /\ disk' = disk
  BY <1>1, Zenon DEF memory, ondisk
<1>4. MemInv'
  BY <1>1, <1>2, <1>3, Zenon DEF TxnInv, MemInv, MemoryIsLive
<1>5. Building'
  BY <1>1, <1>3, Zenon DEF Building, Work
<1>6. BusyInv'
  BY <1>1, <1>3, <1>5, Zenon DEF BusyInv
<1> QED BY <1>2, <1>4, <1>6, Zenon DEF TxnInv, Kept


\* What Begin leaves of the committed tree, and the records it starts from.
LEMMA Begun ==
  ASSUME TxnInv, pc = "idle", NEW r, NEW steps, Begin(r, steps)
  PROVE  /\ Names' = Names /\ Old' = Old /\ recs' = r
         /\ todo' = steps
         /\ \A n \in Node : RecordIn(map', n) = Old[n]
         /\ Sound(disk, nodemap.phys, nodemap.crc, Old, committed)
<1>1. /\ map' = nodemap.crc /\ recs' = r /\ nodemap' = nodemap
      /\ todo' = steps
  BY Zenon DEF Begin, memory
<1>2. Names' = Names /\ Old' = Old
  BY <1>1, Zenon DEF Names, Old
<1>3. \A n \in Node : RecordIn(map', n) = Old[n]
  BY <1>1, Zenon DEF Old, Records
<1> QED BY <1>1, <1>2, <1>3, Mounted, Zenon

\* gfs_create_at starts from the committed records and a new node.
LEMMA CreateInv ==
  ASSUME TxnInv, NEW f \in File, gfs_create_at(f)
  PROVE  Kept
<1> DEFINE R == Rec("DATA", NoPtr)
           r == [Old EXCEPT ![f] = R]
           steps == <<node(f), edges(Names \cup {f}), node(Root), Commit>>
<1>1. pc = "idle" /\ f \notin Names /\ Begin(r, steps)
  BY Zenon DEF gfs_create_at, node, edges, Old
<1>2. f \in Node /\ Root \in Node /\ f # Root
  BY TxnAssumption, Zenon DEF Node
<1>3. R \in NodeRecord /\ R.type # "FREE" /\ R.bp.phys = 0
  BY Zenon DEF Rec, NoPtr, Ptr, NodeRecord, Pointer
<1> HIDE DEF R, r, steps
<1>4. /\ Names' = Names /\ Old' = Old /\ recs' = r /\ todo' = steps
      /\ \A n \in Node : RecordIn(map', n) = Old[n]
      /\ Sound(disk, nodemap.phys, nodemap.crc, Old, committed)
  BY <1>1, Begun, Zenon
<1>5. Old[f] = Free /\ Old \in [Node -> NodeRecord] /\ committed \in SUBSET Block
  BY <1>1, <1>4, Mounted, Zenon DEF Sound, Typed
<1>6. Sound(disk, nodemap.phys, nodemap.crc, r, committed)
  <2>1. Old[f].bp.phys = 0
    BY <1>5 DEF Free, Rec, NoPtr, Ptr
  <2>2. 0 \notin committed
    BY <1>5, TxnAssumption DEF Block
  <2>3. committed = (committed \cup ({R.bp.phys} \ {0})) \ {Old[f].bp.phys}
    BY <1>3, <2>1, <2>2, Zenon
  <2>4. r = [Old EXCEPT ![f] = R]
    BY Zenon DEF r
  <2> QED BY <1>2, <1>3, <1>4, <2>3, <2>4, NodeSound, Zenon
<1>7. todo' = <<node(f), edges(Names \cup {f}), node(Root), Commit>>
  BY <1>4, Zenon DEF steps
<1>8. Head(todo').kind \in Work
  <2>1. Head(<<node(f), edges(Names \cup {f}), node(Root), Commit>>) = node(f)
    BY Steps
  <2> QED BY <1>7, <2>1, Fields DEF Work
<1>9. recs'[f] = R /\ \A x \in Node \ {f} : recs'[x] = Old[x]
  BY <1>2, <1>4, <1>5, Zenon DEF r
<1>10. Current({f})' /\ Same({f, Root})'
  BY <1>4, <1>9, Zenon DEF Current, Same
<1>11. Creating(f)'
  BY <1>1, <1>2, <1>4, <1>7, <1>9, <1>10, Zenon DEF Creating, R
<1> QED BY <1>1, <1>6, <1>8, <1>11, Begins, Zenon DEF Operation

\* gfs_write starts from the committed records.
LEMMA WriteInv ==
  ASSUME TxnInv, NEW f \in File, NEW v \in Value, gfs_write(f, v)
  PROVE  Kept
<1> DEFINE steps == <<Step("put", f, v), node(f), Commit>>
<1>1. pc = "idle" /\ f \in Names /\ Begin(Old, steps)
  BY Zenon DEF gfs_write, node, Old
<1> HIDE DEF steps
<1>2. /\ Names' = Names /\ Old' = Old /\ recs' = Old /\ todo' = steps
      /\ \A n \in Node : RecordIn(map', n) = Old[n]
      /\ Sound(disk, nodemap.phys, nodemap.crc, Old, committed)
  BY <1>1, Begun, Zenon
<1>3. todo' = <<Step("put", f, v), node(f), Commit>>
  BY <1>2, Zenon DEF steps
<1>4. Head(todo').kind \in Work
  <2>1. Head(<<Step("put", f, v), node(f), Commit>>) = Step("put", f, v)
    BY Steps
  <2>2. Step("put", f, v).kind = "put"
    BY Fields
  <2> QED BY <1>3, <2>1, <2>2, Zenon DEF Work
<1>5. Current({})' /\ Same({f})'
  BY <1>2, Zenon DEF Current, Same
<1>6. Writing(f, v)'
  BY <1>1, <1>2, <1>3, <1>5, Zenon DEF Writing
<1> QED BY <1>1, <1>2, <1>4, <1>6, Begins, Zenon DEF Operation

\* So does gfs_unlink.
LEMMA UnlinkInv ==
  ASSUME TxnInv, NEW f \in File, gfs_unlink(f)
  PROVE  Kept
<1> DEFINE steps == <<edges(Names \ {f}), node(Root), Step("reclaim", f, 0), node(f), Commit>>
<1>1. pc = "idle" /\ f \in Names /\ Begin(Old, steps)
  BY Zenon DEF gfs_unlink, node, edges, Old
<1> HIDE DEF steps
<1>2. /\ Names' = Names /\ Old' = Old /\ recs' = Old /\ todo' = steps
      /\ \A n \in Node : RecordIn(map', n) = Old[n]
      /\ Sound(disk, nodemap.phys, nodemap.crc, Old, committed)
  BY <1>1, Begun, Zenon
<1>3. todo' = <<edges(Names \ {f}), node(Root), Step("reclaim", f, 0), node(f), Commit>>
  BY <1>2, Zenon DEF steps
<1>4. Head(todo').kind \in Work
  <2>1. Head(<<edges(Names \ {f}), node(Root), Step("reclaim", f, 0), node(f), Commit>>) = edges(Names \ {f})
    BY Steps
  <2>2. edges(Names \ {f}).kind = "put"
    BY Fields, Zenon
  <2> QED BY <1>3, <2>1, <2>2, Zenon DEF Work
<1>5. Current({})' /\ Same({f, Root})'
  BY <1>2, Zenon DEF Current, Same
<1>6. Unlinking(f)'
  BY <1>1, <1>2, <1>3, <1>5, Zenon DEF Unlinking
<1> QED BY <1>1, <1>2, <1>4, <1>6, Begins, Zenon DEF Operation

\* A mount that reads both slots adopts the live superblock; a crash forgets
\* it.
LEMMA MountInv ==
  ASSUME TxnInv, gfs_mount \/ crash, Unreadable = FALSE
  PROVE  Kept
<1>1. UNCHANGED ondisk
  BY Zenon DEF gfs_mount, crash
<1>2. SlotInv' /\ DiskInv' /\ Live' = Live /\ Found' = Found
  BY <1>1, SameDisk, Zenon
<1>3. CASE gfs_mount
  <2>1. /\ pc' = "idle" /\ gen' = Live.gen /\ nodemap' = Live.nodemap /\ committed' = Live.bm_crc
        /\ working' = Live.bm_crc /\ todo' = todo /\ pc = "down"
    BY <1>3, Zenon DEF gfs_mount, LiveSlot, Live
  <2>2. Live \in Superblock
    BY LiveIs, Zenon DEF TxnInv
  <2>3. Live.gen \in 0..MaxGen /\ Live.nodemap.phys \in Block /\ Live.bm_crc \subseteq Block
    BY <2>2, Zenon DEF Superblock
  <2>4. todo = <<>>
    BY <2>1, Zenon DEF TxnInv, MemInv
  <2>5. MemInv'
    BY <1>2, <2>1, <2>3, <2>4, Zenon DEF MemInv, MemoryIsLive
  <2> QED BY <1>2, <2>1, <2>5, Zenon DEF TxnInv, BusyInv, Kept
<1>4. CASE crash
  <2>1. MemInv'
    BY <1>4, TxnAssumption DEF crash, MemInv, Lost, NoPtr, Ptr
  <2> QED BY <1>2, <1>4, <2>1, Zenon DEF TxnInv, BusyInv, crash, Lost, Kept
<1> QED BY <1>3, <1>4, Zenon

\* Every step keeps the invariant and is a step of the store or none.
LEMMA TxnStep ==
  ASSUME TxnInv, [Next]_vars, Ambiguous = FALSE, Unreadable = FALSE
  PROVE  TxnInv' /\ [Store!StoreNext]_Found
<1>1. CASE UNCHANGED vars
  <2>1. /\ UNCHANGED ondisk /\ UNCHANGED memory /\ pc' = pc
        /\ working' = working /\ map' = map /\ recs' = recs /\ todo' = todo
    BY <1>1, Zenon DEF vars, txn
  <2>2. SlotInv' /\ DiskInv' /\ Live' = Live /\ Found' = Found
    BY <2>1, SameDisk, Zenon
  <2>3. gen' = gen /\ nodemap' = nodemap /\ committed' = committed /\ disk' = disk /\ bitmap' = bitmap
    BY <2>1, Zenon DEF memory, ondisk
  <2>4. MemInv'
    BY <2>1, <2>2, <2>3, Zenon DEF TxnInv, MemInv, MemoryIsLive
  <2>5. Building' = Building
    BY <2>1, <2>3, Zenon DEF Building, parity, new_gen
  <2>6. ASSUME NEW f, Creating(f) PROVE Creating(f)'
    <3>1. Names' = Names /\ Old' = Old /\ Closing' = Closing
      BY <2>1, <2>3, Zenon DEF Names, Old, Closing
    <3>2. \A S : Same(S)' = Same(S) /\ Current(S)' = Current(S)
      BY <2>1, <3>1, Zenon DEF Same, Current
    <3> QED BY <2>1, <2>6, <3>1, <3>2, Zenon DEF Creating
  <2>7. ASSUME NEW f, Unlinking(f) PROVE Unlinking(f)'
    <3>1. Names' = Names /\ Old' = Old /\ Closing' = Closing
      BY <2>1, <2>3 DEF Names, Old, Closing
    <3>2. \A S : Same(S)' = Same(S) /\ Current(S)' = Current(S)
      BY <2>1, <3>1 DEF Same, Current
    <3> QED BY <2>1, <2>7, <3>1, <3>2, Zenon DEF Unlinking
  <2>8. \A f, v : (Writing(f, v))' = Writing(f, v)
    BY <2>1, <2>3 DEF Writing, Wrote, Names, Old, Same, Current, Closing
  <2>9. BusyInv'
    BY <2>1, <2>3, <2>5, <2>6, <2>7, <2>8, Zenon DEF TxnInv, BusyInv, Operation
  <2> QED BY <2>2, <2>4, <2>9, StoreStep, Zenon DEF TxnInv
<1>2. CASE commit_sb
  BY <1>2, SbInv, Zenon
<1>3. CASE gfs_mount \/ crash
  BY <1>3, MountInv, StoreStep, Zenon DEF Kept
<1>4. ASSUME NEW f \in File, gfs_create_at(f) \/ gfs_unlink(f) \/ \E v \in Value : gfs_write(f, v)
      PROVE  Kept
  BY <1>4, CreateInv, UnlinkInv, WriteInv, Zenon
<1>5. CASE put \/ node_write \/ reclaim
  BY <1>5, PutInv, NodeInv, ReclaimInv, StoreStep, Zenon DEF Kept
<1>6. CASE commit_map \/ commit_bitmap
  BY <1>6, MapInv, BitmapInv, StoreStep, Zenon DEF Kept
<1> QED BY <1>1, <1>2, <1>3, <1>4, <1>5, <1>6, StoreStep, Zenon DEF Next, Kept

-----------------------------------------------------------------------------
(* mkfs                                                                    *)

\* What mkfs writes.
FirstTable == [n \in {n \in Node : TableOf[n] = TableOf[Root]} |->
                 IF n = Root THEN Rec("NAMESPACE", NoPtr) ELSE Free]
FirstMap == [t \in Table |-> IF t = TableOf[Root] THEN Ptr(2, FirstTable) ELSE NoPtr]
FirstDisk == [b \in Block |-> IF b = 1 THEN FirstMap ELSE IF b = 2 THEN FirstTable ELSE Torn]

\* The tree that mkfs writes can be mounted and holds no files.
LEMMA FirstTree ==
  /\ FirstMap \in NodeMap /\ {1, 2} \subseteq Block
  /\ Committed(FirstDisk, Ptr(1, FirstMap), {1, 2})
  /\ ContentsOf(FirstDisk, Ptr(1, FirstMap)) = [f \in File |-> Absent]
<1>1. PICK table, m, d : table = FirstTable /\ m = FirstMap /\ d = FirstDisk
  BY Zenon
<1> DEFINE T == TableOf[Root]
           r == [n \in Node |-> IF n = Root THEN Rec("NAMESPACE", NoPtr) ELSE Free]
           bp == Ptr(1, m)
<1>2. /\ T \in Table /\ Root \in Node /\ 1 \in Block /\ 2 \in Block /\ 0 \notin Block
      /\ \A n \in Node : TableOf[n] \in Table
      /\ \A f \in File : f \in Node /\ f # Root
  BY TxnAssumption DEF Node, Block
<1>3. /\ Rec("NAMESPACE", NoPtr) \in NodeRecord /\ Free \in NodeRecord /\ NoPtr.phys = 0
      /\ Rec("NAMESPACE", NoPtr).bp = NoPtr /\ Rec("NAMESPACE", NoPtr).type # "FREE" /\ Free.bp = NoPtr
      /\ Ptr(2, table).phys = 2 /\ Ptr(2, table).crc = table /\ bp.phys = 1 /\ bp.crc = m
  BY Zenon DEF Free, Rec, NoPtr, Ptr, NodeRecord, Pointer
<1>4. table \in [NodesOf(T) -> NodeRecord] /\ \A n \in NodesOf(T) : table[n] = r[n]
  BY <1>1, <1>3, Zenon DEF NodesOf, FirstTable
<1>5. \A t \in Table : m[t] = IF t = T THEN Ptr(2, table) ELSE NoPtr
  BY <1>1, Zenon DEF FirstMap
<1>6. m \in NodeMap
  <2> DEFINE P == Pointer(UNION {[NodesOf(x) -> NodeRecord] : x \in Table})
  <2>1. Ptr(2, table) \in P
    BY <1>2, <1>4, Zenon DEF Ptr, Pointer
  <2>2. NoPtr \in P
    BY Zenon DEF NoPtr, Ptr, Pointer
  <2>3. m = [t \in Table |-> IF t = T THEN Ptr(2, table) ELSE NoPtr]
    BY <1>1, Zenon DEF FirstMap
  <2> HIDE DEF P, T
  <2>4. m \in [Table -> P]
    BY <2>1, <2>2, <2>3, Zenon
  <2> QED BY <2>4, Zenon DEF NodeMap, P
<1>7. d[1] = m /\ d[2] = table
  BY <1>1, <1>2 DEF FirstDisk
<1> HIDE DEF T
<1>8. Records(bp) = r
  <2>1. ASSUME NEW n \in Node PROVE RecordIn(m, n) = r[n]
    <3>1. CASE TableOf[n] = T
      <4>1. n \in NodesOf(T) /\ m[TableOf[n]] = Ptr(2, table)
        BY <1>2, <1>5, <3>1, Zenon DEF NodesOf
      <4>2. m[TableOf[n]].phys = 2 /\ m[TableOf[n]].crc = table
        BY ONLY <1>3, <4>1, Zenon
      <4>3. table[n] = r[n]
        BY <1>4, <4>1, Zenon
      <4> HIDE DEF r
      <4> QED BY ONLY <4>2, <4>3 DEF RecordIn
    <3>2. CASE TableOf[n] # T
      <4>1. m[TableOf[n]] = NoPtr /\ n # Root
        BY <1>2, <1>5, <3>2, Zenon DEF T
      <4> QED BY <1>3, <4>1, Zenon DEF RecordIn
    <3> QED BY <3>1, <3>2, Zenon
  <2> HIDE DEF r
  <2>2. r = [n \in Node |-> r[n]]
    BY Zenon DEF r
  <2> QED BY ONLY <1>3, <2>1, <2>2, Zenon DEF Records
<1>9. r[Root] = Rec("NAMESPACE", NoPtr) /\ \A f \in File : r[f] = Free
  BY <1>2, Zenon
<1>10. \A n \in Node : r[n] \in NodeRecord /\ r[n].bp = NoPtr
  BY <1>3, Zenon
<1>11. r \in [Node -> NodeRecord]
  BY <1>3, Zenon
<1> HIDE DEF r, bp
<1>12. Typed(1, m, r, {1, 2})
  <2>1. \A t \in Table : m[t].phys # 0 => m[t].crc \in [NodesOf(t) -> NodeRecord]
    BY ONLY <1>3, <1>4, <1>5, Zenon
  <2> QED BY ONLY <1>2, <1>3, <1>6, <1>9, <1>11, <2>1, Zenon DEF Typed
<1>13. Exact(Blocks(1, m, r), {1, 2})
  <2>1. T \in Holder /\ "map" \in Holder /\ T # "map"
    BY <1>2, TxnAssumption, Zenon DEF Holder
  <2>2. \A x \in Holder : Blocks(1, m, r)[x] = IF x = "map" THEN 1 ELSE IF x = T THEN 2 ELSE 0
    <3>1. \A x \in Table : x # "map" /\ m[x].phys = IF x = T THEN 2 ELSE 0
      BY <1>3, <1>5, TxnAssumption, Zenon
    <3>2. \A x \in Node : x # "map" /\ x \notin Table /\ r[x].bp.phys = 0
      BY <1>3, <1>10, TxnAssumption, Zenon
    <3> QED BY <1>2, <3>1, <3>2, Zenon DEF Blocks, Holder
  <2> QED BY ONLY <2>1, <2>2 DEF Exact
<1>14. OnDisk(d, m, r)
  <2>1. \A t \in Table : m[t].phys # 0 => m[t].phys = 2 /\ m[t].crc = table
    BY ONLY <1>3, <1>5, Zenon
  <2>2. r[Root].bp.phys = 0 /\ \A f \in File : r[f].bp.phys = 0
    BY ONLY <1>3, <1>9, Zenon
  <2> QED BY ONLY <1>7, <2>1, <2>2, Zenon DEF OnDisk
<1>15. NamesOf(r) = {}
  BY <1>3, <1>9, Zenon DEF NamesOf
<1>16. Committed(d, bp, {1, 2})
  <2>1. Sound(d, 1, m, r, {1, 2})
    BY <1>12, <1>13, <1>14, Zenon DEF Sound
  <2> QED BY <1>3, <1>7, <1>8, <1>9, <1>15, <2>1, Zenon DEF Committed
<1>17. ContentsOf(d, bp) = [f \in File |-> Absent]
  <2>1. ContentsOf(d, bp) = Reads(d, r)
    BY <1>8, ReadsContents, Zenon
  <2> QED BY <1>15, <2>1, Zenon DEF Reads
<1> QED BY <1>1, <1>2, <1>6, <1>16, <1>17, Zenon DEF bp

\* mkfs leaves generation 1 live.
LEMMA InitInv ==
  ASSUME Init
  PROVE  TxnInv /\ Found = [f \in File |-> Absent]
<1>1. PICK m :
        /\ m = FirstMap /\ disk = FirstDisk
        /\ sb = [s \in Slots |-> [gen |-> s, nodemap |-> Ptr(1, m), bm_crc |-> {1, 2}]]
  BY Zenon DEF Init, FirstTable, FirstMap, FirstDisk
<1>2. /\ m \in NodeMap /\ {1, 2} \subseteq Block
      /\ Committed(disk, Ptr(1, m), {1, 2})
      /\ ContentsOf(disk, Ptr(1, m)) = [f \in File |-> Absent]
  BY <1>1, FirstTree, Zenon
<1>3. /\ bitmap = [s \in Slots |-> {1, 2}] /\ pc = "down" /\ gen = 0 /\ nodemap = NoPtr
      /\ committed = {} /\ working = {} /\ todo = <<>>
  BY Zenon DEF Init
<1>4. DOMAIN disk = Block
  BY <1>1, Zenon DEF FirstDisk
<1>5. /\ sb \in [Slots -> Superblock \cup {Torn}]
      /\ \A s \in Slots : /\ sb[s].gen = s /\ sb[s] # Torn
                          /\ sb[s].nodemap = Ptr(1, m) /\ sb[s].bm_crc = {1, 2}
  <2>1. Ptr(1, m) \in [phys: Block, crc: NodeMap] /\ {1, 2} \in SUBSET Block
    BY <1>2, Zenon DEF Ptr
  <2>2. \A s \in Slots : s \in 0..MaxGen
    BY TxnAssumption DEF Slots
  <2>3. \A s \in Slots : [gen |-> s, nodemap |-> Ptr(1, m), bm_crc |-> {1, 2}] \in Superblock
    BY <2>1, <2>2, Zenon DEF Superblock
  <2>4. sb = [s \in Slots |-> [gen |-> s, nodemap |-> Ptr(1, m), bm_crc |-> {1, 2}]]
    BY <1>1, Zenon
  <2>5. \A s \in Slots : sb[s] = [gen |-> s, nodemap |-> Ptr(1, m), bm_crc |-> {1, 2}]
    BY ONLY <2>4, Zenon
  <2>6. \A s \in Slots : sb[s] \in Superblock /\ sb[s] # Torn
    BY ONLY <2>3, <2>5, TxnAssumption, Zenon
  <2>7. sb \in [Slots -> Superblock \cup {Torn}]
    BY ONLY <2>4, <2>5, <2>6, Zenon
  <2> QED BY ONLY <2>5, <2>6, <2>7
<1>6. SlotInv
  <2>1. bitmap \in [Slots -> (SUBSET Block) \cup {Torn}]
    BY <1>2, <1>3, Zenon
  <2>2. \A s \in Slots : sb[s].gen % 2 = s
    BY ONLY <1>5 DEF Slots
  <2>3. 1 \in Slots
    BY Zenon DEF Slots
  <2> QED BY ONLY <1>4, <1>5, <2>1, <2>2, <2>3, Zenon DEF SlotInv
<1>7. Live.nodemap = Ptr(1, m) /\ Live.bm_crc = {1, 2} /\ LiveSlot \in Slots
  BY ONLY <1>5, <1>6, LiveIs, Zenon DEF Live
<1>8. DiskInv
  BY <1>2, <1>3, <1>7, Zenon DEF DiskInv
<1>9. MemInv /\ BusyInv
  BY <1>3, TxnAssumption DEF MemInv, BusyInv, NoPtr, Ptr
<1>10. Found = [f \in File |-> Absent]
  <2>1. Found = ContentsOf(disk, Ptr(1, m))
    BY ONLY <1>7, Zenon DEF Found, Contents, ContentsOf
  <2> QED BY <1>2, <2>1, Zenon
<1> QED BY <1>6, <1>8, <1>9, <1>10, Zenon DEF TxnInv

-----------------------------------------------------------------------------
(* Theorems                                                                *)

\* The invariant holds of every run in which a failed superblock write has
\* not landed (txn_commit goes on as if it had not) and mounts can read the
\* superblocks (gfs_mount goes on with the other one when it cannot).
THEOREM TxnInvariant ==
  ASSUME Ambiguous = FALSE, Unreadable = FALSE
  PROVE  Spec => []TxnInv
<1>1. Init => TxnInv
  BY InitInv, Zenon
<1>2. TxnInv /\ [Next]_vars => TxnInv'
  BY TxnStep, Zenon
<1> QED BY <1>1, <1>2, PTL DEF Spec

\* At any moment a crash leaves a disk that mounts: some superblock is valid,
\* the tree of the newest one reads back with its checksums, and so does its
\* bitmap (the order of the writes in txn_commit, alloc_block's use of both
\* bitmaps), on a device without the two faults.
THEOREM CrashRecoverableAlways ==
  ASSUME Ambiguous = FALSE, Unreadable = FALSE
  PROVE  Spec => []CrashRecoverable
<1>1. ASSUME TxnInv PROVE CrashRecoverable
  <2>1. PICK bp : bp = Live.nodemap
    BY Zenon
  <2>2. Committed(disk, bp, Live.bm_crc)
    BY <1>1, <2>1, Zenon DEF TxnInv, DiskInv
  <2>3. Records(bp)[Root] = RecordIn(bp.crc, Root)
    BY Zenon DEF Records, Node
  <2>4. TreeIntact(bp)
    BY <2>2, <2>3, Zenon DEF TreeIntact, Intact, Committed, Sound, OnDisk
  <2>5. bitmap[Live.gen % 2] = Live.bm_crc
    BY <1>1, LiveIs, Zenon DEF TxnInv, DiskInv
  <2>6. \E s \in Slots : sb[s] # Torn
    BY <1>1, Zenon DEF TxnInv, SlotInv
  <2> QED BY <2>1, <2>4, <2>5, <2>6, Zenon DEF CrashRecoverable
<1> QED BY <1>1, TxnInvariant, PTL

\* The references of a sound tree are its bitmap, each block once.
LEMMA FsckOf ==
  ASSUME NEW d, NEW bp, NEW bm, Committed(d, bp, bm)
  PROVE  /\ \A x, y \in DOMAIN References(bp) : References(bp)[x] = References(bp)[y] => x = y
         /\ bm = Reachable(bp)
<1> DEFINE h == Blocks(bp.phys, bp.crc, Records(bp))
           refs == References(bp)
<1>1. Typed(bp.phys, bp.crc, Records(bp), bm) /\ Exact(h, bm)
  BY Zenon DEF Committed, Sound
<1>2. /\ "map" \notin Table \cup Node /\ Table \cap Node = {} /\ 0 \notin bm /\ bp.phys # 0
      /\ bm \subseteq Block
  BY <1>1, TxnAssumption DEF Typed, Block
<1>3. DOMAIN refs = {x \in Holder : h[x] # 0}
  BY <1>2, Zenon DEF References, Holder, Blocks, Records
<1>4. \A x \in DOMAIN refs : refs[x] = h[x]
  BY <1>2, Zenon DEF References, Holder, Blocks, Records
<1> HIDE DEF h, refs
<1>5. \A x, y \in DOMAIN refs : refs[x] = refs[y] => x = y
  BY <1>1, <1>3, <1>4, Zenon DEF Exact
<1>6. bm = {refs[x] : x \in DOMAIN refs}
  BY <1>1, <1>2, <1>3, <1>4 DEF Exact
<1> QED BY <1>5, <1>6, Zenon DEF Reachable, Range, refs

\* After every success, failed read or write and crash the live tree is what
\* fsck wants and memory agrees with it, on a device whose failed superblock
\* writes have not landed and whose superblocks can be read at a mount.
THEOREM CleanAndCurrentAlways ==
  ASSUME Ambiguous = FALSE, Unreadable = FALSE
  PROVE  Spec => []CleanAndCurrent
<1>1. ASSUME TxnInv PROVE TypeOK
  <2>1. pc = "busy" => todo # <<>>
    <3>1. ASSUME NEW f, Creating(f) PROVE todo # <<>>
      BY <3>1 DEF Creating, Closing
    <3>2. ASSUME NEW f, Unlinking(f) PROVE todo # <<>>
      BY <3>2 DEF Unlinking, Closing
    <3>3. ASSUME NEW f, NEW v, Writing(f, v) PROVE todo # <<>>
      BY <3>3 DEF Writing, Closing
    <3> QED BY <1>1, <3>1, <3>2, <3>3, Zenon DEF TxnInv, BusyInv, Operation
  <2>2. \A s \in Slots : bitmap[s] # Torn => bitmap[s] \subseteq Block
    BY <1>1, Zenon DEF TxnInv, SlotInv
  <2> QED BY <1>1, <2>1, <2>2, Zenon DEF TypeOK, TxnInv, MemInv
<1>2. ASSUME TxnInv PROVE FsckClean
  <2>1. PICK bp : bp = Live.nodemap
    BY Zenon
  <2>2. Committed(disk, bp, Live.bm_crc)
    BY <1>2, <2>1, Zenon DEF TxnInv, DiskInv
  <2>3. ASSUME NEW f \in File PROVE RecordIn(bp.crc, f).type # "FREE" <=> Contents(bp)[f] # Absent
    <3>1. Records(bp)[f] = RecordIn(bp.crc, f) /\ NamesOf(Records(bp)) = NamesIn(bp.crc)
      BY Zenon DEF Records, Node, NamesOf, NamesIn
    <3>2. f \in NamesIn(bp.crc) <=> RecordIn(bp.crc, f) # Free
      BY <2>2, <3>1, Zenon DEF Committed
    <3>3. RecordIn(bp.crc, f).type # "FREE" \/ RecordIn(bp.crc, f) = Free
      BY <2>2, <3>1, Zenon DEF Committed, Sound, Typed
    <3>4. RecordIn(bp.crc, f).bp.phys # 0 => disk[RecordIn(bp.crc, f).bp.phys] \in Value
      BY <2>2, <3>1, Zenon DEF Committed, Sound, OnDisk
    <3>5. f \in NamesIn(bp.crc) <=> Contents(bp)[f] # Absent
      BY <3>4, TxnAssumption, Zenon DEF Contents
    <3>6. Free.type = "FREE"
      BY Zenon DEF Free, Rec
    <3>7. CASE RecordIn(bp.crc, f) = Free
      BY <3>2, <3>5, <3>6, <3>7, Zenon
    <3>8. CASE RecordIn(bp.crc, f) # Free
      BY <3>2, <3>3, <3>5, <3>8, Zenon
    <3> QED BY <3>7, <3>8, Zenon
  <2>4. /\ \A x, y \in DOMAIN References(bp) : References(bp)[x] = References(bp)[y] => x = y
        /\ Live.bm_crc = Reachable(bp)
    BY <2>2, FsckOf, Zenon
  <2> QED BY <2>1, <2>3, <2>4, Zenon DEF FsckClean
<1>3. ASSUME TxnInv PROVE MemoryIsLive
  BY <1>3, Zenon DEF TxnInv, MemInv, MemoryIsLive
<1>4. TxnInv => CleanAndCurrent
  BY <1>1, <1>2, <1>3, Zenon DEF CleanAndCurrent
<1> QED BY <1>4, TxnInvariant, PTL

\* What a mount would find behaves as the atomic store of AtomicStore: it is
\* empty at first and changes by one whole create, write or unlink at a time,
\* whatever write fails and whenever the machine stops, on a device without
\* the two faults.
THEOREM TxnRefinesStore ==
  ASSUME Ambiguous = FALSE, Unreadable = FALSE
  PROVE  Spec => IsAtomicStore
<1>1. Init => Store!StoreInit
  BY InitInv, Zenon DEF Store!StoreInit, Found
<1>2. TxnInv /\ [Next]_vars => [Store!StoreNext]_Found
  BY TxnStep, Zenon
<1> QED BY <1>1, <1>2, TxnInvariant, PTL DEF Spec, IsAtomicStore, Store!StoreSpec, Found

-----------------------------------------------------------------------------
(* With both faults                                                        *)

\* A slot that is written holds a generation of its parity.
SlotParity == /\ DOMAIN sb = Slots
              /\ \A s \in Slots : sb[s] # Torn => /\ sb[s].gen \in Nat /\ sb[s].gen % 2 = s
                                                 /\ sb[s] = [gen |-> sb[s].gen,
                                                             nodemap |-> sb[s].nodemap,
                                                             bm_crc |-> sb[s].bm_crc]

\* Memory is a superblock on the disk.
OnDiskInv == SlotParity /\ MemoryOnDisk /\ gen \in Nat

\* A valid slot among some has the highest generation of them.
LEMMA NewestIs ==
  ASSUME SlotParity, NEW slots \in SUBSET Slots, \E x \in slots : sb[x] # Torn
  PROVE  Newest(slots) \in slots /\ sb[Newest(slots)] # Torn
<1>1. \E s \in slots : sb[s] # Torn /\ \A x \in slots : sb[x] # Torn => sb[x].gen <= sb[s].gen
  <2>1. CASE \E x, y \in slots : x # y /\ sb[x] # Torn /\ sb[y] # Torn
    <3>1. 0 \in slots /\ 1 \in slots /\ sb[0] # Torn /\ sb[1] # Torn /\ slots = {0, 1}
      BY <2>1 DEF Slots
    <3>2. sb[0].gen \in Nat /\ sb[1].gen \in Nat
      BY <3>1 DEF SlotParity, Slots
    <3> QED BY <3>1, <3>2
  <2>2. CASE ~ \E x, y \in slots : x # y /\ sb[x] # Torn /\ sb[y] # Torn
    <3>1. PICK s \in slots : sb[s] # Torn
      OBVIOUS
    <3>2. sb[s].gen \in Nat /\ \A x \in slots : sb[x] # Torn => x = s
      BY <2>2, <3>1 DEF SlotParity
    <3> QED BY <3>1, <3>2
  <2> QED BY <2>1, <2>2
<1> QED BY <1>1, Zenon DEF Newest

\* Whatever the device does, lost superblock writes and unreadable slots
\* included, a mounted system's memory is one whole superblock that is on the
\* disk, and a commit writes the other slot: gfs_mount decodes one block, and
\* txn_commit adopts the new state after the superblock write only.
THEOREM MemoryOnDiskAlways == Spec => []MemoryOnDisk
<1>1. Init => OnDiskInv
  <2> SUFFICES ASSUME Init PROVE OnDiskInv
    OBVIOUS
  <2>1. pc = "down" /\ gen = 0 /\ \E n, b : sb = [s \in Slots |-> [gen |-> s, nodemap |-> n, bm_crc |-> b]]
    BY Zenon DEF Init
  <2>2. PICK n, b : sb = [s \in Slots |-> [gen |-> s, nodemap |-> n, bm_crc |-> b]]
    BY <2>1, Zenon
  <2>3. SlotParity
    BY <2>2 DEF SlotParity, Slots
  <2> QED BY <2>1, <2>3 DEF OnDiskInv, MemoryOnDisk
<1>2. OnDiskInv /\ [Next]_vars => OnDiskInv'
  <2> SUFFICES ASSUME OnDiskInv, [Next]_vars PROVE OnDiskInv'
    OBVIOUS
  <2>1. ASSUME UNCHANGED <<sb, memory>>, pc' # "down" => pc # "down" PROVE OnDiskInv'
    BY <2>1, Zenon DEF OnDiskInv, SlotParity, MemoryOnDisk, memory
  <2>2. ASSUME UNCHANGED sb, Lost PROVE OnDiskInv'
    BY <2>2 DEF OnDiskInv, SlotParity, MemoryOnDisk, Lost
  <2>3. CASE gfs_mount
    <3>1. PICK slots \in SUBSET Slots :
            /\ \E x \in slots : sb[x] # Torn
            /\ sb' = sb /\ gen' = sb[Newest(slots)].gen
            /\ nodemap' = sb[Newest(slots)].nodemap /\ committed' = sb[Newest(slots)].bm_crc
      BY <2>3, Zenon DEF gfs_mount, ondisk
    <3>2. PICK s \in Slots : s = Newest(slots) /\ sb[s] # Torn
      BY <3>1, NewestIs, Zenon DEF OnDiskInv
    <3>3. /\ sb[s].gen \in Nat /\ sb[s].gen % 2 = s
          /\ sb[s] = [gen |-> sb[s].gen, nodemap |-> sb[s].nodemap, bm_crc |-> sb[s].bm_crc]
      BY <3>2, Zenon DEF OnDiskInv, SlotParity
    <3>4. SlotParity'
      BY <3>1, Zenon DEF OnDiskInv, SlotParity
    <3> QED BY <3>1, <3>2, <3>3, <3>4, Zenon DEF OnDiskInv, MemoryOnDisk
  <2>4. CASE commit_sb
    <3>1. PICK new : /\ new = [gen |-> new_gen, nodemap |-> Ptr(Head(todo).c, map), bm_crc |-> working]
                     /\ \/ /\ sb' = [sb EXCEPT ![parity] = new]
                           /\ gen' = new_gen /\ nodemap' = new.nodemap /\ committed' = working
                        \/ /\ sb' \in {sb, [sb EXCEPT ![parity] = new], [sb EXCEPT ![parity] = Torn]}
                           /\ Abort \/ Lost
      BY <2>4, Zenon DEF commit_sb
    <3>2. pc # "down" /\ gen \in Nat /\ DOMAIN sb = Slots
      BY <2>4, Zenon DEF commit_sb, Doing, OnDiskInv, SlotParity
    <3>3. parity \in Slots /\ gen % 2 \in Slots /\ parity # gen % 2 /\ new_gen \in Nat
          /\ parity = new_gen % 2
      BY <3>2, Parity DEF parity, new_gen
    <3>4. new.gen = new_gen /\ new = [gen |-> new.gen, nodemap |-> new.nodemap, bm_crc |-> new.bm_crc]
          /\ new.bm_crc = working
      BY <3>1, Zenon
    <3>5. SlotParity'
      <4>1. /\ DOMAIN sb' = Slots
            /\ \A s \in Slots : sb'[s] = sb[s] \/ (s = parity /\ sb'[s] \in {new, Torn})
        BY <3>1, <3>2, <3>3, Zenon
      <4> QED BY <3>3, <3>4, <4>1, Zenon DEF OnDiskInv, SlotParity
    <3>6. CASE /\ sb' = [sb EXCEPT ![parity] = new]
               /\ gen' = new_gen /\ nodemap' = new.nodemap /\ committed' = working
      <4>1. sb'[gen' % 2] = new
        BY <3>2, <3>3, <3>6, Zenon
      <4> QED BY <3>3, <3>4, <3>5, <3>6, <4>1, Zenon DEF OnDiskInv, MemoryOnDisk
    <3>7. CASE Abort \/ Lost
      <4>1. sb'[gen % 2] = sb[gen % 2]
        BY <3>1, <3>2, <3>3, Zenon
      <4>2. CASE Abort
        BY <3>2, <3>5, <4>1, <4>2, Zenon DEF OnDiskInv, MemoryOnDisk, Abort, memory
      <4>3. CASE Lost
        BY <3>5, <4>3 DEF OnDiskInv, MemoryOnDisk, Lost
      <4> QED BY <3>7, <4>2, <4>3, Zenon
    <3> QED BY <3>1, <3>6, <3>7, Zenon
  <2>5. CASE crash
    BY <2>2, <2>5, Zenon DEF crash, ondisk
  <2>6. ASSUME NEW f, NEW v, gfs_create_at(f) \/ gfs_unlink(f) \/ gfs_write(f, v) PROVE OnDiskInv'
    <3>1. pc = "idle" /\ UNCHANGED <<sb, memory>>
      BY <2>6, Zenon DEF gfs_create_at, gfs_unlink, gfs_write, Begin, ondisk
    <3> QED BY <2>1, <3>1
  <2>7. CASE put \/ node_write \/ commit_map
    <3>1. pc = "busy" /\ UNCHANGED sb /\ (Lost \/ UNCHANGED memory)
      BY <2>7, Zenon DEF put, node_write, commit_map, Doing, WriteTo, Abort
    <3> QED BY <2>1, <2>2, <3>1
  <2>8. CASE reclaim \/ commit_bitmap
    <3>1. pc = "busy" /\ UNCHANGED sb /\ (Lost \/ UNCHANGED memory)
      BY <2>8, Zenon DEF reclaim, commit_bitmap, Doing, Abort, ondisk
    <3> QED BY <2>1, <2>2, <3>1
  <2>9. CASE UNCHANGED vars
    BY <2>1, <2>9, Zenon DEF vars, ondisk
  <2> QED BY <2>3, <2>4, <2>5, <2>6, <2>7, <2>8, <2>9, Zenon DEF Next
<1>3. OnDiskInv => MemoryOnDisk
  BY DEF OnDiskInv
<1> QED BY <1>1, <1>2, <1>3, PTL DEF Spec
=============================================================================
