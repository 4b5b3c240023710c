----------------------------- MODULE BlockProofs -----------------------------
(***************************************************************************)
(* Proofs about BlockDev and Virtq, for any disk, cache and queue size, of *)
(* a device that answers before the deadline or not at all.                *)
(***************************************************************************)
EXTENDS BlockDev, QueueTheorems, TLAPS

-----------------------------------------------------------------------------
(* The inductive invariant                                                 *)

\* What a virtqueue can hold.
Idx == 0..(IdxMod - 1)
Buffer == Entry \cup {NoBuf, "hdr", "status"}
Descriptor == [buf: Buffer, flags: SUBSET {"WRITE", "NEXT"}, next: Desc]
Ring == [idx: Idx, ring: [Desc -> Desc]]
Queue == [desc: [Desc -> Descriptor], free_head: Desc, num_free: Nat, last_used: Idx,
          avail: Ring, used: Ring]

\* The chain of three that starts at h.
Second(q, h) == q.desc[h].next
Third(q, h) == q.desc[Second(q, h)].next
Members(q, h) == {h, Second(q, h), Third(q, h)}

IsChain(q, h) ==
  /\ h \in Desc
  /\ Second(q, h) # h /\ Third(q, h) # h /\ Third(q, h) # Second(q, h)
  /\ "NEXT" \in q.desc[h].flags /\ "NEXT" \in q.desc[Second(q, h)].flags
  /\ "NEXT" \notin q.desc[Third(q, h)].flags

\* f is the free list.
FreeList(q, f) ==
  /\ f \in [1..q.num_free -> Desc]
  /\ \A i, j \in 1..q.num_free : f[i] = f[j] => i = j
  /\ q.num_free > 0 => q.free_head = f[1]
  /\ \A i \in 1..(q.num_free - 1) : q.desc[f[i]].next = f[i + 1]

\* Every descriptor is in the free list f or in one of the chains that start
\* at H, and in one place only.
Partition(q, H, f) ==
  /\ \A h \in H : IsChain(q, h)
  /\ \A h \in H : \A i \in 1..q.num_free : f[i] \notin Members(q, h)
  /\ \A h, g \in H : h # g => Members(q, h) \cap Members(q, g) = {}
  /\ \A d \in Desc : \/ \E i \in 1..q.num_free : f[i] = d
                     \/ \E h \in H : d \in Members(q, h)

QueueInv(q, H) == q \in Queue /\ \E f : FreeList(q, f) /\ Partition(q, H, f)

\* A request that the driver waits for, and the chains with the device.
InFlight == call # None /\ ~panicked
Held == given_up \cup (IF InFlight THEN {call.head} ELSE {})

\* A request is queued, fetched, done with result r, returned.
Quiet == seen = vq.avail.idx /\ work = {} /\ vq.used.idx = vq.last_used

Sent == /\ vq.avail.idx = (seen + 1) % IdxMod /\ vq.avail.ring[seen % QSize] = call.head
        /\ work = {} /\ vq.used.idx = vq.last_used
        /\ hdr.type = call.type /\ hdr.lba = call.lba

Fetched(r) ==
  /\ seen = vq.avail.idx /\ vq.used.idx = vq.last_used
  /\ work = {[head |-> call.head, type |-> call.type, lba |-> call.lba, done |-> r]}

Returned == /\ seen = vq.avail.idx /\ work = {}
            /\ vq.used.idx = (vq.last_used + 1) % IdxMod
            /\ vq.used.ring[vq.last_used % QSize] = call.head
            /\ status \in {"OK", "ERR"}

\* The block is where the request wants it.
Landed == IF call.type = "OUT" THEN disk[call.lba] = call.val
          ELSE data[call.entry] = disk[call.lba]

Flight == \/ Sent
          \/ Fetched("no")
          \/ Fetched("ERR")
          \/ Fetched("OK") /\ Landed
          \/ Returned /\ (status = "OK" => Landed)

\* The device works on the request that the driver waits for, or on none.
FlightInv == seen \in Idx /\ IF InFlight THEN Flight ELSE Quiet

\* The descriptor of a request's data is the entry it is for.
BufferInv ==
  InFlight => LET d == vq.desc[Second(vq, call.head)]
              IN /\ call.head \in Desc \ given_up
                 /\ d.buf = call.entry
                 /\ "WRITE" \in d.flags <=> call.type = "IN"

\* A write has its block in the cache already, a read's is not there.
CallInv ==
  call # None =>
    /\ call \in Call
    /\ call.type = "OUT" => /\ call.entry \in Range(lru) /\ lba[call.entry] = call.lba
                            /\ data[call.entry] = call.val
    /\ call.type = "IN" => \A e \in Range(lru) : lba[e] # call.lba

CacheInv ==
  /\ lru \in Seq(Entry) /\ IsInjective(lru)
  /\ lba \in [Entry -> Lba \cup {None}] /\ \A e \in Range(lru) : lba[e] \in Lba
  /\ DOMAIN data = Entry /\ DOMAIN disk = Lba /\ DOMAIN known = Lba
  /\ CacheCoherent /\ WritesDurable

PanicInv == panicked \in BOOLEAN /\ (panicked => call # None /\ vq.num_free < 3)

BlockInv == /\ QueueInv(vq, Held) /\ FlightInv /\ BufferInv
            /\ CallInv /\ CacheInv /\ PanicInv

\* What a step does to the number of free descriptors and to the chains.
Balance ==
  \/ vq'.num_free = vq.num_free /\ Held' = Held
  \/ \E h : h \notin Held /\ Held' = Held \cup {h} /\ vq'.num_free = vq.num_free - 3
  \/ \E h \in Held : Held' = Held \ {h} /\ vq'.num_free = vq.num_free + 3

-----------------------------------------------------------------------------
(* Numbers                                                                 *)

\* A ring index, one further, and its slot.
LEMMA IndexStep ==
  ASSUME NEW i \in Idx
  PROVE  /\ (i + 1) % IdxMod \in Idx /\ (i + 1) % IdxMod # i
         /\ i % QSize \in Desc
<1>1. IdxMod \in Nat /\ IdxMod > 2 /\ QSize \in Nat /\ QSize > 1
  BY VirtqAssumption
<1>2. i % QSize \in Desc
  BY <1>1 DEF Idx, Desc
<1>3. CASE i + 1 < IdxMod
  <2>1. (i + 1) % IdxMod = i + 1
    BY <1>1, <1>3 DEF Idx
  <2> QED BY <1>1, <1>2, <1>3, <2>1 DEF Idx
<1>4. CASE i + 1 = IdxMod
  <2>1. (i + 1) % IdxMod = 0
    BY <1>1, <1>4 DEF Idx
  <2> QED BY <1>1, <1>2, <1>4, <2>1 DEF Idx
<1> QED BY <1>1, <1>3, <1>4 DEF Idx

-----------------------------------------------------------------------------
(* Following links                                                         *)

\* A path of n steps along the next fields.
IsPath(q, d, n, p) ==
  n \in Nat /\ p[0] = d /\ \A k \in 1..n : p[k] = q.desc[p[k - 1]].next

\* l follows the links that Link does, up to the i-th.
Follows(q, d, i, l) ==
  Link(q, d, i) = l[i] /\ l[0] = d /\ \A k \in 1..i : l[k] = q.desc[l[k - 1]].next

\* Where a path exists, Link follows the next fields.
LEMMA LinkFollows ==
  ASSUME NEW q, NEW d, NEW n, NEW p, IsPath(q, d, n, p), NEW i \in 0..n
  PROVE  \E l : Follows(q, d, i, l)
<1>1. n \in Nat /\ p[0] = d /\ \A k \in 1..n : p[k] = q.desc[p[k - 1]].next
  BY Zenon DEF IsPath
<1> DEFINE F(f) == [k \in 0..i |-> IF k = 0 THEN d ELSE q.desc[f[k - 1]].next]
           g == [k \in 0..i |-> p[k]]
           link == CHOOSE f : f = F(f)
<1>2. i \in Nat /\ i <= n
  BY <1>1
<1>3. g = F(g)
  <2>1. ASSUME NEW k \in 0..i PROVE g[k] = F(g)[k]
    <3>1. CASE k = 0
      BY <1>1, <3>1
    <3>2. CASE k # 0
      <4>1. k \in 1..n /\ k - 1 \in 0..i
        BY <1>1, <1>2, <3>2
      <4> QED BY <1>1, <3>2, <4>1
    <3> QED BY <3>1, <3>2
  <2> QED BY <2>1
<1>4. link = F(link)
  BY <1>3, Zenon
<1>5. Link(q, d, i) = link[i]
  BY Zenon DEF Link
<1> HIDE DEF link
<1>6. link[0] = d /\ \A k \in 1..i : link[k] = q.desc[link[k - 1]].next
  <2>1. \A k \in 0..i : link[k] = IF k = 0 THEN d ELSE q.desc[link[k - 1]].next
    BY <1>4, Zenon
  <2> QED BY <1>2, <2>1
<1> QED BY <1>5, <1>6, Zenon DEF Follows

\* The links of a request's chain, the one to the next free descriptor included.
LEMMA ShortPath ==
  ASSUME NEW q, NEW d, NEW n \in 0..3, NEW p, IsPath(q, d, n, p), NEW i \in 0..n
  PROVE  Link(q, d, i) = p[i]
<1>1. PICK l : Link(q, d, i) = l[i] /\ l[0] = d /\ \A k \in 1..i : l[k] = q.desc[l[k - 1]].next
  <2>1. \E l : Follows(q, d, i, l)
    BY ONLY IsPath(q, d, n, p), i \in 0..n, LinkFollows
  <2> QED BY <2>1, Zenon DEF Follows
<1>2. p[0] = d /\ \A k \in 1..i : p[k] = q.desc[p[k - 1]].next
  BY DEF IsPath
<1>3. ASSUME NEW k \in 1..i, l[k - 1] = p[k - 1] PROVE l[k] = p[k]
  BY <1>1, <1>2, <1>3, Zenon
<1>4. l[0] = p[0]
  BY <1>1, <1>2, Zenon
<1>5. i >= 1 => l[1] = p[1]
  BY <1>3, <1>4
<1>6. i >= 2 => l[2] = p[2]
  BY <1>3, <1>5
<1>7. i >= 3 => l[3] = p[3]
  BY <1>3, <1>6
<1> QED BY <1>1, <1>4, <1>5, <1>6, <1>7

\* Three different descriptors.
LEMMA ThreeFit ==
  ASSUME NEW a \in Desc, NEW b \in Desc, NEW c \in Desc, a # b, a # c, b # c
  PROVE  QSize >= 3
BY VirtqAssumption DEF Desc

\* The chain of a request, as the device and virtq_take_used walk it.
LEMMA ChainOf ==
  ASSUME NEW q \in Queue, NEW h, IsChain(q, h)
  PROVE  /\ DOMAIN Chain(q, h) = 1..3 /\ Len(Chain(q, h)) = 3
         /\ Chain(q, h)[1] = h /\ Chain(q, h)[2] = Second(q, h) /\ Chain(q, h)[3] = Third(q, h)
         /\ Range(Chain(q, h)) = Members(q, h)
         /\ Second(q, h) \in Desc /\ Third(q, h) \in Desc
<1>1. PICK a, b : a = Second(q, h) /\ b = Third(q, h) /\ a \in Desc /\ b \in Desc /\ h \in Desc
                  /\ a = q.desc[h].next /\ b = q.desc[a].next
  BY DEF IsChain, Second, Third, Queue, Descriptor
<1>2. /\ a # h /\ b # h /\ a # b
      /\ "NEXT" \in q.desc[h].flags /\ "NEXT" \in q.desc[a].flags /\ "NEXT" \notin q.desc[b].flags
  BY <1>1, Zenon DEF IsChain
<1>3. QSize \in Nat /\ QSize >= 3
  BY <1>1, <1>2, ThreeFit, VirtqAssumption
<1>4. Link(q, h, 0) = h /\ Link(q, h, 1) = a /\ Link(q, h, 2) = b
  <2> DEFINE p == [k \in 0..2 |-> IF k = 0 THEN h ELSE IF k = 1 THEN a ELSE b]
  <2>1. p[0] = h /\ p[1] = a /\ p[2] = b
    OBVIOUS
  <2> HIDE DEF p
  <2>2. \A k \in 1..2 : p[k] = q.desc[p[k - 1]].next
    <3>1. \A k \in 1..2 : (k = 1 /\ k - 1 = 0) \/ (k = 2 /\ k - 1 = 1)
      OBVIOUS
    <3> QED BY <1>1, <2>1, <3>1, Zenon
  <2>3. IsPath(q, h, 2, p)
    BY <2>1, <2>2 DEF IsPath
  <2>4. 0 \in 0..2 /\ 1 \in 0..2 /\ 2 \in 0..2
    OBVIOUS
  <2>5. 2 \in 0..3
    OBVIOUS
  <2>6. Link(q, h, 0) = p[0] /\ Link(q, h, 1) = p[1] /\ Link(q, h, 2) = p[2]
    BY ONLY <2>3, <2>4, <2>5, ShortPath
  <2> QED BY <2>1, <2>6, Zenon
<1> DEFINE P(k) == /\ k = QSize \/ "NEXT" \notin q.desc[Link(q, h, k - 1)].flags
                   /\ \A j \in 1..(k - 1) : "NEXT" \in q.desc[Link(q, h, j - 1)].flags
           n == CHOOSE k \in 1..QSize : P(k)
<1>5. P(3) /\ \A k \in 1..QSize : P(k) => k = 3
  <2>1. 1 - 1 = 0 /\ 2 - 1 = 1 /\ 3 - 1 = 2 /\ 1..2 = {1, 2}
    OBVIOUS
  <2>2. P(3)
    BY <1>2, <1>4, <2>1
  <2>3. ASSUME NEW k \in 1..QSize, P(k), k # 3 PROVE FALSE
    <3>1. CASE k = 1 \/ k = 2
      BY <1>2, <1>3, <1>4, <2>1, <2>3, <3>1
    <3>2. CASE k > 3
      <4>1. 3 \in 1..(k - 1)
        BY <1>3, <3>2
      <4> QED BY <1>2, <1>4, <2>1, <2>3, <4>1
    <3> QED BY <1>3, <2>3, <3>1, <3>2
  <2> QED BY <2>2, <2>3
<1>6. n = 3
  BY <1>3, <1>5
<1>7. Chain(q, h) = [k \in 1..n |-> Link(q, h, k - 1)]
  BY Zenon DEF Chain
<1> HIDE DEF n
<1>8. /\ DOMAIN Chain(q, h) = 1..3
      /\ Chain(q, h)[1] = h /\ Chain(q, h)[2] = a /\ Chain(q, h)[3] = b
  BY <1>4, <1>6, <1>7
<1>9. Len(Chain(q, h)) = 3
  BY <1>6, <1>7
<1>10. Range(Chain(q, h)) = {h, a, b}
  BY <1>8 DEF Range
<1> QED BY <1>1, <1>8, <1>9, <1>10, Zenon DEF Members

-----------------------------------------------------------------------------
(* Adding a chain                                                          *)

\* The first three descriptors of the free list f, with a request for e.
Filled(q, f, e, out) ==
  [i \in Desc |->
     IF i = f[1] THEN [buf |-> "hdr", flags |-> {"NEXT"}, next |-> f[2]]
     ELSE IF i = f[2] THEN [buf |-> e, flags |-> IF out = 1 THEN {"WRITE", "NEXT"} ELSE {"NEXT"},
                            next |-> f[3]]
     ELSE IF i = f[3] THEN [buf |-> "status", flags |-> {"WRITE"}, next |-> q.desc[f[3]].next]
     ELSE q.desc[i]]

\* The first links of a free list of at least three.
LEMMA FirstThree ==
  ASSUME NEW q \in Queue, NEW f, FreeList(q, f), q.num_free >= 3
  PROVE  /\ f[1] \in Desc /\ f[2] \in Desc /\ f[3] \in Desc
         /\ f[1] # f[2] /\ f[1] # f[3] /\ f[2] # f[3]
         /\ q.free_head = f[1] /\ q.desc[f[1]].next = f[2] /\ q.desc[f[2]].next = f[3]
         /\ q.desc[f[3]].next \in Desc
         /\ Link(q, f[1], 0) = f[1] /\ Link(q, f[1], 1) = f[2] /\ Link(q, f[1], 2) = f[3]
         /\ Link(q, f[1], 3) = q.desc[f[3]].next
<1>1. q.num_free \in Nat /\ q.num_free >= 3
  BY DEF Queue
<1>2. PICK n \in Nat : n = q.num_free /\ n >= 3
  BY <1>1
<1>3. /\ f \in [1..n -> Desc] /\ (\A i, j \in 1..n : f[i] = f[j] => i = j) /\ q.free_head = f[1]
      /\ \A i \in 1..(n - 1) : q.desc[f[i]].next = f[i + 1]
  BY <1>2 DEF FreeList
<1>4. 1 \in 1..n /\ 2 \in 1..n /\ 3 \in 1..n /\ 1 \in 1..(n - 1) /\ 2 \in 1..(n - 1)
  BY <1>2
<1>5. /\ f[1] \in Desc /\ f[2] \in Desc /\ f[3] \in Desc
      /\ f[1] # f[2] /\ f[1] # f[3] /\ f[2] # f[3]
  <2>1. f[1] \in Desc /\ f[2] \in Desc /\ f[3] \in Desc
    BY <1>3, <1>4, Zenon
  <2>2. (f[1] = f[2] => 1 = 2) /\ (f[1] = f[3] => 1 = 3) /\ (f[2] = f[3] => 2 = 3)
    BY <1>3, <1>4, Zenon
  <2> QED BY <2>1, <2>2
<1>6. q.desc[f[1]].next = f[2] /\ q.desc[f[2]].next = f[3]
  <2>1. q.desc[f[1]].next = f[1 + 1] /\ q.desc[f[2]].next = f[2 + 1]
    BY <1>3, <1>4, Zenon
  <2> QED BY <2>1
<1>7. q.desc[f[3]].next \in Desc
  BY <1>5 DEF Queue, Descriptor
<1>8. \A i \in 0..3 : Link(q, f[1], i) = IF i = 3 THEN q.desc[f[3]].next ELSE f[i + 1]
  <2> DEFINE p == [k \in 0..3 |-> IF k = 3 THEN q.desc[f[3]].next ELSE f[k + 1]]
  <2>1. p[0] = f[1] /\ p[1] = f[2] /\ p[2] = f[3] /\ p[3] = q.desc[f[3]].next
    OBVIOUS
  <2>2. \A k \in 1..3 : p[k] = q.desc[p[k - 1]].next
    <3>1. ASSUME NEW k \in 1..3 PROVE p[k] = q.desc[p[k - 1]].next
      <4> HIDE DEF p
      <4>1. CASE k = 1
        BY <1>6, <2>1, <4>1
      <4>2. CASE k = 2
        BY <1>6, <2>1, <4>2
      <4>3. CASE k = 3
        BY <2>1, <4>3
      <4> QED BY <4>1, <4>2, <4>3
    <3> QED BY <3>1
  <2>3. \A i \in 0..3 : p[i] = IF i = 3 THEN q.desc[f[3]].next ELSE f[i + 1]
    OBVIOUS
  <2> HIDE DEF p
  <2>4. IsPath(q, f[1], 3, p)
    BY <2>1, <2>2 DEF IsPath
  <2>5. \A i \in 0..3 : Link(q, f[1], i) = p[i]
    <3>1. 3 \in 0..3
      OBVIOUS
    <3> QED BY ONLY <2>4, <3>1, ShortPath
  <2> QED BY <2>3, <2>5, Zenon
<1> QED BY <1>3, <1>5, <1>6, <1>7, <1>8

\* A request is queued, r being what virtq_add returns.
Adds(q, f, e, out, r) ==
  /\ q \in Queue /\ FreeList(q, f) /\ q.num_free >= 3 /\ out \in {1, 2}
  /\ r = virtq_add(q, <<"hdr", e, "status">>, out)

AddResult(q, f, e, out) ==
  [desc |-> Filled(q, f, e, out), free_head |-> q.desc[f[3]].next,
   num_free |-> q.num_free - 3, last_used |-> q.last_used,
   avail |-> [ring |-> [q.avail.ring EXCEPT ![q.avail.idx % QSize] = f[1]],
              idx |-> (q.avail.idx + 1) % IdxMod],
   used |-> q.used]

\* What virtq_add makes of a queue with room for a request.
LEMMA AddFields ==
  ASSUME NEW q, NEW f, NEW e, NEW out, NEW r, Adds(q, f, e, out, r)
  PROVE  /\ r.ret = f[1]
         /\ r.vq = AddResult(q, f, e, out)
<1> DEFINE sgs == <<"hdr", e, "status">>
           idx(m) == [k \in 1..m |-> Link(q, q.free_head, k - 1)]
           place(m, i) == CHOOSE k \in 1..m : idx(m)[k] = i
           fl(m, i) == {x \in {"WRITE", "NEXT"} :
                          IF x = "WRITE" THEN place(m, i) > out ELSE place(m, i) < m}
           desc(m) == [i \in Desc |->
                         IF \A k \in 1..m : idx(m)[k] # i THEN q.desc[i]
                         ELSE [q.desc[i] EXCEPT !.buf = sgs[place(m, i)], !.flags = fl(m, i)]]
           avail == [ring |-> [q.avail.ring EXCEPT ![q.avail.idx % QSize] = q.free_head],
                     idx |-> (q.avail.idx + 1) % IdxMod]
           added(m) == [q EXCEPT !.desc = desc(m), !.free_head = Link(q, q.free_head, m),
                                 !.num_free = @ - m, !.avail = avail]
<1>1. /\ q \in Queue /\ FreeList(q, f) /\ q.num_free >= 3 /\ out \in {1, 2}
      /\ r = virtq_add(q, sgs, out)
  BY Zenon DEF Adds
<1>2. /\ f[1] \in Desc /\ f[2] \in Desc /\ f[3] \in Desc
      /\ f[1] # f[2] /\ f[1] # f[3] /\ f[2] # f[3]
      /\ q.free_head = f[1] /\ q.desc[f[1]].next = f[2] /\ q.desc[f[2]].next = f[3]
      /\ Link(q, f[1], 0) = f[1] /\ Link(q, f[1], 1) = f[2] /\ Link(q, f[1], 2) = f[3]
      /\ Link(q, f[1], 3) = q.desc[f[3]].next
  BY <1>1, FirstThree, Zenon
<1>3. /\ q.num_free \in Nat /\ q.num_free >= 3 /\ Len(sgs) = 3
      /\ ~(Len(sgs) = 0 \/ Len(sgs) > q.num_free)
  BY <1>1 DEF Queue
<1>4. r = [ret |-> q.free_head, vq |-> added(Len(sgs))]
  BY <1>1, <1>3, Zenon DEF virtq_add
<1>5. /\ r.ret = f[1]
      /\ r.vq = [q EXCEPT !.desc = desc(3), !.free_head = Link(q, q.free_head, 3),
                          !.num_free = @ - 3, !.avail = avail]
  <2>1. r = [ret |-> q.free_head, vq |-> added(3)]
    <3> HIDE DEF added, sgs
    <3> QED BY <1>3, <1>4, Zenon
  <2>2. r.ret = q.free_head /\ r.vq = added(3)
    <3> HIDE DEF added
    <3> QED BY <2>1
  <2> QED BY <1>2, <2>2, Zenon
<1>6. idx(3)[1] = f[1] /\ idx(3)[2] = f[2] /\ idx(3)[3] = f[3]
  BY <1>2
<1> HIDE DEF idx
<1>7. place(3, f[1]) = 1 /\ place(3, f[2]) = 2 /\ place(3, f[3]) = 3
  <2>1. \A k \in 1..3 : k = 1 \/ k = 2 \/ k = 3
    OBVIOUS
  <2>2. 1 \in 1..3 /\ 2 \in 1..3 /\ 3 \in 1..3
    OBVIOUS
  <2> QED BY <1>2, <1>6, <2>1, <2>2, Zenon
<1>8. \A i \in Desc : (\A k \in 1..3 : idx(3)[k] # i) <=> i # f[1] /\ i # f[2] /\ i # f[3]
  BY <1>6
<1> HIDE DEF place
<1>9. /\ fl(3, f[1]) = {"NEXT"} /\ fl(3, f[3]) = {"WRITE"}
      /\ fl(3, f[2]) = IF out = 1 THEN {"WRITE", "NEXT"} ELSE {"NEXT"}
  BY <1>1, <1>7
<1>10. sgs[1] = "hdr" /\ sgs[2] = e /\ sgs[3] = "status"
  OBVIOUS
<1> HIDE DEF fl, sgs
<1>11. desc(3) = Filled(q, f, e, out)
  <2>1. ASSUME NEW i \in Desc PROVE desc(3)[i] = Filled(q, f, e, out)[i]
    <3>1. q.desc[i] = [buf |-> q.desc[i].buf, flags |-> q.desc[i].flags, next |-> q.desc[i].next]
      BY <1>1 DEF Queue, Descriptor
    <3>2. CASE i # f[1] /\ i # f[2] /\ i # f[3]
      BY <1>8, <3>2, Zenon DEF Filled
    <3>3. ASSUME i = f[1] \/ i = f[2] \/ i = f[3]
          PROVE  desc(3)[i] = [buf |-> sgs[place(3, i)], flags |-> fl(3, i), next |-> q.desc[i].next]
      <4>1. desc(3)[i] = [q.desc[i] EXCEPT !.buf = sgs[place(3, i)], !.flags = fl(3, i)]
        BY <1>8, <3>3, Zenon
      <4> HIDE DEF desc
      <4> QED BY <3>1, <4>1, Zenon
    <3> HIDE DEF desc
    <3>4. CASE i = f[1]
      <4>1. desc(3)[i] = [buf |-> "hdr", flags |-> {"NEXT"}, next |-> f[2]]
        BY <1>2, <1>7, <1>9, <1>10, <3>3, <3>4, Zenon
      <4> QED BY <3>4, <4>1, Zenon DEF Filled
    <3>5. CASE i = f[2]
      <4>1. desc(3)[i] = [buf |-> e, flags |-> IF out = 1 THEN {"WRITE", "NEXT"} ELSE {"NEXT"},
                       next |-> f[3]]
        BY <1>2, <1>7, <1>9, <1>10, <3>3, <3>5, Zenon
      <4> QED BY <1>2, <3>5, <4>1, Zenon DEF Filled
    <3>6. CASE i = f[3]
      <4>1. desc(3)[i] = [buf |-> "status", flags |-> {"WRITE"}, next |-> q.desc[f[3]].next]
        BY <1>7, <1>9, <1>10, <3>3, <3>6, Zenon
      <4> QED BY <1>2, <3>6, <4>1, Zenon DEF Filled
    <3> QED BY <3>2, <3>4, <3>5, <3>6, Zenon
  <2> QED BY <2>1, Zenon DEF Filled
<1> HIDE DEF desc, avail
<1>12. q = [desc |-> q.desc, free_head |-> q.free_head, num_free |-> q.num_free,
            last_used |-> q.last_used, avail |-> q.avail, used |-> q.used]
  BY <1>1 DEF Queue
<1>13. r.vq = [desc |-> desc(3), free_head |-> q.desc[f[3]].next, num_free |-> q.num_free - 3,
               last_used |-> q.last_used, avail |-> avail, used |-> q.used]
  BY <1>2, <1>5, <1>12, Zenon
<1> QED BY <1>2, <1>5, <1>11, <1>13, Zenon DEF avail, AddResult

\* p is the queue q after that.
Added(q, f, H, e, out, p) ==
  /\ q \in Queue /\ FreeList(q, f) /\ q.num_free >= 3 /\ Partition(q, H, f)
  /\ e \in Entry /\ out \in {1, 2} /\ p \in Queue
  /\ p.desc = Filled(q, f, e, out) /\ p.free_head = q.desc[f[3]].next
  /\ p.num_free = q.num_free - 3

\* A chain from the front of the free list joins those with the device.
LEMMA AddKeeps ==
  ASSUME NEW q, NEW f, NEW H, NEW e, NEW out, NEW p, Added(q, f, H, e, out, p)
  PROVE  /\ QueueInv(p, H \cup {f[1]}) /\ f[1] \notin H
         /\ p.desc[Second(p, f[1])].buf = e
         /\ "WRITE" \in p.desc[Second(p, f[1])].flags <=> out = 1
<1> q \in Queue /\ FreeList(q, f) /\ q.num_free >= 3 /\ Partition(q, H, f)
    /\ e \in Entry /\ out \in {1, 2} /\ p \in Queue
    /\ p.desc = Filled(q, f, e, out) /\ p.free_head = q.desc[f[3]].next
    /\ p.num_free = q.num_free - 3
  BY Zenon DEF Added
<1>1. /\ f[1] \in Desc /\ f[2] \in Desc /\ f[3] \in Desc
      /\ f[1] # f[2] /\ f[1] # f[3] /\ f[2] # f[3]
      /\ q.free_head = f[1] /\ q.desc[f[1]].next = f[2] /\ q.desc[f[2]].next = f[3]
  BY FirstThree, Zenon
<1>2. PICK n \in Nat : n = q.num_free /\ n >= 3 /\ p.num_free = n - 3 /\ n - 3 \in Nat
  BY DEF Queue
<1>3. /\ f \in [1..n -> Desc] /\ \A i, j \in 1..n : f[i] = f[j] => i = j
      /\ \A i \in 1..(n - 1) : q.desc[f[i]].next = f[i + 1]
  BY <1>2, Zenon DEF FreeList
<1>4. /\ \A d \in Desc : p.desc[d].next = q.desc[d].next
      /\ \A d \in Desc : d # f[1] /\ d # f[2] /\ d # f[3] => p.desc[d] = q.desc[d]
      /\ p.desc[f[1]].flags = {"NEXT"} /\ p.desc[f[3]].flags = {"WRITE"}
      /\ p.desc[f[2]].flags = IF out = 1 THEN {"WRITE", "NEXT"} ELSE {"NEXT"}
      /\ p.desc[f[2]].buf = e
  <2>1. /\ p.desc[f[1]] = [buf |-> "hdr", flags |-> {"NEXT"}, next |-> f[2]]
        /\ p.desc[f[2]] = [buf |-> e, flags |-> IF out = 1 THEN {"WRITE", "NEXT"} ELSE {"NEXT"},
                           next |-> f[3]]
        /\ p.desc[f[3]] = [buf |-> "status", flags |-> {"WRITE"}, next |-> q.desc[f[3]].next]
        /\ \A d \in Desc : d # f[1] /\ d # f[2] /\ d # f[3] => p.desc[d] = q.desc[d]
    BY <1>1, Zenon DEF Filled
  <2>2. ASSUME NEW d \in Desc PROVE p.desc[d].next = q.desc[d].next
    <3>1. CASE d = f[1]
      BY <1>1, <2>1, <3>1
    <3>2. CASE d = f[2]
      BY <1>1, <2>1, <3>2
    <3>3. CASE d = f[3]
      BY <2>1, <3>3
    <3>4. CASE d # f[1] /\ d # f[2] /\ d # f[3]
      BY <2>1, <3>4, Zenon
    <3> QED BY <3>1, <3>2, <3>3, <3>4, Zenon
  <2>3. /\ p.desc[f[1]].flags = {"NEXT"} /\ p.desc[f[3]].flags = {"WRITE"}
        /\ p.desc[f[2]].flags = IF out = 1 THEN {"WRITE", "NEXT"} ELSE {"NEXT"}
        /\ p.desc[f[2]].buf = e
    BY <2>1
  <2> QED BY <2>1, <2>2, <2>3, Zenon
<1>5. Second(p, f[1]) = f[2] /\ Third(p, f[1]) = f[3] /\ Members(p, f[1]) = {f[1], f[2], f[3]}
  BY <1>1, <1>4, Zenon DEF Second, Third, Members
<1>6. IsChain(p, f[1])
  BY <1>1, <1>4, <1>5 DEF IsChain
<1>7. 1 \in 1..n /\ 2 \in 1..n /\ 3 \in 1..n
  BY <1>2
<1>8. ASSUME NEW h \in H
      PROVE  /\ IsChain(p, h) /\ Members(p, h) = Members(q, h)
             /\ f[1] \notin Members(q, h) /\ f[2] \notin Members(q, h) /\ f[3] \notin Members(q, h)
             /\ h # f[1]
  <2>1. /\ IsChain(q, h) /\ h \in Desc /\ Second(q, h) \in Desc /\ Third(q, h) \in Desc
    BY ChainOf, Zenon DEF Partition, IsChain
  <2>2. f[1] \notin Members(q, h) /\ f[2] \notin Members(q, h) /\ f[3] \notin Members(q, h)
    BY <1>2, <1>7, Zenon DEF Partition
  <2>3. Second(p, h) = Second(q, h) /\ Third(p, h) = Third(q, h)
    BY <1>4, <2>1, Zenon DEF Second, Third
  <2>4. /\ p.desc[h] = q.desc[h] /\ p.desc[Second(q, h)] = q.desc[Second(q, h)]
        /\ p.desc[Third(q, h)] = q.desc[Third(q, h)] /\ h # f[1]
    BY <1>4, <2>1, <2>2, Zenon DEF Members
  <2> QED BY <2>1, <2>2, <2>3, <2>4, Zenon DEF IsChain, Members
<1> DEFINE g == [i \in 1..(n - 3) |-> f[i + 3]]
           G == H \cup {f[1]}
<1>9. FreeList(p, g)
  <2>1. ASSUME NEW i \in 1..(n - 3) PROVE g[i] = f[i + 3] /\ i + 3 \in 1..n /\ g[i] \in Desc
    <3>1. i + 3 \in 1..n
      BY <1>2
    <3> QED BY <1>3, <3>1, Zenon
  <2>2. g \in [1..(n - 3) -> Desc]
    BY <2>1, Zenon
  <2> HIDE DEF g
  <2>3. ASSUME NEW i \in 1..(n - 3), NEW j \in 1..(n - 3), g[i] = g[j] PROVE i = j
    <3>1. f[i + 3] = f[j + 3] /\ i + 3 \in 1..n /\ j + 3 \in 1..n
      BY <2>1, <2>3, Zenon
    <3>2. i + 3 = j + 3
      BY <1>3, <3>1, Zenon
    <3> QED BY <1>2, <3>2
  <2>4. n - 3 > 0 => p.free_head = g[1]
    <3>1. ASSUME n - 3 > 0 PROVE p.free_head = g[1]
      <4>1. 3 \in 1..(n - 1) /\ 1 \in 1..(n - 3) /\ 3 + 1 = 1 + 3
        BY <1>2, <3>1
      <4>2. q.desc[f[3]].next = f[3 + 1] /\ g[1] = f[1 + 3]
        BY <1>3, <2>1, <4>1, Zenon
      <4> QED BY <4>1, <4>2, Zenon
    <3> QED BY <3>1
  <2>5. ASSUME NEW i \in 1..((n - 3) - 1) PROVE p.desc[g[i]].next = g[i + 1]
    <3>1. i \in 1..(n - 3) /\ i + 1 \in 1..(n - 3) /\ i + 3 \in 1..(n - 1)
          /\ (i + 3) + 1 = (i + 1) + 3
      BY <1>2
    <3>2. q.desc[f[i + 3]].next = f[(i + 3) + 1] /\ g[i + 1] = f[(i + 1) + 3] /\ g[i] = f[i + 3]
          /\ g[i] \in Desc
      BY <1>3, <2>1, <3>1, Zenon
    <3> QED BY <1>4, <3>1, <3>2, Zenon
  <2> QED BY <1>2, <2>2, <2>3, <2>4, <2>5, Zenon DEF FreeList
<1>10. Partition(p, G, g)
  <2>1. \A h \in G : IsChain(p, h)
    BY <1>6, <1>8, Zenon
  <2>2. ASSUME NEW i \in 1..(n - 3) PROVE i + 3 \in 1..n /\ g[i] = f[i + 3] /\ i + 3 # 1
                                         /\ i + 3 # 2 /\ i + 3 # 3
    BY <1>2
  <2> HIDE DEF g
  <2>3. ASSUME NEW h \in G, NEW i \in 1..(n - 3) PROVE g[i] \notin Members(p, h)
    <3>1. CASE h \in H
      <4>1. f[i + 3] \notin Members(q, h)
        BY <1>2, <2>2, <3>1, Zenon DEF Partition
      <4> QED BY <1>8, <2>2, <3>1, <4>1, Zenon
    <3>2. CASE h = f[1]
      <4>1. f[i + 3] # f[1] /\ f[i + 3] # f[2] /\ f[i + 3] # f[3]
        BY <1>3, <1>7, <2>2, Zenon
      <4> QED BY <1>5, <2>2, <3>2, <4>1, Zenon
    <3> QED BY <3>1, <3>2, Zenon
  <2>4. ASSUME NEW h \in G, NEW k \in G, h # k PROVE Members(p, h) \cap Members(p, k) = {}
    <3>1. \A a \in H : Members(p, a) \cap Members(p, f[1]) = {}
      BY <1>5, <1>8, Zenon
    <3>2. \A a, b \in H : a # b => Members(p, a) \cap Members(p, b) = {}
      BY <1>8, Zenon DEF Partition
    <3> QED BY <2>4, <3>1, <3>2, Zenon
  <2>5. ASSUME NEW d \in Desc
        PROVE  (\E i \in 1..(n - 3) : g[i] = d) \/ \E h \in G : d \in Members(p, h)
    <3>1. (\E i \in 1..n : f[i] = d) \/ \E h \in H : d \in Members(q, h)
      BY <1>2, Zenon DEF Partition
    <3>2. CASE \E h \in H : d \in Members(q, h)
      BY <1>8, <3>2, Zenon
    <3>3. CASE \E i \in 1..n : f[i] = d
      <4>1. PICK i \in 1..n : f[i] = d
        BY <3>3, Zenon
      <4>2. CASE i = 1 \/ i = 2 \/ i = 3
        BY <1>5, <4>1, <4>2, Zenon
      <4>3. CASE i # 1 /\ i # 2 /\ i # 3
        <5>1. i - 3 \in 1..(n - 3) /\ (i - 3) + 3 = i
          BY <1>2, <4>3
        <5>2. g[i - 3] = d
          BY <2>2, <4>1, <5>1, Zenon
        <5> QED BY <5>1, <5>2, Zenon
      <4> QED BY <4>2, <4>3, Zenon
    <3> QED BY <3>1, <3>2, <3>3, Zenon
  <2> HIDE DEF G
  <2> QED BY <1>2, <2>1, <2>3, <2>4, <2>5, Zenon DEF Partition
<1>11. f[1] \notin H
  BY <1>8, Zenon
<1>12. QueueInv(p, G)
  <2> HIDE DEF g, G
  <2> QED BY <1>9, <1>10, Zenon DEF QueueInv
<1>13. "WRITE" \in p.desc[f[2]].flags <=> out = 1
  BY <1>4
<1> QED BY <1>4, <1>5, <1>11, <1>12, <1>13, Zenon

-----------------------------------------------------------------------------
(* Taking a chain back                                                     *)

\* A completion is consumed, r being what virtq_take_used returns.
Takes(q, h, r) ==
  /\ q \in Queue /\ q.last_used # q.used.idx /\ h = q.used.ring[q.last_used % QSize]
  /\ IsChain(q, h) /\ r = virtq_take_used(q)

\* What virtq_take_used makes of a queue with a completion.
LEMMA TakeFields ==
  ASSUME NEW q, NEW h, NEW r, Takes(q, h, r)
  PROVE  /\ r.ret = h
         /\ r.vq = [desc |-> [q.desc EXCEPT ![Third(q, h)] =
                                [buf |-> q.desc[Third(q, h)].buf, flags |-> {"NEXT"},
                                 next |-> q.free_head]],
                    free_head |-> h, num_free |-> q.num_free + 3,
                    last_used |-> (q.last_used + 1) % IdxMod,
                    avail |-> q.avail, used |-> q.used]
<1> q \in Queue /\ q.last_used # q.used.idx /\ h = q.used.ring[q.last_used % QSize]
    /\ IsChain(q, h) /\ r = virtq_take_used(q)
  BY Zenon DEF Takes
<1>1. Len(Chain(q, h)) = 3 /\ Chain(q, h)[3] = Third(q, h) /\ Third(q, h) \in Desc
  BY ChainOf, Zenon
<1>2. PICK t : t = Third(q, h) /\ t \in Desc /\ Chain(q, h)[Len(Chain(q, h))] = t
               /\ Len(Chain(q, h)) = 3
  BY <1>1, Zenon
<1> DEFINE desc == [q.desc EXCEPT ![t].flags = {"NEXT"}, ![t].next = q.free_head]
           new == [buf |-> q.desc[t].buf, flags |-> {"NEXT"}, next |-> q.free_head]
<1>3. /\ r.ret = h
      /\ r.vq = [q EXCEPT !.last_used = (@ + 1) % IdxMod, !.desc = desc, !.free_head = h,
                          !.num_free = @ + 3]
  BY <1>2, Zenon DEF virtq_take_used
<1>4. desc = [q.desc EXCEPT ![t] = new]
  <2>1. q.desc \in [Desc -> Descriptor]
    BY DEF Queue
  <2>2. ASSUME NEW d \in Desc PROVE desc[d] = [q.desc EXCEPT ![t] = new][d]
    <3>1. q.desc[d] = [buf |-> q.desc[d].buf, flags |-> q.desc[d].flags, next |-> q.desc[d].next]
      BY <2>1 DEF Descriptor
    <3>2. CASE d = t
      <4>1. desc[t] = [[q.desc[t] EXCEPT !.flags = {"NEXT"}] EXCEPT !.next = q.free_head]
        BY <1>2, <2>1, Zenon
      <4>2. desc[t] = new
        <5> HIDE DEF desc
        <5> QED BY <3>1, <3>2, <4>1, Zenon
      <4>3. [q.desc EXCEPT ![t] = new][t] = new
        BY <1>2, <2>1, Zenon
      <4> QED BY <3>2, <4>2, <4>3, Zenon
    <3>3. CASE d # t
      BY <2>1, <3>3, Zenon
    <3> QED BY <3>2, <3>3
  <2>3. DOMAIN desc = Desc /\ DOMAIN [q.desc EXCEPT ![t] = new] = Desc
    BY <2>1
  <2>4. desc = [d \in Desc |-> desc[d]]
    BY <2>1, Zenon
  <2>5. [q.desc EXCEPT ![t] = new] = [d \in Desc |-> [q.desc EXCEPT ![t] = new][d]]
    BY <2>1, Zenon
  <2> QED BY <2>2, <2>4, <2>5, Zenon
<1> HIDE DEF desc
<1>5. q = [desc |-> q.desc, free_head |-> q.free_head, num_free |-> q.num_free,
           last_used |-> q.last_used, avail |-> q.avail, used |-> q.used]
  BY DEF Queue
<1>6. r.vq = [desc |-> desc, free_head |-> h, num_free |-> q.num_free + 3,
              last_used |-> (q.last_used + 1) % IdxMod, avail |-> q.avail, used |-> q.used]
  BY <1>3, <1>5, Zenon
<1> QED BY <1>2, <1>3, <1>4, <1>6, Zenon

\* A chain from the device goes to the front of the free list.
LEMMA TakeKeeps ==
  ASSUME NEW q \in Queue, NEW f, FreeList(q, f), NEW H, Partition(q, H, f),
         NEW h \in H, NEW p \in Queue,
         p.desc = [q.desc EXCEPT ![Third(q, h)] =
                     [buf |-> q.desc[Third(q, h)].buf, flags |-> {"NEXT"}, next |-> q.free_head]],
         p.free_head = h, p.num_free = q.num_free + 3
  PROVE  QueueInv(p, H \ {h})
<1>1. PICK a \in Desc, b \in Desc :
        /\ a = Second(q, h) /\ b = Third(q, h) /\ h \in Desc
        /\ a = q.desc[h].next /\ b = q.desc[a].next
        /\ a # h /\ b # h /\ a # b /\ Members(q, h) = {h, a, b}
  <2>1. IsChain(q, h)
    BY Zenon DEF Partition
  <2>2. Second(q, h) \in Desc /\ Third(q, h) \in Desc
    BY <2>1, ChainOf, Zenon
  <2> QED BY <2>1, <2>2, Zenon DEF IsChain, Second, Third, Members
<1>2. PICK n \in Nat : n = q.num_free /\ p.num_free = n + 3
  BY DEF Queue
<1>3. /\ f \in [1..n -> Desc] /\ \A i, j \in 1..n : f[i] = f[j] => i = j
      /\ \A i \in 1..(n - 1) : q.desc[f[i]].next = f[i + 1]
      /\ n > 0 => q.free_head = f[1]
      /\ \A i \in 1..n : f[i] # h /\ f[i] # a /\ f[i] # b
  BY <1>1, <1>2, Zenon DEF FreeList, Partition
<1>4. /\ \A d \in Desc : d # b => p.desc[d] = q.desc[d]
      /\ p.desc[b].next = q.free_head
  <2>1. q.desc \in [Desc -> Descriptor]
    BY DEF Queue
  <2>2. \A d \in Desc : p.desc[d] = IF d = b THEN [buf |-> q.desc[b].buf, flags |-> {"NEXT"},
                                                   next |-> q.free_head]
                                    ELSE q.desc[d]
    BY <1>1, <2>1, Zenon
  <2>3. p.desc[b] = [buf |-> q.desc[b].buf, flags |-> {"NEXT"}, next |-> q.free_head]
    BY <2>2, Zenon
  <2>4. p.desc[b].next = q.free_head
    BY <2>3
  <2> QED BY <2>2, <2>4, Zenon
<1> DEFINE g == [i \in 1..(n + 3) |-> IF i = 1 THEN h ELSE IF i = 2 THEN a ELSE IF i = 3 THEN b
                                      ELSE f[i - 3]]
           G == H \ {h}
<1>5. /\ g[1] = h /\ g[2] = a /\ g[3] = b
      /\ \A i \in 1..n : i + 3 \in 1..(n + 3) /\ g[i + 3] = f[i]
      /\ \A i \in 1..(n + 3) : i \in {1, 2, 3} \/ (i - 3 \in 1..n /\ g[i] = f[i - 3])
  <2>1. 1 \in 1..(n + 3) /\ 2 \in 1..(n + 3) /\ 3 \in 1..(n + 3)
    OBVIOUS
  <2>2. ASSUME NEW i \in 1..n
        PROVE  i + 3 \in 1..(n + 3) /\ (i + 3) - 3 = i /\ i + 3 # 1 /\ i + 3 # 2 /\ i + 3 # 3
    OBVIOUS
  <2>3. ASSUME NEW i \in 1..n PROVE g[i + 3] = f[i]
    <3>1. g[i + 3] = f[(i + 3) - 3]
      BY <2>2, Zenon
    <3> QED BY <2>2, <3>1, Zenon
  <2>4. ASSUME NEW i \in 1..(n + 3), i \notin {1, 2, 3} PROVE i - 3 \in 1..n /\ g[i] = f[i - 3]
    BY <2>4
  <2> QED BY <2>1, <2>2, <2>3, <2>4
<1>6. ASSUME NEW i \in 1..(n + 3) PROVE g[i] \in Desc
  BY <1>1, <1>3, <1>5, Zenon
<1>7. g \in [1..(n + 3) -> Desc]
  BY <1>6, Zenon
<1> HIDE DEF g
<1>8. FreeList(p, g)
  <2>1. ASSUME NEW i \in 1..(n + 3), NEW j \in 1..(n + 3), g[i] = g[j] PROVE i = j
    <3>1. CASE i - 3 \in 1..n /\ j - 3 \in 1..n /\ g[i] = f[i - 3] /\ g[j] = f[j - 3]
      <4>1. i - 3 = j - 3
        BY <1>3, <2>1, <3>1, Zenon
      <4> QED BY <4>1
    <3>2. g[1] = h /\ g[2] = a /\ g[3] = b
      BY <1>5, Zenon
    <3>3. CASE i \in {1, 2, 3} /\ j \in {1, 2, 3}
      <4>1. (i = 1 /\ g[i] = h) \/ (i = 2 /\ g[i] = a) \/ (i = 3 /\ g[i] = b)
        BY <3>2, <3>3, Zenon
      <4>2. (j = 1 /\ g[j] = h) \/ (j = 2 /\ g[j] = a) \/ (j = 3 /\ g[j] = b)
        BY <3>2, <3>3, Zenon
      <4>3. a # h /\ b # h /\ a # b
        BY <1>1, Zenon
      <4> QED BY ONLY <2>1, <4>1, <4>2, <4>3
    <3>4. CASE i \in {1, 2, 3} /\ j - 3 \in 1..n /\ g[j] = f[j - 3]
      <4>1. f[j - 3] # h /\ f[j - 3] # a /\ f[j - 3] # b
        BY <1>3, <3>4, Zenon
      <4> QED BY <2>1, <3>2, <3>4, <4>1, Zenon
    <3>5. CASE j \in {1, 2, 3} /\ i - 3 \in 1..n /\ g[i] = f[i - 3]
      <4>1. f[i - 3] # h /\ f[i - 3] # a /\ f[i - 3] # b
        BY <1>3, <3>5, Zenon
      <4> QED BY <2>1, <3>2, <3>5, <4>1, Zenon
    <3> QED BY <1>5, <3>1, <3>3, <3>4, <3>5, Zenon
  <2>2. ASSUME NEW i \in 1..((n + 3) - 1) PROVE p.desc[g[i]].next = g[i + 1]
    <3>1. CASE i = 1
      <4>1. i + 1 = 2
        BY <3>1
      <4> QED BY <1>1, <1>4, <1>5, <3>1, <4>1, Zenon
    <3>2. CASE i = 2
      <4>1. i + 1 = 3
        BY <3>2
      <4> QED BY <1>1, <1>4, <1>5, <3>2, <4>1, Zenon
    <3>3. CASE i = 3
      <4>1. n > 0 /\ 1 \in 1..n
        BY <3>3
      <4>2. g[1 + 3] = f[1]
        BY <1>5, <4>1, Zenon
      <4>3. p.desc[g[3]].next = f[1]
        BY <1>3, <1>4, <1>5, <4>1, Zenon
      <4> QED BY <3>3, <4>2, <4>3
    <3>4. CASE i \notin {1, 2, 3}
      <4>1. /\ i \in 1..(n + 3) /\ i - 3 \in 1..(n - 1) /\ i - 3 \in 1..n /\ (i - 3) + 1 \in 1..n
            /\ ((i - 3) + 1) + 3 = i + 1
        BY <3>4
      <4>2. g[i] = f[i - 3]
        BY <1>5, <3>4, <4>1, Zenon
      <4>3. q.desc[f[i - 3]].next = f[(i - 3) + 1] /\ f[i - 3] # b /\ f[i - 3] \in Desc
        BY <1>3, <4>1, Zenon
      <4>4. g[((i - 3) + 1) + 3] = f[(i - 3) + 1]
        BY <1>5, <4>1, Zenon
      <4> QED BY <1>4, <4>1, <4>2, <4>3, <4>4, Zenon
    <3> QED BY <3>1, <3>2, <3>3, <3>4
  <2>3. n + 3 > 0 => p.free_head = g[1]
    BY <1>5, Zenon
  <2> QED BY <1>2, <1>7, <2>1, <2>2, <2>3, Zenon DEF FreeList
<1>9. ASSUME NEW k \in G
      PROVE  /\ IsChain(p, k) /\ Members(p, k) = Members(q, k)
             /\ Members(q, k) \cap {h, a, b} = {}
  <2>1. /\ IsChain(q, k) /\ k \in Desc /\ Second(q, k) \in Desc /\ Third(q, k) \in Desc
        /\ k \in H /\ k # h
    BY ChainOf, Zenon DEF Partition, IsChain
  <2>2. Members(q, k) \cap {h, a, b} = {}
    BY <1>1, <2>1, Zenon DEF Partition
  <2>3. k # b /\ Second(q, k) # b /\ Third(q, k) # b
    BY <2>2, Zenon DEF Members
  <2>4. p.desc[k] = q.desc[k]
    BY <1>4, <2>1, <2>3, Zenon
  <2>5. Second(p, k) = Second(q, k)
    BY <2>4, Zenon DEF Second
  <2>6. p.desc[Second(q, k)] = q.desc[Second(q, k)] /\ p.desc[Third(q, k)] = q.desc[Third(q, k)]
    BY <1>4, <2>1, <2>3, Zenon
  <2>7. Third(p, k) = Third(q, k)
    BY <2>5, <2>6, Zenon DEF Third
  <2> QED BY <2>1, <2>2, <2>4, <2>5, <2>6, <2>7, Zenon DEF IsChain, Members
<1>10. Partition(p, G, g)
  <2>1. ASSUME NEW k \in G, NEW i \in 1..(n + 3) PROVE g[i] \notin Members(p, k)
    <3>1. CASE i \in {1, 2, 3}
      BY <1>5, <1>9, <3>1, Zenon
    <3>2. CASE i - 3 \in 1..n /\ g[i] = f[i - 3]
      <4>1. f[i - 3] \notin Members(q, k)
        BY <1>2, <3>2, Zenon DEF Partition
      <4> QED BY <1>9, <3>2, <4>1, Zenon
    <3> QED BY <1>5, <3>1, <3>2, Zenon
  <2>2. ASSUME NEW k \in G, NEW l \in G, k # l PROVE Members(p, k) \cap Members(p, l) = {}
    BY <1>9, <2>2, Zenon DEF Partition
  <2>3. ASSUME NEW d \in Desc
        PROVE  (\E i \in 1..(n + 3) : g[i] = d) \/ \E k \in G : d \in Members(p, k)
    <3>1. CASE \E i \in 1..n : f[i] = d
      BY <1>5, <3>1, Zenon
    <3>2. CASE d \in {h, a, b}
      <4>1. 1 \in 1..(n + 3) /\ 2 \in 1..(n + 3) /\ 3 \in 1..(n + 3)
        OBVIOUS
      <4> QED BY <1>5, <3>2, <4>1, Zenon
    <3>3. CASE \E k \in G : d \in Members(q, k)
      BY <1>9, <3>3, Zenon
    <3>4. (\E i \in 1..n : f[i] = d) \/ \E k \in H : d \in Members(q, k)
      BY <1>2, Zenon DEF Partition
    <3> QED BY <1>1, <3>1, <3>2, <3>3, <3>4, Zenon
  <2>4. \A k \in G : IsChain(p, k)
    BY <1>9, Zenon
  <2> HIDE DEF G
  <2> QED BY <1>2, <2>1, <2>2, <2>3, <2>4, Zenon DEF Partition
<1> HIDE DEF G
<1> QED BY <1>8, <1>10, Zenon DEF QueueInv, G

-----------------------------------------------------------------------------
(* The cache                                                               *)

\* An entry loses its stamp.
LEMMA DroppedIs ==
  ASSUME lru \in Seq(Entry), IsInjective(lru), NEW e \in Entry
  PROVE  /\ Dropped(e) \in Seq(Entry) /\ IsInjective(Dropped(e))
         /\ \A x : x \in Range(Dropped(e)) <=> x \in Range(lru) /\ x # e
<1>1. CASE e \notin Range(lru)
  BY <1>1, Zenon DEF Dropped
<1>2. CASE e \in Range(lru)
  <2>1. PICK n \in Nat : n = Len(lru) /\ DOMAIN lru = 1..n
    BY SeqLen, Zenon
  <2>2. /\ \A x : x \in Range(lru) <=> \E i \in 1..n : lru[i] = x
        /\ \A i, j \in 1..n : lru[i] = lru[j] => i = j
        /\ \A i \in 1..n : lru[i] \in Entry
    <3>1. /\ \A x : x \in Range(lru) <=> \E i \in 1..Len(lru) : lru[i] = x
          /\ IsInjective(lru) <=> \A i, j \in 1..Len(lru) : lru[i] = lru[j] => i = j
          /\ \A i \in 1..Len(lru) : lru[i] \in Entry
      BY RangeAt, Zenon
    <3> QED BY <2>1, <3>1, Zenon
  <2>3. PICK k \in 1..n : lru[k] = e /\ Dropped(e) = SubSeq(lru, 1, k - 1) \o SubSeq(lru, k + 1, n)
    <3>1. PICK k : k = CHOOSE i \in DOMAIN lru : lru[i] = e
      BY Zenon
    <3>2. k \in 1..n /\ lru[k] = e
      BY <1>2, <2>1, <2>2, <3>1, Zenon
    <3>3. Dropped(e) = SubSeq(lru, 1, k - 1) \o SubSeq(lru, k + 1, Len(lru))
      BY <1>2, <3>1, Zenon DEF Dropped
    <3> QED BY <2>1, <3>2, <3>3, Zenon
  <2> DEFINE p == SubSeq(lru, 1, k - 1)
             r == SubSeq(lru, k + 1, n)
             w == p \o r
  <2>4. p \in Seq(Entry) /\ Len(p) = k - 1 /\ \A i \in 1..(k - 1) : p[i] = lru[i]
    BY <2>2
  <2>5. r \in Seq(Entry) /\ Len(r) = n - k /\ \A i \in 1..(n - k) : r[i] = lru[k + i]
    BY <2>2
  <2> HIDE DEF p, r
  <2>6. /\ w \in Seq(Entry) /\ Len(w) = n - 1
        /\ \A i \in 1..(n - 1) : w[i] = IF i < k THEN lru[i] ELSE lru[i + 1]
    <3>1. /\ w \in Seq(Entry) /\ Len(w) = Len(p) + Len(r)
          /\ \A i \in 1..(Len(p) + Len(r)) : w[i] = IF i <= Len(p) THEN p[i] ELSE r[i - Len(p)]
      BY <2>4, <2>5, SeqConcat, Zenon
    <3>2. /\ w \in Seq(Entry) /\ Len(w) = (k - 1) + (n - k)
          /\ \A i \in 1..((k - 1) + (n - k)) : w[i] = IF i <= k - 1 THEN p[i] ELSE r[i - (k - 1)]
      <4> HIDE DEF w
      <4> QED BY <2>4, <2>5, <3>1, Zenon
    <3> HIDE DEF w
    <3>3. (k - 1) + (n - k) = n - 1
      OBVIOUS
    <3>4. ASSUME NEW i \in 1..(n - 1) PROVE w[i] = IF i < k THEN lru[i] ELSE lru[i + 1]
      <4>1. CASE i < k
        <5>1. i <= k - 1 /\ i \in 1..(k - 1)
          BY <4>1
        <5> QED BY <2>4, <3>2, <3>3, <4>1, <5>1
      <4>2. CASE ~(i < k)
        <5>1. ~(i <= k - 1) /\ i - (k - 1) \in 1..(n - k) /\ k + (i - (k - 1)) = i + 1
          BY <4>2
        <5>2. w[i] = r[i - (k - 1)] /\ r[i - (k - 1)] = lru[k + (i - (k - 1))]
          BY <2>5, <3>2, <3>3, <5>1
        <5> QED BY <4>2, <5>1, <5>2
      <4> QED BY <4>1, <4>2
    <3> QED BY <3>2, <3>3, <3>4
  <2>7. /\ \A x : x \in Range(w) <=> \E i \in 1..(n - 1) : w[i] = x
        /\ IsInjective(w) <=> \A i, j \in 1..(n - 1) : w[i] = w[j] => i = j
    <3> HIDE DEF w
    <3>1. w \in Seq(Entry)
      BY <2>6, Zenon
    <3>2. /\ \A x : x \in Range(w) <=> \E i \in 1..Len(w) : w[i] = x
          /\ IsInjective(w) <=> \A i, j \in 1..Len(w) : w[i] = w[j] => i = j
      BY <3>1, RangeAt, Zenon
    <3> QED BY <2>6, <3>2, Zenon
  <2> HIDE DEF w
  <2>8. ASSUME NEW i \in 1..(n - 1), NEW j \in 1..(n - 1), w[i] = w[j] PROVE i = j
    <3>1. i \in 1..n /\ j \in 1..n /\ i + 1 \in 1..n /\ j + 1 \in 1..n
      OBVIOUS
    <3>2. PICK x \in 1..n : w[i] = lru[x] /\ x = (IF i < k THEN i ELSE i + 1)
      BY <2>6, <3>1, Zenon
    <3>3. PICK y \in 1..n : w[j] = lru[y] /\ y = (IF j < k THEN j ELSE j + 1)
      BY <2>6, <3>1, Zenon
    <3>4. x = y
      BY <2>2, <2>8, <3>2, <3>3, Zenon
    <3> QED BY <3>2, <3>3, <3>4
  <2>9. ASSUME NEW x PROVE x \in Range(w) <=> x \in Range(lru) /\ x # e
    <3>1. ASSUME NEW i \in 1..(n - 1), w[i] = x PROVE x \in Range(lru) /\ x # e
      <4>1. CASE i < k
        <5>1. i \in 1..n /\ i # k
          BY <4>1
        <5> QED BY <2>2, <2>3, <2>6, <3>1, <4>1, <5>1, Zenon
      <4>2. CASE ~(i < k)
        <5>1. i + 1 \in 1..n /\ i + 1 # k
          BY <4>2
        <5>2. x = lru[i + 1]
          BY <2>6, <3>1, <4>2, Zenon
        <5>3. lru[i + 1] # lru[k]
          BY <2>2, <2>3, <5>1, Zenon
        <5> QED BY <2>2, <2>3, <5>1, <5>2, <5>3, Zenon
      <4> QED BY <4>1, <4>2, Zenon
    <3>2. ASSUME NEW i \in 1..n, lru[i] = x, x # e PROVE \E j \in 1..(n - 1) : w[j] = x
      <4>1. i # k
        BY <2>3, <3>2, Zenon
      <4>2. CASE i < k
        <5>1. i \in 1..(n - 1)
          BY <4>2
        <5> QED BY <2>6, <3>2, <4>2, <5>1, Zenon
      <4>3. CASE ~(i < k)
        <5>1. i - 1 \in 1..(n - 1) /\ ~(i - 1 < k) /\ (i - 1) + 1 = i
          BY <4>1, <4>3
        <5>2. w[i - 1] = x
          BY <2>6, <3>2, <5>1, Zenon
        <5> QED BY <5>1, <5>2, Zenon
      <4> QED BY <4>2, <4>3, Zenon
    <3> QED BY <2>2, <2>7, <3>1, <3>2, Zenon
  <2> QED BY <2>3, <2>6, <2>7, <2>8, <2>9, Zenon DEF w, p, r
<1> QED BY <1>1, <1>2, Zenon

\* An entry gets the newest stamp.
LEMMA StampedIs ==
  ASSUME lru \in Seq(Entry), IsInjective(lru), NEW e \in Entry
  PROVE  /\ Stamped(e) \in Seq(Entry) /\ IsInjective(Stamped(e))
         /\ \A x : x \in Range(Stamped(e)) <=> x \in Range(lru) \/ x = e
<1>1. PICK d : d = Dropped(e) /\ d \in Seq(Entry) /\ IsInjective(d)
               /\ \A x : x \in Range(d) <=> x \in Range(lru) /\ x # e
  BY DroppedIs, Zenon
<1>2. e \notin Range(d) /\ d \in Seq(Entry) /\ IsInjective(d)
  BY <1>1, Zenon
<1>3. /\ Append(d, e) \in Seq(Entry) /\ IsInjective(Append(d, e))
      /\ \A y : y \in Range(Append(d, e)) <=> y \in Range(d) \/ y = e
  BY ONLY <1>2, e \in Entry, AppendQueue, Zenon
<1> QED BY <1>1, <1>3, Zenon DEF Stamped

\* The entries with a stamp are entries.
LEMMA Cached ==
  ASSUME CacheInv, NEW e \in Range(lru)
  PROVE  e \in Entry /\ lba[e] \in Lba
<1>1. lru \in Seq(Entry) /\ lba[e] \in Lba
  BY Zenon DEF CacheInv
<1>2. lru \in [1..Len(lru) -> Entry]
  BY <1>1, SeqLen, Zenon
<1> QED BY <1>1, <1>2, Zenon DEF Range

-----------------------------------------------------------------------------
(* Steps of the driver                                                     *)

\* A new request is queued, or finds no room.
LEMMA Submits ==
  ASSUME BlockInv, Ready, NEW type \in {"IN", "OUT"}, NEW b \in Lba, NEW e \in Entry,
         NEW v \in Value \cup {None}, submit(type, b, e, v), UNCHANGED <<device, given_up>>
  PROVE  /\ QueueInv(vq', Held') /\ FlightInv' /\ BufferInv' /\ PanicInv'
         /\ call' \in Call /\ call' # None /\ Balance
         /\ call'.type = type /\ call'.lba = b /\ call'.entry = e /\ call'.val = v
<1>1. PICK out, r :
        /\ out \in {1, 2}
        /\ out = (IF type = "OUT" THEN 2 ELSE 1)
        /\ r = virtq_add(vq, <<"hdr", e, "status">>, out)
        /\ vq' = r.vq /\ panicked' = (r.ret = -1)
        /\ hdr' = [type |-> type, lba |-> b]
        /\ call' = [type |-> type, lba |-> b, entry |-> e, head |-> r.ret, val |-> v]
  <2>1. (IF type = "OUT" THEN 2 ELSE 1) \in {1, 2}
    OBVIOUS
  <2> QED BY <2>1 DEF submit
<1>2. Held = given_up /\ Quiet /\ seen \in Idx
  BY Zenon DEF BlockInv, Ready, Held, InFlight, FlightInv
<1>3. PICK f : FreeList(vq, f) /\ Partition(vq, given_up, f) /\ vq \in Queue
  BY <1>2, Zenon DEF BlockInv, QueueInv
<1>4. ASSUME r.ret \in Desc \cup {-1}
      PROVE  /\ call' \in Call /\ call' # None /\ call'.head = r.ret
             /\ call'.type = type /\ call'.lba = b /\ call'.entry = e /\ call'.val = v
  <2>1. call' \in Call
    BY <1>1, <1>4 DEF Call
  <2> QED BY <1>1, <2>1, BlockDevAssumption
<1>5. CASE vq.num_free >= 3
  <2>1. /\ r.ret = f[1]
        /\ vq' = [desc |-> Filled(vq, f, e, out), free_head |-> vq.desc[f[3]].next,
                  num_free |-> vq.num_free - 3, last_used |-> vq.last_used,
                  avail |-> [ring |-> [vq.avail.ring EXCEPT ![vq.avail.idx % QSize] = f[1]],
                             idx |-> (vq.avail.idx + 1) % IdxMod],
                  used |-> vq.used]
    <3>1. Adds(vq, f, e, out, r)
      BY <1>1, <1>3, <1>5, Zenon DEF Adds
    <3>2. r.ret = f[1] /\ r.vq = AddResult(vq, f, e, out)
      BY ONLY <3>1, AddFields, Zenon
    <3> QED BY <1>1, <3>2, Zenon DEF AddResult
  <2>2. PICK p : p = vq'
    BY Zenon
  <2>3. /\ p.desc = Filled(vq, f, e, out) /\ p.free_head = vq.desc[f[3]].next
        /\ p.num_free = vq.num_free - 3 /\ p.last_used = vq.last_used /\ p.used = vq.used
        /\ p.avail.ring = [vq.avail.ring EXCEPT ![vq.avail.idx % QSize] = f[1]]
        /\ p.avail.idx = (vq.avail.idx + 1) % IdxMod
    BY <2>1, <2>2
  <2>4. /\ f[1] \in Desc /\ f[2] \in Desc /\ f[3] \in Desc /\ vq.desc[f[3]].next \in Desc
    BY <1>3, <1>5, FirstThree, Zenon
  <2>5. vq.avail.idx \in Idx /\ vq.avail.ring \in [Desc -> Desc] /\ vq.desc \in [Desc -> Descriptor]
        /\ vq.used \in Ring /\ vq.last_used \in Idx /\ vq.num_free \in Nat
    BY <1>3 DEF Queue, Ring
  <2>6. (vq.avail.idx + 1) % IdxMod \in Idx /\ vq.avail.idx % QSize \in Desc
    BY <2>5, IndexStep, Zenon
  <2>7. p \in Queue
    <3>1. ASSUME NEW i \in Desc PROVE Filled(vq, f, e, out)[i] \in Descriptor
      <4>1. "hdr" \in Buffer /\ e \in Buffer /\ "status" \in Buffer
        BY DEF Buffer
      <4>2. [buf |-> "hdr", flags |-> {"NEXT"}, next |-> f[2]] \in Descriptor
        BY <2>4, <4>1 DEF Descriptor
      <4>3. [buf |-> e, flags |-> IF out = 1 THEN {"WRITE", "NEXT"} ELSE {"NEXT"}, next |-> f[3]]
              \in Descriptor
        BY <2>4, <4>1 DEF Descriptor
      <4>4. [buf |-> "status", flags |-> {"WRITE"}, next |-> vq.desc[f[3]].next] \in Descriptor
        BY <2>4, <4>1 DEF Descriptor
      <4> QED BY <2>5, <4>2, <4>3, <4>4, Zenon DEF Filled
    <3>2. Filled(vq, f, e, out) \in [Desc -> Descriptor]
      BY <3>1, Zenon DEF Filled
    <3>3. [vq.avail.ring EXCEPT ![vq.avail.idx % QSize] = f[1]] \in [Desc -> Desc]
      BY <2>4, <2>5, <2>6
    <3>4. vq.num_free - 3 \in Nat
      BY <1>5, <2>5
    <3>5. PICK D, R, i, n, l, u, h :
            /\ D = Filled(vq, f, e, out) /\ R = [vq.avail.ring EXCEPT ![vq.avail.idx % QSize] = f[1]]
            /\ i = (vq.avail.idx + 1) % IdxMod /\ n = vq.num_free - 3 /\ l = vq.last_used
            /\ u = vq.used /\ h = vq.desc[f[3]].next
      BY Zenon
    <3>6. p = [desc |-> D, free_head |-> h, num_free |-> n, last_used |-> l,
               avail |-> [ring |-> R, idx |-> i], used |-> u]
      BY ONLY <2>1, <2>2, <3>5, Zenon
    <3>7. /\ D \in [Desc -> Descriptor] /\ R \in [Desc -> Desc] /\ i \in Idx /\ n \in Nat
          /\ l \in Idx /\ u \in Ring /\ h \in Desc
      BY ONLY <2>4, <2>5, <2>6, <3>2, <3>3, <3>4, <3>5, Zenon
    <3>8. [ring |-> R, idx |-> i] \in Ring
      BY ONLY <3>7 DEF Ring
    <3> QED BY ONLY <3>6, <3>7, <3>8 DEF Queue
  <2>8. /\ QueueInv(p, given_up \cup {f[1]}) /\ f[1] \notin given_up
        /\ p.desc[Second(p, f[1])].buf = e
        /\ "WRITE" \in p.desc[Second(p, f[1])].flags <=> out = 1
    <3>1. Added(vq, f, given_up, e, out, p)
      BY <1>1, <1>3, <1>5, <2>3, <2>7, Zenon DEF Added
    <3> QED BY ONLY <3>1, AddKeeps
  <2>9. call'.head = f[1] /\ call' \in Call /\ call' # None /\ call'.type = type /\ call'.entry = e
        /\ call'.lba = b /\ call'.val = v
    BY <1>4, <2>1, <2>4, Zenon
  <2>10. panicked' = FALSE
    <3>1. r.ret # -1
      BY <2>1, <2>4, VirtqAssumption DEF Desc
    <3> QED BY <1>1, <3>1, Zenon
  <2>11. InFlight' /\ Held' = given_up \cup {f[1]}
    BY <2>9, <2>10, Zenon DEF InFlight, Held
  <2>12. BufferInv'
    <3>1. out = 1 <=> type = "IN"
      BY <1>1
    <3> QED BY <2>2, <2>4, <2>8, <2>9, <3>1, Zenon DEF BufferInv
  <2>13. Sent'
    <3>1. p.avail.ring[vq.avail.idx % QSize] = f[1]
      BY <2>3, <2>5, <2>6, Zenon
    <3>2. hdr'.type = type /\ hdr'.lba = b
      BY <1>1
    <3> QED BY <1>2, <2>2, <2>3, <2>9, <3>1, <3>2, Zenon DEF Sent, Quiet, device
  <2>14. FlightInv'
    BY <1>2, <2>11, <2>13, Zenon DEF FlightInv, Flight, device
  <2>15. PanicInv'
    BY <2>10, Zenon DEF PanicInv
  <2>16. Balance
    BY <1>2, <2>2, <2>3, <2>8, <2>11, Zenon DEF Balance
  <2> QED BY <2>2, <2>8, <2>9, <2>11, <2>12, <2>14, <2>15, <2>16, Zenon
<1>6. CASE ~(vq.num_free >= 3)
  <2>1. vq.num_free \in Nat /\ vq.num_free < 3 /\ 3 > vq.num_free /\ Len(<<"hdr", e, "status">>) = 3
    BY <1>3, <1>6 DEF Queue
  <2>2. r.ret = -1 /\ r.vq = vq
    BY <1>1, <2>1 DEF virtq_add
  <2>3. panicked' = TRUE /\ vq' = vq
    BY <1>1, <2>2, Zenon
  <2>4. call' \in Call /\ call' # None /\ call'.type = type /\ call'.entry = e
        /\ call'.lba = b /\ call'.val = v
    BY <1>4, <2>2, Zenon
  <2>5. ~InFlight' /\ Held' = given_up
    BY <2>3, Zenon DEF InFlight, Held
  <2>6. Quiet'
    BY <1>2, <2>3, Zenon DEF Quiet, device
  <2>7. FlightInv' /\ BufferInv'
    BY <1>2, <2>5, <2>6, Zenon DEF FlightInv, BufferInv, device
  <2>8. PanicInv'
    BY <2>1, <2>3, <2>4, Zenon DEF PanicInv
  <2>9. QueueInv(vq', Held')
    BY <1>3, <2>3, <2>5, Zenon DEF QueueInv
  <2>10. Balance
    BY <1>2, <2>3, <2>5, Zenon DEF Balance
  <2> QED BY <2>4, <2>7, <2>8, <2>9, <2>10, Zenon
<1> QED BY <1>5, <1>6, Zenon

\* A hit only moves the entry's stamp.
LEMMA ReadHit ==
  ASSUME BlockInv, NEW b \in Lba, read_hit(b)
  PROVE  BlockInv' /\ Balance
<1>1. PICK e \in Range(lru) : lru' = Stamped(e)
  BY Zenon DEF read_hit, cache_lookup
<1>2. e \in Entry
  BY Cached, Zenon DEF BlockInv
<1>3. /\ lru' \in Seq(Entry) /\ IsInjective(lru')
      /\ \A x : x \in Range(lru') <=> x \in Range(lru)
  BY <1>1, <1>2, StampedIs, Zenon DEF BlockInv, CacheInv
<1>4. UNCHANGED <<lba, data, disk, seen, work, vq, hdr, status, call, given_up, known, panicked>>
  BY Zenon DEF read_hit, device
<1>5. CacheCoherent' /\ WritesDurable'
  BY <1>3, <1>4, Zenon DEF BlockInv, CacheInv, CacheCoherent, WritesDurable
<1>6. CacheInv'
  BY <1>3, <1>4, <1>5, Zenon DEF BlockInv, CacheInv
<1>7. InFlight' = InFlight /\ Held' = Held
  BY <1>4, Zenon DEF InFlight, Held
<1>8. QueueInv(vq', Held') /\ BufferInv' /\ PanicInv'
  BY <1>4, <1>7, Zenon DEF BlockInv, BufferInv, PanicInv
<1>9. FlightInv'
  BY <1>4, <1>7, Zenon DEF BlockInv, FlightInv, Flight, Quiet, Sent, Fetched, Returned, Landed
<1>10. CallInv'
  BY <1>3, <1>4, Zenon DEF BlockInv, CallInv
<1>11. Balance
  BY <1>4, <1>7, Zenon DEF Balance
<1> QED BY <1>6, <1>8, <1>9, <1>10, <1>11, Zenon DEF BlockInv

\* A miss asks the driver for the block, into the victim.
LEMMA ReadMiss ==
  ASSUME BlockInv, NEW b \in Lba, read_miss(b), cache_victim \in Entry
  PROVE  BlockInv' /\ Balance
<1>1. PICK e \in Entry : submit("IN", b, e, None)
  BY Zenon DEF read_miss
<1>2. UNCHANGED <<lba, data, lru, disk, known>> /\ UNCHANGED <<device, given_up>> /\ Ready
      /\ cache_lookup(b) = {}
  BY Zenon DEF read_miss, device, cache
<1>3. /\ QueueInv(vq', Held') /\ FlightInv' /\ BufferInv' /\ PanicInv'
      /\ call' \in Call /\ call' # None /\ Balance
      /\ call'.type = "IN" /\ call'.lba = b /\ call'.entry = e
  BY <1>1, <1>2, Submits
<1>4. \A x \in Range(lru) : lba[x] # b
  BY <1>2, Zenon DEF cache_lookup
<1>5. CallInv'
  <2>1. "IN" # "OUT"
    OBVIOUS
  <2> QED BY <1>2, <1>3, <1>4, <2>1, Zenon DEF CallInv
<1>6. CacheCoherent' /\ WritesDurable'
  BY <1>2, <1>3, Zenon DEF Ready, BlockInv, CacheInv, CacheCoherent, WritesDurable
<1>7. CacheInv'
  BY <1>2, <1>6, Zenon DEF BlockInv, CacheInv
<1> QED BY <1>3, <1>5, <1>7, Zenon DEF BlockInv

\* A write puts the block in the cache and asks the driver to write it.
LEMMA BlockWrite ==
  ASSUME BlockInv, NEW b \in Lba, NEW v \in Value, block_write(b, v),
         cache_victim \in Entry
  PROVE  BlockInv' /\ Balance
<1>1. CacheInv
  BY Zenon DEF BlockInv
<1>2. PICK e \in Entry :
        /\ \A x \in Range(lru) : lba[x] = b => x = e
        /\ lba' = [lba EXCEPT ![e] = b] /\ data' = [data EXCEPT ![e] = v]
        /\ lru' = Stamped(e) /\ submit("OUT", b, e, v)
  <2> DEFINE e == IF cache_lookup(b) # {} THEN CHOOSE x \in cache_lookup(b) : TRUE
                  ELSE cache_victim
  <2>1. e \in Entry
    <3>1. \A x \in cache_lookup(b) : x \in Entry
      BY <1>1, Cached, Zenon DEF cache_lookup
    <3> QED BY <3>1, Zenon
  <2>2. \A x \in Range(lru) : lba[x] = b => x = e
    <3>1. \A x \in Range(lru) : lba[x] = b => x \in cache_lookup(b)
      BY Zenon DEF cache_lookup
    <3>2. \A x, y \in cache_lookup(b) : x = y
      BY <1>1, Zenon DEF cache_lookup, CacheInv, CacheCoherent
    <3> QED BY <3>1, <3>2, Zenon
  <2> QED BY <2>1, <2>2, Zenon DEF block_write
<1>3. UNCHANGED <<disk, known>> /\ UNCHANGED <<device, given_up>> /\ Ready
  BY Zenon DEF block_write, device
<1>4. /\ QueueInv(vq', Held') /\ FlightInv' /\ BufferInv' /\ PanicInv'
      /\ call' \in Call /\ call' # None /\ Balance
      /\ call'.type = "OUT" /\ call'.lba = b /\ call'.entry = e /\ call'.val = v
  BY <1>2, <1>3, Submits
<1>5. /\ lru' \in Seq(Entry) /\ IsInjective(lru')
      /\ \A x : x \in Range(lru') <=> x \in Range(lru) \/ x = e
  BY <1>1, <1>2, StampedIs, Zenon DEF CacheInv
<1>6. /\ \A x \in Entry : lba'[x] = IF x = e THEN b ELSE lba[x]
      /\ \A x \in Entry : data'[x] = IF x = e THEN v ELSE data[x]
      /\ DOMAIN data' = Entry /\ lba' \in [Entry -> Lba \cup {None}]
  <2>1. DOMAIN data = Entry /\ lba \in [Entry -> Lba \cup {None}]
    BY <1>1, Zenon DEF CacheInv
  <2> QED BY <1>2, <2>1, Zenon
<1>7. \A x \in Range(lru') : x \in Entry /\ (x = e \/ (x \in Range(lru) /\ lba'[x] = lba[x]
                                                     /\ data'[x] = data[x]))
  <2>1. \A x \in Range(lru) : x \in Entry
    BY <1>1, Cached, Zenon
  <2> QED BY <1>5, <1>6, <2>1, Zenon
<1>8. CallInv'
  <2>1. "IN" # "OUT"
    OBVIOUS
  <2> QED BY <1>4, <1>5, <1>6, <2>1, Zenon DEF CallInv
<1>9. CacheCoherent'
  <2>1. ASSUME NEW x \in Range(lru'), x # e PROVE data'[x] = disk'[lba'[x]]
    BY <1>1, <1>3, <1>7, <2>1, Zenon DEF CacheInv, CacheCoherent, Ready
  <2>2. ASSUME NEW x \in Range(lru'), NEW y \in Range(lru'), lba'[x] = lba'[y] PROVE x = y
    BY <1>1, <1>2, <1>6, <1>7, <2>2, Zenon DEF CacheInv, CacheCoherent
  <2> QED BY <1>4, <2>1, <2>2, Zenon DEF CacheCoherent
<1>10. WritesDurable'
  BY <1>1, <1>3, Zenon DEF CacheInv, WritesDurable, Ready
<1>11. CacheInv'
  BY <1>1, <1>3, <1>5, <1>6, <1>7, <1>9, <1>10, Zenon DEF CacheInv
<1> QED BY <1>4, <1>8, <1>11, Zenon DEF BlockInv

\* The cache after a request that succeeded.
LEMMA Succeeds ==
  ASSUME CacheInv, CallInv, call # None, Landed, succeed, call' = None, UNCHANGED <<data, disk>>
  PROVE  CacheInv' /\ CallInv'
<1>1. PICK e \in Entry, b \in Lba :
        /\ e = call.entry /\ b = call.lba /\ call.type \in {"IN", "OUT"}
        /\ lba' = [lba EXCEPT ![e] = b] /\ lru' = Stamped(e)
        /\ known' = IF call.type = "OUT" THEN [known EXCEPT ![b] = call.val] ELSE known
  <2>1. call.entry \in Entry /\ call.lba \in Lba /\ call.type \in {"IN", "OUT"}
    BY DEF CallInv, Call
  <2> QED BY <2>1, Zenon DEF succeed
<1>2. \A x \in Range(lru) : lba[x] = b => x = e
  <2>1. CASE call.type = "IN"
    BY <1>1, <2>1, Zenon DEF CallInv
  <2>2. CASE call.type = "OUT"
    BY <1>1, <2>2, Zenon DEF CallInv, CacheInv, CacheCoherent
  <2> QED BY <1>1, <2>1, <2>2, Zenon
<1>3. data[e] = disk[b]
  <2>1. CASE call.type = "OUT"
    BY <1>1, <2>1, Zenon DEF CallInv, Landed
  <2>2. CASE call.type # "OUT"
    BY <1>1, <2>2, Zenon DEF Landed
  <2> QED BY <2>1, <2>2, Zenon
<1>4. /\ lru' \in Seq(Entry) /\ IsInjective(lru')
      /\ \A x : x \in Range(lru') <=> x \in Range(lru) \/ x = e
  BY <1>1, StampedIs, Zenon DEF CacheInv
<1>5. /\ \A x \in Entry : lba'[x] = IF x = e THEN b ELSE lba[x]
      /\ lba' \in [Entry -> Lba \cup {None}]
  <2>1. lba \in [Entry -> Lba \cup {None}]
    BY Zenon DEF CacheInv
  <2> QED BY <1>1, <2>1, Zenon
<1>6. \A x \in Range(lru') : x \in Entry /\ (x = e \/ (x \in Range(lru) /\ lba'[x] = lba[x]))
  <2>1. \A x \in Range(lru) : x \in Entry
    BY Cached, Zenon
  <2> QED BY <1>4, <1>5, <2>1, Zenon
<1>7. CacheCoherent'
  <2>1. ASSUME NEW x \in Range(lru') PROVE data'[x] = disk'[lba'[x]]
    <3>1. CASE x = e
      BY <1>3, <1>5, <3>1, Zenon
    <3>2. CASE x # e
      <4>1. x \in Range(lru) /\ lba'[x] = lba[x]
        BY <1>6, <3>2, Zenon
      <4>2. data[x] = disk[lba[x]]
        BY <1>1, <3>2, <4>1, Zenon DEF CacheInv, CacheCoherent
      <4> QED BY <4>1, <4>2, Zenon
    <3> QED BY <3>1, <3>2, Zenon
  <2>2. ASSUME NEW x \in Range(lru'), NEW y \in Range(lru'), lba'[x] = lba'[y] PROVE x = y
    <3>1. \A z, w \in Range(lru) : lba[z] = lba[w] => z = w
      BY Zenon DEF CacheInv, CacheCoherent
    <3>2. e \in Entry /\ lba'[e] = b
      BY <1>1, <1>5, Zenon
    <3> QED BY ONLY <1>2, <1>6, <2>2, <3>1, <3>2, Zenon
  <2> QED BY <2>1, <2>2, Zenon DEF CacheCoherent
<1>8. WritesDurable' /\ DOMAIN known' = Lba
  <2>1. CASE call.type = "OUT"
    <3>1. DOMAIN known = Lba /\ call.val = disk[b]
      BY <1>1, <2>1, Zenon DEF CacheInv, Landed
    <3>2. DOMAIN known' = Lba /\ \A c \in Lba : known'[c] = IF c = b THEN disk[b] ELSE known[c]
      BY <1>1, <2>1, <3>1, Zenon
    <3>3. \A c \in Lba : c # b => known[c] \in {None, disk[c]}
      BY <1>1, Zenon DEF CacheInv, WritesDurable
    <3> QED BY <3>2, <3>3, Zenon DEF WritesDurable
  <2>2. CASE call.type # "OUT"
    BY <1>1, <2>2, Zenon DEF CacheInv, WritesDurable
  <2> QED BY <2>1, <2>2, Zenon
<1>9. CacheInv'
  <2>1. \A x \in Range(lru') : lba'[x] \in Lba
    BY <1>5, <1>6, Zenon DEF CacheInv
  <2> QED BY <1>4, <1>5, <1>7, <1>8, <2>1, Zenon DEF CacheInv
<1> QED BY <1>9, Zenon DEF CallInv

\* The cache after one that failed.
LEMMA Fails ==
  ASSUME CacheInv, CallInv, call # None, fail, call' = None, UNCHANGED <<data, disk>>
  PROVE  CacheInv' /\ CallInv'
<1>1. PICK e \in Entry, b \in Lba :
        /\ e = call.entry /\ b = call.lba
        /\ lba' = [lba EXCEPT ![e] = None] /\ lru' = Dropped(e)
        /\ known' = IF call.type = "OUT" THEN [known EXCEPT ![b] = None] ELSE known
  <2>1. call.entry \in Entry /\ call.lba \in Lba
    BY DEF CallInv, Call
  <2> QED BY <2>1, Zenon DEF fail
<1>2. /\ lru' \in Seq(Entry) /\ IsInjective(lru')
      /\ \A x : x \in Range(lru') <=> x \in Range(lru) /\ x # e
  BY <1>1, DroppedIs, Zenon DEF CacheInv
<1>3. /\ \A x \in Entry : x # e => lba'[x] = lba[x]
      /\ lba' \in [Entry -> Lba \cup {None}]
  <2>1. lba \in [Entry -> Lba \cup {None}]
    BY Zenon DEF CacheInv
  <2> QED BY <1>1, <2>1, Zenon
<1>4. \A x \in Range(lru') : x \in Range(lru) /\ x # e /\ lba'[x] = lba[x]
  <2>1. \A x \in Range(lru) : x \in Entry
    BY Cached, Zenon
  <2> QED BY <1>2, <1>3, <2>1, Zenon
<1>5. CacheCoherent'
  <2>1. ASSUME NEW x \in Range(lru') PROVE data'[x] = disk'[lba'[x]]
    BY <1>1, <1>4, Zenon DEF CacheInv, CacheCoherent
  <2>2. ASSUME NEW x \in Range(lru'), NEW y \in Range(lru'), lba'[x] = lba'[y] PROVE x = y
    BY <1>4, <2>2, Zenon DEF CacheInv, CacheCoherent
  <2> QED BY <2>1, <2>2, Zenon DEF CacheCoherent
<1>6. WritesDurable' /\ DOMAIN known' = Lba
  <2>1. CASE call.type = "OUT"
    <3>1. DOMAIN known = Lba
      BY Zenon DEF CacheInv
    <3>2. DOMAIN known' = Lba /\ \A c \in Lba : known'[c] = IF c = b THEN None ELSE known[c]
      BY <1>1, <2>1, <3>1, Zenon
    <3>3. \A c \in Lba : c # b => known[c] \in {None, disk[c]}
      BY <1>1, Zenon DEF CacheInv, WritesDurable
    <3> QED BY <3>2, <3>3, Zenon DEF WritesDurable
  <2>2. CASE call.type # "OUT"
    BY <1>1, <2>2, Zenon DEF CacheInv, WritesDurable
  <2> QED BY <2>1, <2>2, Zenon
<1>7. CacheInv'
  BY <1>2, <1>3, <1>4, <1>5, <1>6, Zenon DEF CacheInv
<1> QED BY <1>7, Zenon DEF CallInv

\* The chain of the request in flight.
LEMMA Waiting ==
  ASSUME BlockInv, InFlight
  PROVE  /\ vq \in Queue /\ call.head \in Desc \ given_up /\ IsChain(vq, call.head)
         /\ Held = given_up \cup {call.head} /\ Flight /\ seen \in Idx /\ ~panicked
         /\ \E f : FreeList(vq, f) /\ Partition(vq, Held, f)
<1>1. Held = given_up \cup {call.head}
  BY Zenon DEF Held
<1>2. QueueInv(vq, Held)
  BY Zenon DEF BlockInv
<1>3. call.head \in Held
  BY <1>1, Zenon
<1>4. IsChain(vq, call.head)
  BY <1>2, <1>3, Zenon DEF QueueInv, Partition
<1>5. Flight /\ seen \in Idx /\ call.head \in Desc \ given_up /\ ~panicked
  BY Zenon DEF BlockInv, FlightInv, BufferInv, InFlight
<1> QED BY <1>1, <1>2, <1>4, <1>5, Zenon DEF QueueInv

\* The poll finds the completion of its own request.
LEMMA Polls ==
  ASSUME BlockInv, poll
  PROVE  BlockInv' /\ Balance
<1>1. InFlight /\ CacheInv /\ CallInv
  BY Zenon DEF BlockInv, poll, InFlight
<1>2. PICK h, r : h = call.head /\ r = virtq_take_used(vq)
  BY Zenon
<1>3. /\ vq \in Queue /\ h \in Desc \ given_up /\ IsChain(vq, h) /\ Held = given_up \cup {h}
      /\ Flight /\ seen \in Idx /\ ~panicked
  BY <1>1, <1>2, Waiting, Zenon
<1>4. vq.last_used # vq.used.idx
  <2>1. r.ret # -1
    BY <1>2, Zenon DEF poll
  <2>2. ASSUME vq.last_used = vq.used.idx PROVE r.ret = -1
    BY <1>2, <2>2 DEF virtq_take_used
  <2> QED BY <2>1, <2>2, Zenon
<1>5. Returned /\ (status = "OK" => Landed)
  BY <1>3, <1>4, Zenon DEF Flight, Sent, Fetched
<1>6. h = vq.used.ring[vq.last_used % QSize]
  BY <1>2, <1>5, Zenon DEF Returned
<1>7. /\ r.ret = h
      /\ r.vq = [desc |-> [vq.desc EXCEPT ![Third(vq, h)] =
                             [buf |-> vq.desc[Third(vq, h)].buf, flags |-> {"NEXT"},
                              next |-> vq.free_head]],
                 free_head |-> h, num_free |-> vq.num_free + 3,
                 last_used |-> (vq.last_used + 1) % IdxMod,
                 avail |-> vq.avail, used |-> vq.used]
  <2>1. Takes(vq, h, r)
    BY <1>2, <1>3, <1>4, <1>6, Zenon DEF Takes
  <2> QED BY ONLY <2>1, TakeFields, Zenon
<1>8. /\ vq' = r.vq /\ call' = None /\ panicked' = panicked
      /\ (status = "OK" /\ succeed) \/ (status # "OK" /\ fail)
      /\ UNCHANGED <<data, disk, seen, work, given_up>>
  BY <1>2, <1>7, Zenon DEF poll, device
<1>9. CacheInv' /\ CallInv'
  BY <1>1, <1>5, <1>8, Succeeds, Fails, Zenon DEF InFlight
<1>10. PICK p : p = vq'
  BY Zenon
<1>11. /\ p.desc = [vq.desc EXCEPT ![Third(vq, h)] =
                      [buf |-> vq.desc[Third(vq, h)].buf, flags |-> {"NEXT"},
                       next |-> vq.free_head]]
       /\ p.free_head = h /\ p.num_free = vq.num_free + 3
       /\ p.last_used = (vq.last_used + 1) % IdxMod /\ p.avail = vq.avail /\ p.used = vq.used
  BY <1>7, <1>8, <1>10
<1>12. p \in Queue
  <2>1. /\ vq.desc \in [Desc -> Descriptor] /\ vq.free_head \in Desc /\ vq.num_free \in Nat
        /\ vq.last_used \in Idx /\ vq.avail \in Ring /\ vq.used \in Ring
    BY <1>3 DEF Queue
  <2>2. Third(vq, h) \in Desc
    BY <1>3, ChainOf, Zenon
  <2>3. [buf |-> vq.desc[Third(vq, h)].buf, flags |-> {"NEXT"}, next |-> vq.free_head] \in Descriptor
    BY <2>1, <2>2 DEF Descriptor
  <2>4. p.desc \in [Desc -> Descriptor]
    BY <1>11, <2>1, <2>2, <2>3, Zenon
  <2>5. (vq.last_used + 1) % IdxMod \in Idx
    BY <2>1, IndexStep, Zenon
  <2>6. vq.num_free + 3 \in Nat
    BY <2>1
  <2>7. PICK D, m, l : D = p.desc /\ m = vq.num_free + 3 /\ l = (vq.last_used + 1) % IdxMod
    BY Zenon
  <2>8. p = [desc |-> D, free_head |-> h, num_free |-> m, last_used |-> l,
             avail |-> vq.avail, used |-> vq.used]
    BY <1>7, <1>8, <1>10, <1>11, <2>7, Zenon
  <2>9. D \in [Desc -> Descriptor] /\ m \in Nat /\ l \in Idx /\ h \in Desc
    BY <1>3, <2>4, <2>5, <2>6, <2>7, Zenon
  <2> QED BY ONLY <2>1, <2>8, <2>9 DEF Queue
<1>13. QueueInv(p, given_up)
  <2>1. PICK f : FreeList(vq, f) /\ Partition(vq, Held, f)
    BY <1>1, Waiting, Zenon
  <2>2. h \in Held /\ Held \ {h} = given_up
    BY <1>3, Zenon
  <2>3. QueueInv(p, Held \ {h})
    BY <1>3, <1>11, <1>12, <2>1, <2>2, TakeKeeps, Zenon
  <2> QED BY <2>2, <2>3, Zenon
<1>14. ~InFlight' /\ Held' = given_up
  BY <1>8, Zenon DEF InFlight, Held
<1>15. Quiet'
  BY <1>5, <1>8, <1>10, <1>11, Zenon DEF Quiet, Returned
<1>16. FlightInv' /\ BufferInv'
  BY <1>3, <1>8, <1>14, <1>15, Zenon DEF FlightInv, BufferInv
<1>17. PanicInv'
  BY <1>3, <1>8, Zenon DEF BlockInv, PanicInv
<1>18. Balance
  <2>1. h \in Held /\ Held' = Held \ {h}
    BY <1>3, <1>14, Zenon
  <2> QED BY <1>10, <1>11, <2>1, Zenon DEF Balance
<1> QED BY <1>9, <1>10, <1>13, <1>14, <1>16, <1>17, <1>18, Zenon DEF BlockInv

\* A request is given up, and its chain with it.
LEMMA TimesOut ==
  ASSUME Late = FALSE, BlockInv, timeout
  PROVE  BlockInv' /\ Balance
<1>1. InFlight /\ CacheInv /\ CallInv /\ ~panicked
  BY Zenon DEF BlockInv, timeout, InFlight
<1>2. /\ fail /\ given_up' = given_up \cup {call.head} /\ call' = None
      /\ seen' = vq.avail.idx /\ work' = {}
      /\ UNCHANGED <<data, disk, vq, hdr, status, panicked>>
      /\ virtq_take_used(vq).ret = -1
  BY Zenon DEF timeout
<1>3. CacheInv' /\ CallInv'
  BY <1>1, <1>2, Fails, Zenon DEF InFlight
<1>4. /\ vq \in Queue /\ Held = given_up \cup {call.head} /\ QueueInv(vq, Held)
  BY <1>1, Waiting, Zenon DEF BlockInv
<1>5. ~InFlight' /\ Held' = Held
  BY <1>2, <1>4, Zenon DEF InFlight, Held
<1>6. vq.used.idx = vq.last_used
  <2>1. ASSUME vq.last_used # vq.used.idx PROVE virtq_take_used(vq).ret # -1
    <3>1. virtq_take_used(vq).ret = vq.used.ring[vq.last_used % QSize]
      BY <2>1 DEF virtq_take_used
    <3>2. vq.last_used \in Idx /\ vq.used.ring \in [Desc -> Desc]
      BY <1>4 DEF Queue, Ring
    <3>3. vq.used.ring[vq.last_used % QSize] \in Desc
      BY <3>2, IndexStep, Zenon
    <3> QED BY <3>1, <3>3, VirtqAssumption DEF Desc
  <2> QED BY <1>2, <2>1, Zenon
<1>7. Quiet' /\ seen' \in Idx
  BY <1>2, <1>4, <1>6 DEF Quiet, Queue, Ring
<1>8. FlightInv' /\ BufferInv'
  BY <1>5, <1>7, Zenon DEF FlightInv, BufferInv
<1>9. PanicInv'
  BY <1>1, <1>2, Zenon DEF BlockInv, PanicInv
<1>10. Balance
  BY <1>2, <1>5, Zenon DEF Balance
<1> QED BY <1>2, <1>3, <1>4, <1>5, <1>8, <1>9, <1>10, Zenon DEF BlockInv

-----------------------------------------------------------------------------
(* The device                                                              *)

\* A device has a request only while the driver waits for it.
LEMMA DeviceBusy ==
  ASSUME BlockInv
  PROVE  /\ seen # vq.avail.idx => InFlight /\ Sent
         /\ \A w \in work : InFlight /\ \E r \in {"no", "OK", "ERR"} :
              /\ Fetched(r) /\ (r = "OK" => Landed)
              /\ w = [head |-> call.head, type |-> call.type, lba |-> call.lba, done |-> r]
<1>1. CASE InFlight
  <2>1. Flight
    BY <1>1, Zenon DEF BlockInv, FlightInv
  <2>2. seen # vq.avail.idx => Sent
    BY <2>1, Zenon DEF Flight, Fetched, Returned
  <2>3. ASSUME NEW w \in work
        PROVE  \E r \in {"no", "OK", "ERR"} :
                 /\ Fetched(r) /\ (r = "OK" => Landed)
                 /\ w = [head |-> call.head, type |-> call.type, lba |-> call.lba, done |-> r]
    <3>1. PICK r \in {"no", "OK", "ERR"} : Fetched(r) /\ (r = "OK" => Landed)
      <4>1. ~Sent /\ ~Returned
        BY <2>3, Zenon DEF Sent, Returned
      <4>2. Fetched("no") \/ Fetched("ERR") \/ (Fetched("OK") /\ Landed)
        BY <2>1, <4>1, Zenon DEF Flight
      <4>3. "no" # "OK" /\ "ERR" # "OK"
        OBVIOUS
      <4> QED BY <4>2, <4>3, Zenon
    <3>2. w = [head |-> call.head, type |-> call.type, lba |-> call.lba, done |-> r]
      BY <3>1, Zenon DEF Fetched
    <3> QED BY <3>1, <3>2, Zenon
  <2> QED BY <1>1, <2>2, <2>3, Zenon
<1>2. CASE ~InFlight
  BY <1>2, Zenon DEF BlockInv, FlightInv, Quiet
<1> QED BY <1>1, <1>2, Zenon

\* The device fetches the request that the driver has sent.
LEMMA Fetches ==
  ASSUME BlockInv, device_fetch
  PROVE  BlockInv' /\ Balance
<1>1. InFlight /\ Sent /\ seen \in Idx /\ vq \in Queue
  BY DeviceBusy, Waiting, Zenon DEF device_fetch
<1>2. /\ seen' = (seen + 1) % IdxMod
      /\ work' = work \cup {[head |-> vq.avail.ring[seen % QSize], type |-> hdr.type,
                             lba |-> hdr.lba, done |-> "no"]}
      /\ UNCHANGED <<lba, data, lru, disk, vq, hdr, status, call, given_up, known, panicked>>
  BY Zenon DEF device_fetch, cache
<1>3. seen' \in Idx
  BY <1>1, <1>2, IndexStep, Zenon
<1>4. Fetched("no")'
  BY <1>1, <1>2, Zenon DEF Sent, Fetched
<1>5. InFlight' /\ Held' = Held
  BY <1>1, <1>2, Zenon DEF InFlight, Held
<1>6. FlightInv'
  BY <1>3, <1>4, <1>5, Zenon DEF FlightInv, Flight
<1>7. BufferInv' /\ PanicInv'
  BY <1>2, <1>5, Zenon DEF BlockInv, BufferInv, PanicInv, InFlight
<1>8. CallInv'
  BY <1>2, Zenon DEF BlockInv, CallInv
<1>9. CacheInv'
  <2>1. CacheCoherent' /\ WritesDurable'
    BY <1>2, Zenon DEF BlockInv, CacheInv, CacheCoherent, WritesDurable
  <2> QED BY <1>2, <2>1, Zenon DEF BlockInv, CacheInv
<1>10. Balance
  BY <1>2, <1>5, Zenon DEF Balance
<1> QED BY <1>2, <1>5, <1>6, <1>7, <1>8, <1>9, <1>10, Zenon DEF BlockInv

\* A read changes the frame it is for, a write the block it is for, and no
\* other.
LEMMA Moves ==
  ASSUME BlockInv, NEW w \in work, device_transfer(w)
  PROVE  \E r \in {"OK", "ERR"} :
           /\ Fetched("no") /\ InFlight
           /\ work' = {[head |-> call.head, type |-> call.type, lba |-> call.lba, done |-> r]}
           /\ r = "OK" => Landed'
           /\ DOMAIN data' = Entry /\ DOMAIN disk' = Lba
           /\ \A x \in Entry : call.type = "OUT" \/ x # call.entry => data'[x] = data[x]
           /\ \A b \in Lba : call.type = "IN" \/ b # call.lba => disk'[b] = disk[b]
<1>1. /\ InFlight
      /\ \E r \in {"no", "OK", "ERR"} :
           /\ Fetched(r)
           /\ w = [head |-> call.head, type |-> call.type, lba |-> call.lba, done |-> r]
  BY DeviceBusy, Zenon
<1>2. w.done = "no"
  BY Zenon DEF device_transfer
<1>3. /\ Fetched("no") /\ work = {w}
      /\ w = [head |-> call.head, type |-> call.type, lba |-> call.lba, done |-> "no"]
  <2>1. PICK r \in {"no", "OK", "ERR"} :
           /\ Fetched(r)
           /\ w = [head |-> call.head, type |-> call.type, lba |-> call.lba, done |-> r]
    BY <1>1, Zenon
  <2>2. r = "no"
    BY <1>2, <2>1
  <2> QED BY <2>1, <2>2, Zenon DEF Fetched
<1>4. PICK e \in Entry, b \in Lba, t \in {"IN", "OUT"} : e = call.entry /\ b = call.lba /\ t = call.type
  <2>1. call \in Call
    BY <1>1, Zenon DEF BlockInv, CallInv, InFlight
  <2> QED BY <2>1 DEF Call
<1>5. w.head = call.head /\ w.type = t /\ w.lba = b
  BY <1>3, <1>4
<1>6. PICK d : /\ d = vq.desc[vq.desc[w.head].next] /\ d.buf = e
               /\ "WRITE" \in d.flags <=> t = "IN"
  BY <1>1, <1>4, <1>5, Zenon DEF BlockInv, BufferInv, Second
<1>7. DOMAIN data = Entry /\ DOMAIN disk = Lba
  BY Zenon DEF BlockInv, CacheInv
<1>8. \A r : (work \ {w}) \cup {[w EXCEPT !.done = r]} =
               {[head |-> call.head, type |-> call.type, lba |-> call.lba, done |-> r]}
  <2>1. \A r : [w EXCEPT !.done = r] =
                 [head |-> call.head, type |-> call.type, lba |-> call.lba, done |-> r]
    BY <1>3
  <2>2. work \ {w} = {}
    BY <1>3, Zenon
  <2> QED BY <2>1, <2>2, Zenon
<1> DEFINE Done(r) ==
             work' = {[head |-> call.head, type |-> call.type, lba |-> call.lba, done |-> r]}
<1>9. /\ \/ /\ t = "IN" /\ Done("OK") /\ data' = [data EXCEPT ![e] = disk[b]] /\ disk' = disk
         \/ /\ t = "OUT" /\ Done("OK") /\ disk' = [disk EXCEPT ![b] = data[e]] /\ data' = data
         \/ /\ t = "IN" /\ Done("ERR") /\ data' = [data EXCEPT ![e] = Garbage] /\ disk' = disk
         \/ /\ t = "OUT" /\ Done("ERR") /\ disk' = [disk EXCEPT ![b] = Garbage] /\ data' = data
         \/ Done("ERR") /\ data' = data /\ disk' = disk
      /\ call' = call
  BY <1>5, <1>6, <1>8, Zenon DEF device_transfer
<1> HIDE DEF Done
<1>10. "OK" # "ERR" /\ "IN" # "OUT"
  OBVIOUS
<1>11. CASE t = "IN" /\ Done("OK") /\ data' = [data EXCEPT ![e] = disk[b]] /\ disk' = disk
  <2>1. data'[e] = disk'[b] /\ Landed'
    BY <1>4, <1>7, <1>9, <1>10, <1>11, Zenon DEF Landed
  <2>2. DOMAIN data' = Entry /\ \A x \in Entry : x # e => data'[x] = data[x]
    BY <1>7, <1>11, Zenon
  <2> QED BY <1>1, <1>3, <1>4, <1>7, <1>10, <1>11, <2>1, <2>2, Zenon DEF Done
<1>12. CASE t = "OUT" /\ Done("OK") /\ disk' = [disk EXCEPT ![b] = data[e]] /\ data' = data
  <2>1. data[e] = call.val
    BY <1>1, <1>4, <1>12, Zenon DEF BlockInv, CallInv, InFlight
  <2>2. disk'[b] = data[e] /\ Landed'
    BY <1>4, <1>7, <1>9, <1>12, <2>1, Zenon DEF Landed
  <2>3. DOMAIN disk' = Lba /\ \A x \in Lba : x # b => disk'[x] = disk[x]
    BY <1>7, <1>12, Zenon
  <2> QED BY <1>1, <1>3, <1>4, <1>7, <1>10, <1>12, <2>2, <2>3, Zenon DEF Done
<1>13. CASE t = "IN" /\ Done("ERR") /\ data' = [data EXCEPT ![e] = Garbage] /\ disk' = disk
  <2>1. DOMAIN data' = Entry /\ \A x \in Entry : x # e => data'[x] = data[x]
    BY <1>7, <1>13, Zenon
  <2> QED BY <1>1, <1>3, <1>4, <1>7, <1>10, <1>13, <2>1, Zenon DEF Done
<1>14. CASE t = "OUT" /\ Done("ERR") /\ disk' = [disk EXCEPT ![b] = Garbage] /\ data' = data
  <2>1. DOMAIN disk' = Lba /\ \A x \in Lba : x # b => disk'[x] = disk[x]
    BY <1>7, <1>14, Zenon
  <2> QED BY <1>1, <1>3, <1>4, <1>7, <1>10, <1>14, <2>1, Zenon DEF Done
<1>15. CASE Done("ERR") /\ data' = data /\ disk' = disk
  BY <1>1, <1>3, <1>7, <1>10, <1>15, Zenon DEF Done
<1> QED BY <1>9, <1>11, <1>12, <1>13, <1>14, <1>15, Zenon

\* So what is cached stays as it is on the disk, but for the entry that the
\* request is for.
LEMMA Transfers ==
  ASSUME BlockInv, NEW w \in work, device_transfer(w)
  PROVE  BlockInv' /\ Balance
<1>1. UNCHANGED <<lba, lru, seen, vq, hdr, status, call, given_up, known, panicked>>
  BY Zenon DEF device_transfer
<1>2. PICK r \in {"OK", "ERR"} :
        /\ Fetched("no") /\ InFlight
        /\ work' = {[head |-> call.head, type |-> call.type, lba |-> call.lba, done |-> r]}
        /\ r = "OK" => Landed'
        /\ DOMAIN data' = Entry /\ DOMAIN disk' = Lba
        /\ \A x \in Entry : call.type = "OUT" \/ x # call.entry => data'[x] = data[x]
        /\ \A b \in Lba : call.type = "IN" \/ b # call.lba => disk'[b] = disk[b]
  BY Moves, Zenon
<1>3. call # None /\ call \in Call /\ call.entry \in Entry /\ call.type \in {"IN", "OUT"}
  <2>1. call # None /\ call \in Call
    BY <1>2, Zenon DEF BlockInv, CallInv, InFlight
  <2> QED BY <2>1 DEF Call
<1>4. InFlight' /\ Held' = Held
  BY <1>1, <1>2, Zenon DEF InFlight, Held
<1>5. Fetched(r)'
  BY <1>1, <1>2, Zenon DEF Fetched
<1>6. FlightInv'
  <2>1. Flight'
    BY <1>2, <1>5, Zenon DEF Flight
  <2>2. seen \in Idx
    BY Zenon DEF BlockInv, FlightInv
  <2> QED BY <1>1, <1>4, <2>1, <2>2, Zenon DEF FlightInv
<1>7. BufferInv' /\ PanicInv' /\ QueueInv(vq', Held')
  BY <1>1, <1>4, Zenon DEF BlockInv, BufferInv, PanicInv, InFlight
<1>8. CallInv'
  <2>1. call.type = "OUT" => data'[call.entry] = data[call.entry]
    BY <1>2, <1>3, Zenon
  <2> QED BY <1>1, <1>3, <2>1, Zenon DEF BlockInv, CallInv
<1>9. CacheCoherent'
  <2>1. ASSUME NEW e \in Range(lru), call.entry # e
        PROVE  data'[e] = disk'[lba[e]]
    <3>1. e \in Entry /\ lba[e] \in Lba
      BY Cached, Zenon DEF BlockInv
    <3>2. data'[e] = data[e] /\ data[e] = disk[lba[e]]
      BY <1>2, <2>1, <3>1, Zenon DEF BlockInv, CacheInv, CacheCoherent
    <3>3. call.type = "OUT" => lba[e] # call.lba
      BY <1>3, <2>1, Zenon DEF BlockInv, CacheInv, CacheCoherent, CallInv
    <3>4. disk'[lba[e]] = disk[lba[e]]
      BY <1>2, <1>3, <3>1, <3>3, Zenon
    <3> QED BY <3>2, <3>4, Zenon
  <2> QED BY <1>1, <1>3, <2>1, Zenon DEF BlockInv, CacheInv, CacheCoherent
<1>10. WritesDurable'
  <2>1. ASSUME NEW b \in Lba, ~(call.type = "OUT" /\ call.lba = b)
        PROVE  known[b] \in {None, disk'[b]}
    <3>1. disk'[b] = disk[b]
      BY <1>2, <1>3, <2>1, Zenon
    <3> QED BY <2>1, <3>1, Zenon DEF BlockInv, CacheInv, WritesDurable
  <2> QED BY <1>1, <1>3, <2>1, Zenon DEF WritesDurable
<1>11. CacheInv'
  BY <1>1, <1>2, <1>9, <1>10, Zenon DEF BlockInv, CacheInv
<1>12. Balance
  BY <1>1, <1>4, Zenon DEF Balance
<1> QED BY <1>6, <1>7, <1>8, <1>11, <1>12, Zenon DEF BlockInv

\* The device returns the chain of the request; descriptors and free list
\* are as before.
LEMMA Completes ==
  ASSUME BlockInv, NEW w \in work, device_complete(w)
  PROVE  BlockInv' /\ Balance
<1>1. PICK r \in {"OK", "ERR"} :
        /\ InFlight /\ Fetched(r) /\ (r = "OK" => Landed)
        /\ w.done = r /\ w.head = call.head
  <2>1. PICK r \in {"no", "OK", "ERR"} :
          /\ InFlight /\ Fetched(r) /\ (r = "OK" => Landed)
          /\ w = [head |-> call.head, type |-> call.type, lba |-> call.lba, done |-> r]
    BY DeviceBusy, Zenon
  <2>2. w.done = r /\ w.head = call.head
    BY <2>1
  <2>3. r # "no"
    BY <2>2, Zenon DEF device_complete
  <2> QED BY <2>1, <2>2, <2>3, Zenon
<1>2. /\ status' = r /\ vq' = device_used(vq, call.head) /\ work' = {}
      /\ UNCHANGED <<lba, data, lru, disk, seen, hdr, call, given_up, known, panicked>>
  <2>1. work = {w}
    BY <1>1, Zenon DEF Fetched
  <2>2. work \ {w} = {}
    BY <2>1, Zenon
  <2> QED BY <1>1, <2>2, Zenon DEF device_complete, cache
<1>3. vq \in Queue /\ call.head \in Desc /\ seen \in Idx
  BY <1>1, Waiting, Zenon
<1>4. PICK p, h : p = vq' /\ h = call.head
  BY Zenon
<1>5. /\ vq.used.idx \in Idx /\ vq.used.ring \in [Desc -> Desc] /\ vq.used \in Ring
      /\ vq.desc \in [Desc -> Descriptor] /\ vq.free_head \in Desc /\ vq.num_free \in Nat
      /\ vq.last_used \in Idx /\ vq.avail \in Ring
  BY <1>3 DEF Queue, Ring
<1>6. /\ p = [desc |-> vq.desc, free_head |-> vq.free_head, num_free |-> vq.num_free,
              last_used |-> vq.last_used, avail |-> vq.avail,
              used |-> [ring |-> [vq.used.ring EXCEPT ![vq.used.idx % QSize] = h],
                        idx |-> (vq.used.idx + 1) % IdxMod]]
  BY <1>2, <1>3, <1>4 DEF device_used, Queue, Ring
<1>7. (vq.used.idx + 1) % IdxMod \in Idx /\ vq.used.idx % QSize \in Desc
  BY <1>5, IndexStep, Zenon
<1>8. [vq.used.ring EXCEPT ![vq.used.idx % QSize] = h] \in [Desc -> Desc]
  BY <1>3, <1>4, <1>5, <1>7, Zenon
<1>9. p \in Queue
  BY <1>5, <1>6, <1>7, <1>8 DEF Queue, Ring
<1>10. /\ p.desc = vq.desc /\ p.free_head = vq.free_head /\ p.num_free = vq.num_free
       /\ p.last_used = vq.last_used /\ p.avail = vq.avail
       /\ p.used.ring = [vq.used.ring EXCEPT ![vq.used.idx % QSize] = h]
       /\ p.used.idx = (vq.used.idx + 1) % IdxMod
  BY <1>6
<1>11. InFlight' /\ Held' = Held
  BY <1>1, <1>2, Zenon DEF InFlight, Held
<1>12. QueueInv(p, Held)
  <2>1. PICK f : FreeList(vq, f) /\ Partition(vq, Held, f)
    BY Zenon DEF BlockInv, QueueInv
  <2>2. FreeList(p, f)
    BY <1>10, <2>1, Zenon DEF FreeList
  <2>3. Partition(p, Held, f)
    <3>1. \A h0 : Second(p, h0) = Second(vq, h0) /\ Third(p, h0) = Third(vq, h0)
      BY <1>10, Zenon DEF Third, Second
    <3>2. \A h0 : Members(p, h0) = Members(vq, h0) /\ (IsChain(vq, h0) => IsChain(p, h0))
      BY <1>10, <3>1, Zenon DEF Members, IsChain
    <3> QED BY <1>10, <2>1, <3>2, Zenon DEF Partition
  <2> QED BY <1>9, <2>2, <2>3, Zenon DEF QueueInv
<1>13. Returned'
  <2>1. p.used.ring[vq.used.idx % QSize] = h
    BY <1>5, <1>7, <1>10, Zenon
  <2>2. vq.used.idx = vq.last_used /\ seen = vq.avail.idx
    BY <1>1, Zenon DEF Fetched
  <2> QED BY <1>2, <1>4, <1>10, <2>1, <2>2, Zenon DEF Returned
<1>14. Landed' = Landed
  BY <1>2, Zenon DEF Landed
<1>15. FlightInv'
  <2>1. Flight'
    BY <1>1, <1>2, <1>13, <1>14, Zenon DEF Flight
  <2> QED BY <1>2, <1>3, <1>11, <2>1, Zenon DEF FlightInv
<1>16. BufferInv' /\ PanicInv'
  BY <1>2, <1>4, <1>10, <1>11, Zenon DEF BlockInv, BufferInv, PanicInv, Second, InFlight
<1>17. CallInv'
  BY <1>2, Zenon DEF BlockInv, CallInv
<1>18. CacheInv'
  <2>1. CacheCoherent' /\ WritesDurable'
    BY <1>2, Zenon DEF BlockInv, CacheInv, CacheCoherent, WritesDurable
  <2> QED BY <1>2, <2>1, Zenon DEF BlockInv, CacheInv
<1>19. Balance
  BY <1>4, <1>10, <1>11, Zenon DEF Balance
<1> QED BY <1>4, <1>11, <1>12, <1>15, <1>16, <1>17, <1>18, <1>19, Zenon DEF BlockInv

-----------------------------------------------------------------------------
(* No request yet, no change, and what is with the device                  *)

\* virtq_init links all descriptors into the free list.
LEMMA InitBlock ==
  ASSUME Init
  PROVE  BlockInv
<1>1. /\ disk = [b \in Lba |-> Zero] /\ lba = [e \in Entry |-> None] /\ data = [e \in Entry |-> Zero]
      /\ lru = <<>> /\ vq = virtq_init /\ call = None /\ seen = 0 /\ work = {} /\ given_up = {}
      /\ known = disk /\ panicked = FALSE
  BY Zenon DEF Init
<1>2. QSize \in Nat /\ QSize > 1 /\ IdxMod \in Nat /\ IdxMod > 2
  BY VirtqAssumption
<1>3. /\ vq.desc = [i \in Desc |-> [buf |-> NoBuf, flags |-> IF i + 1 < QSize THEN {"NEXT"} ELSE {},
                                    next |-> IF i + 1 < QSize THEN i + 1 ELSE 0]]
      /\ vq.free_head = 0 /\ vq.num_free = QSize /\ vq.last_used = 0
      /\ vq.avail.idx = 0 /\ vq.used.idx = 0
  BY <1>1 DEF virtq_init
<1>4. vq \in Queue
  <2>1. 0 \in Desc /\ 0 \in Idx
    BY <1>2 DEF Desc, Idx
  <2>2. ASSUME NEW i \in Desc
        PROVE  [buf |-> NoBuf, flags |-> IF i + 1 < QSize THEN {"NEXT"} ELSE {},
                next |-> IF i + 1 < QSize THEN i + 1 ELSE 0] \in Descriptor
    <3>1. (IF i + 1 < QSize THEN i + 1 ELSE 0) \in Desc
      BY <1>2 DEF Desc
    <3>2. NoBuf \in Buffer
      BY DEF Buffer
    <3> QED BY <3>1, <3>2 DEF Descriptor
  <2>3. vq.desc \in [Desc -> Descriptor]
    BY <1>3, <2>2, Zenon
  <2>4. [i \in Desc |-> 0] \in [Desc -> Desc]
    BY <2>1, Zenon
  <2>5. [idx |-> 0, ring |-> [i \in Desc |-> 0]] \in Ring
    BY <2>1, <2>4 DEF Ring
  <2> QED BY <1>1, <1>2, <1>3, <2>1, <2>3, <2>5, Zenon DEF virtq_init, Queue
<1>5. Held = {} /\ ~InFlight
  BY <1>1, Zenon DEF Held, InFlight
<1>6. QueueInv(vq, Held)
  <2> DEFINE f == [k \in 1..QSize |-> k - 1]
  <2>1. FreeList(vq, f)
    <3>1. f \in [1..vq.num_free -> Desc] /\ \A i, j \in 1..vq.num_free : f[i] = f[j] => i = j
      BY <1>2, <1>3 DEF Desc
    <3>2. vq.free_head = f[1]
      BY <1>2, <1>3
    <3>3. ASSUME NEW i \in 1..(QSize - 1) PROVE vq.desc[f[i]].next = f[i + 1]
      <4>1. i - 1 \in Desc /\ f[i] = i - 1 /\ f[i + 1] = i /\ (i - 1) + 1 < QSize /\ (i - 1) + 1 = i
        BY <1>2 DEF Desc
      <4> QED BY <1>3, <4>1
    <3> QED BY <1>3, <3>1, <3>2, <3>3, Zenon DEF FreeList
  <2>2. Partition(vq, Held, f)
    <3>1. ASSUME NEW d \in Desc PROVE \E i \in 1..QSize : f[i] = d
      <4>1. d + 1 \in 1..QSize /\ f[d + 1] = d
        BY <1>2 DEF Desc
      <4> QED BY <4>1, Zenon
    <3> QED BY <1>3, <1>5, <3>1, Zenon DEF Partition
  <2> QED BY <1>4, <2>1, <2>2, Zenon DEF QueueInv
<1>7. FlightInv
  <2>1. 0 \in Idx
    BY <1>2 DEF Idx
  <2> QED BY <1>1, <1>3, <1>5, <2>1, Zenon DEF FlightInv, Quiet
<1>8. lru \in Seq(Entry) /\ DOMAIN lru = {}
  BY <1>1
<1>9. Range(lru) = {} /\ IsInjective(lru)
  BY <1>8, Zenon DEF Range, IsInjective
<1>10. CacheInv
  <2>1. CacheCoherent /\ WritesDurable
    BY <1>1, <1>9, Zenon DEF CacheCoherent, WritesDurable
  <2> QED BY <1>1, <1>8, <1>9, <2>1, Zenon DEF CacheInv
<1>11. BufferInv /\ CallInv
  BY <1>1, <1>5, Zenon DEF BufferInv, CallInv
<1>12. PanicInv
  BY <1>1, Zenon DEF PanicInv
<1> QED BY <1>6, <1>7, <1>10, <1>11, <1>12, Zenon DEF BlockInv

\* Nothing changes.
LEMMA Stutters ==
  ASSUME BlockInv, UNCHANGED vars
  PROVE  BlockInv' /\ Balance
<1>1. UNCHANGED <<lba, data, lru, disk, seen, work, vq, hdr, status, call, given_up, known, panicked>>
  BY Zenon DEF vars, cache, device
<1>2. InFlight' = InFlight /\ Held' = Held
  BY <1>1, Zenon DEF InFlight, Held
<1>3. FlightInv'
  BY <1>1, <1>2, Zenon DEF BlockInv, FlightInv, Flight, Quiet, Sent, Fetched, Returned, Landed
<1>4. BufferInv' /\ PanicInv' /\ QueueInv(vq', Held')
  BY <1>1, <1>2, Zenon DEF BlockInv, BufferInv, PanicInv
<1>5. CallInv'
  BY <1>1, Zenon DEF BlockInv, CallInv
<1>6. CacheInv'
  BY <1>1, Zenon DEF BlockInv, CacheInv, CacheCoherent, WritesDurable
<1>7. Balance
  BY <1>1, <1>2, Zenon DEF Balance
<1> QED BY <1>3, <1>4, <1>5, <1>6, <1>7, Zenon DEF BlockInv

\* The indices from one to the next of a ring, and from one to itself.
LEMMA Between ==
  ASSUME NEW s \in Idx
  PROVE  /\ {i \in Idx : (i - s) % IdxMod < (s - s) % IdxMod} = {}
         /\ {i \in Idx : (i - s) % IdxMod < (((s + 1) % IdxMod) - s) % IdxMod} = {s}
<1>1. IdxMod \in Nat /\ IdxMod > 2 /\ s \in Nat /\ s < IdxMod
  BY VirtqAssumption DEF Idx
<1>2. \A x \in 0..(IdxMod - 1) : x % IdxMod = x
  BY <1>1
<1>3. \A x \in 0..(IdxMod - 1) : (x - IdxMod) % IdxMod = x
  BY <1>1
<1>4. ASSUME NEW i \in Idx
      PROVE  (i - s) % IdxMod = IF s <= i THEN i - s ELSE i - s + IdxMod
  <2>1. CASE s <= i
    BY <1>1, <1>2, <2>1 DEF Idx
  <2>2. CASE ~(s <= i)
    <3>1. PICK x \in 0..(IdxMod - 1) : i - s = x - IdxMod
      BY <1>1, <2>2 DEF Idx
    <3> QED BY <1>1, <1>3, <2>2, <3>1 DEF Idx
  <2> QED BY <2>1, <2>2
<1>5. (s - s) % IdxMod = 0
  BY <1>1, <1>4
<1>6. (((s + 1) % IdxMod) - s) % IdxMod = 1
  <2>1. CASE s + 1 < IdxMod
    <3>1. (s + 1) % IdxMod = s + 1
      BY <1>1, <1>2, <2>1
    <3> QED BY <1>1, <1>4, <2>1, <3>1 DEF Idx
  <2>2. CASE ~(s + 1 < IdxMod)
    <3>1. (s + 1) % IdxMod = 0
      BY <1>1, <2>2
    <3>2. 0 \in Idx
      BY <1>1 DEF Idx
    <3> QED BY <1>1, <1>4, <2>2, <3>1, <3>2
  <2> QED BY <2>1, <2>2
<1>7. \A i \in Idx : (i - s) % IdxMod >= 0 /\ ((i - s) % IdxMod < 1 <=> i = s)
  BY <1>1, <1>4 DEF Idx
<1>8. \A i \in Idx : ~((i - s) % IdxMod < (s - s) % IdxMod)
  BY <1>1, <1>5, <1>7 DEF Idx
<1>9. \A i \in Idx : (i - s) % IdxMod < (((s + 1) % IdxMod) - s) % IdxMod <=> i = s
  BY <1>6, <1>7, Zenon
<1> QED BY <1>8, <1>9, Zenon

\* The heads that Outstanding collects from the rings are the ones Held.
LEMMA OutstandingHeld ==
  ASSUME BlockInv
  PROVE  Outstanding = Held
<1>1. /\ vq \in Queue /\ seen \in Idx /\ IF InFlight THEN Flight ELSE Quiet
  BY Zenon DEF BlockInv, QueueInv, FlightInv
<1>2. vq.last_used \in Idx
  BY <1>1 DEF Queue
<1> DEFINE between(from, to) == {i \in Idx : (i - from) % IdxMod < (to - from) % IdxMod}
<1>3. Outstanding = {vq.avail.ring[i % QSize] : i \in between(seen, vq.avail.idx)}
                      \cup {w.head : w \in work}
                      \cup {vq.used.ring[i % QSize] : i \in between(vq.last_used, vq.used.idx)}
                      \cup given_up
  BY Zenon DEF Outstanding, Idx
<1>4. \A s \in Idx : between(s, s) = {} /\ between(s, (s + 1) % IdxMod) = {s}
  BY Between, Zenon
<1> HIDE DEF between
<1>5. CASE ~InFlight
  BY <1>1, <1>2, <1>3, <1>4, <1>5, Zenon DEF Quiet, Held
<1>6. CASE InFlight
  <2>1. Held = {call.head} \cup given_up
    BY <1>6, Zenon DEF Held
  <2>2. CASE Sent
    <3>1. between(seen, vq.avail.idx) = {seen} /\ between(vq.last_used, vq.used.idx) = {}
      BY <1>1, <1>2, <1>4, <2>2, Zenon DEF Sent
    <3>2. {vq.avail.ring[i % QSize] : i \in between(seen, vq.avail.idx)} = {call.head}
      BY <2>2, <3>1, Zenon DEF Sent
    <3>3. {w.head : w \in work} = {}
      BY <2>2, Zenon DEF Sent
    <3> QED BY <1>3, <2>1, <3>1, <3>2, <3>3, Zenon
  <2>3. ASSUME NEW r, Fetched(r) PROVE Outstanding = Held
    <3>1. {w.head : w \in work} = {call.head}
      BY <2>3 DEF Fetched
    <3>2. between(seen, vq.avail.idx) = {} /\ between(vq.last_used, vq.used.idx) = {}
      BY <1>1, <1>2, <1>4, <2>3, Zenon DEF Fetched
    <3> QED BY <1>3, <2>1, <3>1, <3>2, Zenon
  <2>4. CASE Returned
    <3>1. between(seen, vq.avail.idx) = {}
          /\ between(vq.last_used, vq.used.idx) = {vq.last_used}
      BY <1>1, <1>2, <1>4, <2>4, Zenon DEF Returned
    <3>2. {vq.used.ring[i % QSize] : i \in between(vq.last_used, vq.used.idx)} = {call.head}
      BY <2>4, <3>1, Zenon DEF Returned
    <3>3. {w.head : w \in work} = {}
      BY <2>4, Zenon DEF Returned
    <3> QED BY <1>3, <2>1, <3>1, <3>2, <3>3, Zenon
  <2> QED BY <1>1, <1>6, <2>2, <2>3, <2>4, Zenon DEF Flight
<1> QED BY <1>5, <1>6, Zenon

-----------------------------------------------------------------------------
(* What needs the smallest number of a set, or the size of one             *)

INSTANCE FiniteSetTheorems

\* A set of natural numbers has a smallest element.
LEMMA Smallest ==
  ASSUME NEW T \in SUBSET Nat, T # {}
  PROVE  \E x \in T : \A y \in T : x <= y
<1> DEFINE R == OpToRel(<, Nat)
<1>1. PICK x \in T : \A y \in T : ~(<<y, x>> \in R)
  <2> HIDE DEF R
  <2> QED BY NatLessThanWellFounded, WFMin, Zenon DEF R
<1>2. \A y \in T : ~(y < x)
  BY <1>1, Zenon DEF OpToRel
<1> QED BY <1>2

\* There is always an entry to replace.
LEMMA VictimIs ==
  ASSUME lru \in Seq(Entry)
  PROVE  cache_victim \in Entry
<1>1. CASE Entry \ Range(lru) # {}
  <2> DEFINE T == Entry \ Range(lru)
  <2>1. T \in SUBSET Nat /\ T # {}
    BY <1>1 DEF Entry
  <2>2. \E x \in T : \A y \in T : x <= y
    <3> HIDE DEF T
    <3> QED BY <2>1, Smallest, Zenon
  <2> QED BY <1>1, <2>2, Zenon DEF cache_victim
<1>2. CASE Entry \ Range(lru) = {}
  <2>1. 1 \in Entry
    BY BlockDevAssumption DEF Entry
  <2>2. \E i \in 1..Len(lru) : lru[i] = 1
    BY <1>2, <2>1, RangeAt, Zenon
  <2>3. lru # <<>>
    BY <2>2
  <2> QED BY <1>2, <2>3, SeqTail, Zenon DEF cache_victim
<1> QED BY <1>1, <1>2, Zenon

\* Link follows a path of any length.
LEMMA LinkPath ==
  ASSUME NEW q, NEW d, NEW n, NEW p, IsPath(q, d, n, p), NEW i \in 0..n
  PROVE  Link(q, d, i) = p[i]
<1>1. n \in Nat /\ p[0] = d /\ \A k \in 1..n : p[k] = q.desc[p[k - 1]].next
  BY Zenon DEF IsPath
<1>2. PICK l : Link(q, d, i) = l[i] /\ l[0] = d /\ \A k \in 1..i : l[k] = q.desc[l[k - 1]].next
  <2>1. \E l : Follows(q, d, i, l)
    BY ONLY IsPath(q, d, n, p), i \in 0..n, LinkFollows
  <2> QED BY <2>1, Zenon DEF Follows
<1>3. i \in Nat /\ i <= n
  BY <1>1
<1>4. ASSUME NEW k \in 0..i, l[k] # p[k] PROVE FALSE
  <2> DEFINE T == {j \in 0..i : l[j] # p[j]}
  <2>1. PICK m \in T : \A j \in T : m <= j
    <3>1. T \in SUBSET Nat /\ T # {}
      BY <1>4
    <3> HIDE DEF T
    <3> QED BY <3>1, Smallest, Zenon
  <2>2. m # 0
    BY <1>1, <1>2, <2>1
  <2>3. m - 1 \in 0..i /\ m - 1 \notin T /\ m \in 1..i /\ m \in 1..n
    BY <1>1, <1>3, <2>1, <2>2
  <2>4. l[m - 1] = p[m - 1]
    BY <2>3, Zenon
  <2>5. l[m] = p[m]
    BY <1>1, <1>2, <2>3, <2>4, Zenon
  <2> QED BY <2>1, <2>5, Zenon
<1> QED BY <1>3, <1>2, <1>4

\* The free list and the chains as DescriptorsConserved reads them off the
\* links and flags.
LEMMA Conserved ==
  ASSUME BlockInv
  PROVE  DescriptorsConserved
<1>1. PICK f : FreeList(vq, f) /\ Partition(vq, Held, f) /\ vq \in Queue
  BY Zenon DEF BlockInv, QueueInv
<1>2. PICK n \in Nat : n = vq.num_free
  BY <1>1 DEF Queue
<1>3. /\ f \in [1..n -> Desc] /\ \A i, j \in 1..n : f[i] = f[j] => i = j
      /\ n > 0 => vq.free_head = f[1]
      /\ \A i \in 1..(n - 1) : vq.desc[f[i]].next = f[i + 1]
  BY <1>1, <1>2, Zenon DEF FreeList
<1> DEFINE free == [k \in 1..vq.num_free |-> Link(vq, vq.free_head, k - 1)]
           chains == {Range(Chain(vq, h)) : h \in Outstanding}
<1>4. ASSUME NEW i \in 1..n PROVE Link(vq, vq.free_head, i - 1) = f[i]
  <2> DEFINE p == [k \in 0..(n - 1) |-> f[k + 1]]
  <2>1. n > 0 /\ n - 1 \in Nat /\ i - 1 \in 0..(n - 1) /\ 0 \in 0..(n - 1)
    BY <1>2
  <2>2. p[0] = vq.free_head
    BY <1>3, <2>1
  <2>3. \A k \in 1..(n - 1) : p[k] = vq.desc[p[k - 1]].next
    BY <1>3, <2>1
  <2>4. p[i - 1] = f[i]
    BY <2>1
  <2> HIDE DEF p
  <2>5. IsPath(vq, vq.free_head, n - 1, p)
    BY <2>1, <2>2, <2>3, Zenon DEF IsPath
  <2>6. Link(vq, vq.free_head, i - 1) = p[i - 1]
    BY ONLY <2>1, <2>5, LinkPath
  <2> QED BY <2>4, <2>6, Zenon
<1>5. free = f
  BY <1>2, <1>3, <1>4, Zenon
<1>6. chains = {Members(vq, h) : h \in Held}
  <2>1. \A h \in Held : Range(Chain(vq, h)) = Members(vq, h)
    BY <1>1, ChainOf, Zenon DEF Partition
  <2> QED BY <2>1, OutstandingHeld, Zenon
<1>7. ASSUME NEW h \in Held PROVE Members(vq, h) \subseteq Desc
  <2>1. IsChain(vq, h) /\ h \in Desc
    BY <1>1, Zenon DEF Partition, IsChain
  <2>2. Second(vq, h) \in Desc /\ Third(vq, h) \in Desc
    BY <1>1, <2>1, ChainOf, Zenon
  <2> QED BY <2>1, <2>2, Zenon DEF Members
<1> HIDE DEF free, chains
<1>8. IsInjective(free)
  BY <1>3, <1>5, Zenon DEF IsInjective
<1>9. \A x : x \in Range(free) <=> \E i \in 1..n : f[i] = x
  <2>1. DOMAIN f = 1..n
    BY <1>3, Zenon
  <2> QED BY <1>5, <2>1, Zenon DEF Range
<1>10. \A x : x \in UNION chains <=> \E h \in Held : x \in Members(vq, h)
  BY <1>6, Zenon
<1>11. /\ \A h \in Held : \A i \in 1..n : f[i] \notin Members(vq, h)
       /\ \A h, g \in Held : h # g => Members(vq, h) \cap Members(vq, g) = {}
       /\ \A d \in Desc : (\E i \in 1..n : f[i] = d) \/ \E h \in Held : d \in Members(vq, h)
  BY <1>1, <1>2, Zenon DEF Partition
<1>12. Range(free) \cap UNION chains = {}
  <2>1. ASSUME NEW x, x \in Range(free), x \in UNION chains PROVE FALSE
    <3>1. PICK i \in 1..n : f[i] = x
      BY <1>9, <2>1, Zenon
    <3>2. PICK h \in Held : x \in Members(vq, h)
      BY <1>10, <2>1, Zenon
    <3> QED BY <1>11, <3>1, <3>2, Zenon
  <2> QED BY <2>1, Zenon
<1>13. \A c, d \in chains : c # d => c \cap d = {}
  BY <1>6, <1>11, Zenon
<1>14. Range(free) \cup UNION chains = Desc
  <2>1. ASSUME NEW x \in Range(free) PROVE x \in Desc
    <3>1. PICK i \in 1..n : f[i] = x
      BY <1>9, Zenon
    <3> QED BY <1>3, <3>1, Zenon
  <2>2. ASSUME NEW x \in UNION chains PROVE x \in Desc
    BY <1>7, <1>10, Zenon
  <2>3. ASSUME NEW x \in Desc PROVE x \in Range(free) \cup UNION chains
    BY <1>9, <1>10, <1>11, Zenon
  <2> QED BY <2>1, <2>2, <2>3, Zenon
<1> QED BY <1>8, <1>12, <1>13, <1>14, Zenon DEF DescriptorsConserved, free, chains

-----------------------------------------------------------------------------
(* The theorems                                                            *)

\* A step keeps the invariant, and the number of free descriptors in step
\* with the chains.
LEMMA BlockStep ==
  ASSUME Late = FALSE, BlockInv, [Next]_vars
  PROVE  BlockInv' /\ Balance
<1>1. CASE UNCHANGED vars
  BY <1>1, Stutters, Zenon
<1>2. CASE Next
  <2>1. cache_victim \in Entry
    BY VictimIs, Zenon DEF BlockInv, CacheInv
  <2>2. ASSUME NEW b \in Lba, read_hit(b) PROVE BlockInv' /\ Balance
    BY <2>2, ReadHit, Zenon
  <2>3. ASSUME NEW b \in Lba, read_miss(b) PROVE BlockInv' /\ Balance
    BY <2>1, <2>3, ReadMiss, Zenon
  <2>4. ASSUME NEW b \in Lba, NEW v \in Value, block_write(b, v) PROVE BlockInv' /\ Balance
    BY <2>1, <2>4, BlockWrite, Zenon
  <2>5. CASE poll
    BY <2>5, Polls, Zenon
  <2>6. CASE timeout
    BY <2>6, TimesOut, Zenon
  <2>7. CASE device_fetch
    BY <2>7, Fetches, Zenon
  <2>8. ASSUME NEW w \in work, device_transfer(w) PROVE BlockInv' /\ Balance
    BY <2>8, Transfers, Zenon
  <2>9. ASSUME NEW w \in work, device_complete(w) PROVE BlockInv' /\ Balance
    BY <2>9, Completes, Zenon
  <2> QED BY <1>2, <2>2, <2>3, <2>4, <2>5, <2>6, <2>7, <2>8, <2>9, Zenon DEF Next
<1> QED BY <1>1, <1>2, Zenon

\* The driver waits for one chain, which the device has or has returned; the
\* free list and the chains it waits for or gave up hold every descriptor
\* once; and every cached block but the one in transfer is as on the disk:
\* block.c, virtio_blk.c and virtq_core.c keep all of this together, when the
\* device answers in time or not at all.
THEOREM BlockInvariant ==
  ASSUME Late = FALSE
  PROVE  Spec => []BlockInv
<1>1. Init => BlockInv
  BY InitBlock, Zenon
<1>2. BlockInv /\ [Next]_vars => BlockInv'
  BY BlockStep, Zenon
<1> QED BY <1>1, <1>2, PTL DEF Spec

\* Write-through: what block_write has reported as written is on the disk,
\* whatever hits, evictions, errors and requests without an answer follow.
THEOREM WritesDurableAlways ==
  ASSUME Late = FALSE
  PROVE  Spec => []WritesDurable
<1>1. Spec => []BlockInv
  BY BlockInvariant, Zenon
<1>2. BlockInv => WritesDurable
  BY Zenon DEF BlockInv, CacheInv
<1> QED BY <1>1, <1>2, PTL

\* A block is in the cache once and as it is on the disk, however the steps
\* of block.c and of the device interleave and fail.
THEOREM CacheCoherentAlways ==
  ASSUME Late = FALSE
  PROVE  Spec => []CacheCoherent
<1>1. Spec => []BlockInv
  BY BlockInvariant, Zenon
<1>2. BlockInv => CacheCoherent
  BY Zenon DEF BlockInv, CacheInv
<1> QED BY <1>1, <1>2, PTL

\* The descriptors that are not in the free list are in chains of three.
Counted == IsFiniteSet(Held) /\ vq.num_free + 3 * Cardinality(Held) = QSize

\* So the number of free ones is right from the start and stays so.
LEMMA InitCounted ==
  ASSUME Init
  PROVE  Counted
<1>1. vq.num_free = QSize /\ QSize \in Nat
  BY VirtqAssumption DEF Init, virtq_init
<1>2. Held = {}
  BY Zenon DEF Init, Held, InFlight
<1>3. IsFiniteSet({}) /\ Cardinality({}) = 0
  BY FS_EmptySet, Zenon
<1>4. QSize + 3 * 0 = QSize
  BY <1>1
<1> QED BY <1>1, <1>2, <1>3, <1>4, Zenon DEF Counted

\* A step that takes or returns a chain changes both numbers.
LEMMA StaysCounted ==
  ASSUME BlockInv, Counted, Balance
  PROVE  Counted'
<1>1. PICK n \in Nat, c \in Nat : /\ n = vq.num_free /\ c = Cardinality(Held) /\ IsFiniteSet(Held)
                                 /\ n + 3 * c = QSize
  <2>1. vq.num_free \in Nat
    BY DEF BlockInv, QueueInv, Queue
  <2> QED BY <2>1, FS_CardinalityType, Zenon DEF Counted
<1>2. QSize \in Nat
  BY VirtqAssumption
<1>3. CASE vq'.num_free = vq.num_free /\ Held' = Held
  BY <1>3, Zenon DEF Counted
<1>4. ASSUME NEW h, h \notin Held, Held' = Held \cup {h}, vq'.num_free = vq.num_free - 3
      PROVE  Counted'
  <2>1. IsFiniteSet(Held') /\ Cardinality(Held') = c + 1
    BY <1>1, <1>4, FS_AddElement, Zenon
  <2>2. (n - 3) + 3 * (c + 1) = QSize
    BY <1>1, <1>2
  <2> QED BY <1>1, <1>4, <2>1, <2>2, Zenon DEF Counted
<1>5. ASSUME NEW h \in Held, Held' = Held \ {h}, vq'.num_free = vq.num_free + 3
      PROVE  Counted'
  <2>1. IsFiniteSet(Held') /\ Cardinality(Held') = c - 1
    BY <1>1, <1>5, FS_RemoveElement, Zenon
  <2>2. (n + 3) + 3 * (c - 1) = QSize
    BY <1>1, <1>2
  <2> QED BY <1>1, <1>5, <2>1, <2>2, Zenon DEF Counted
<1> QED BY <1>3, <1>4, <1>5, Zenon DEF Balance

\* A virtqueue never loses a descriptor or has it twice, and the assertions
\* of vblk_rw hold until given up requests have used up the descriptors.
THEOREM QueueSoundAlways ==
  ASSUME Late = FALSE
  PROVE  Spec => []QueueSound
<1>1. Init => BlockInv /\ Counted
  BY InitBlock, InitCounted, Zenon
<1>2. BlockInv /\ Counted /\ [Next]_vars => BlockInv' /\ Counted'
  BY BlockStep, StaysCounted, Zenon
<1>3. BlockInv /\ Counted => QueueSound
  <2> SUFFICES ASSUME BlockInv, Counted PROVE QueueSound
    OBVIOUS
  <2>1. ASSUME panicked PROVE 3 * Cardinality(given_up) > QSize - 3
    <3>1. Held = given_up /\ vq.num_free < 3
      BY <2>1, Zenon DEF BlockInv, PanicInv, Held, InFlight
    <3>2. vq.num_free \in Nat
      BY DEF BlockInv, QueueInv, Queue
    <3>3. IsFiniteSet(given_up) /\ vq.num_free + 3 * Cardinality(given_up) = QSize
      BY <3>1, Zenon DEF Counted
    <3>4. Cardinality(given_up) \in Nat
      BY <3>3, FS_CardinalityType, Zenon
    <3> QED BY <3>1, <3>2, <3>3, <3>4, VirtqAssumption
  <2>2. DescriptorsConserved
    BY Conserved, Zenon
  <2> QED BY <2>1, <2>2, Zenon DEF QueueSound, AssertionsHold
<1> QED BY <1>1, <1>2, <1>3, PTL DEF Spec
=============================================================================
