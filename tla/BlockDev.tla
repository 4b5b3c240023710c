------------------------------ MODULE BlockDev ------------------------------
(***************************************************************************)
(* The disk path below the file system: the write-through cache of         *)
(* kernel/block/block.c, the polled driver of kernel/drivers/virtio_blk.c, *)
(* its virtqueue, and a virtio block device.                               *)
(*                                                                         *)
(* Callers take turns (the file system lock), so there is one call at a    *)
(* time; the device runs beside it.  It may answer with an error, or not   *)
(* before the driver's deadline, after which the driver gives the request  *)
(* up while the device still has it.                                       *)
(*                                                                         *)
(* The device sees what the driver really shares with it: one header and   *)
(* one status byte for all requests, and the cache's own frames as data    *)
(* buffers.                                                                *)
(***************************************************************************)
EXTENDS Virtq, FiniteSets, Functions

CONSTANTS Lba,            \* blocks of the device
          CACHE_ENTRIES,
          Value,          \* what callers write
          Zero,           \* what the disk holds at first
          Garbage,        \* what a failed transfer may leave
          Late,           \* the device may still work on a request given up
          None

Entry == 1..CACHE_ENTRIES

\* What the driver has been asked to do, and the chain it has queued for it
\* (-1 when there was no room).
Call == [type: {"IN", "OUT"}, lba: Lba, entry: Entry, head: Desc \cup {-1},
         val: Value \cup {None}]

ASSUME BlockDevAssumption == /\ CACHE_ENTRIES \in Nat \ {0} /\ Late \in BOOLEAN
                             /\ None \notin Value \cup {Zero, Garbage} \cup Lba \cup Call
                             /\ Garbage \notin Value \cup {Zero}

VARIABLES disk,      \* the device's blocks
          lba,       \* cache[e].lba; None for an entry without a stamp
          data,      \* the frame behind cache[e].data
          lru,       \* the entries with a stamp, least recently used first
          vq,        \* vblk_vq
          hdr,       \* the header all requests share
          status,    \* the status byte all requests share
          call,      \* the block_read or block_write in progress, or None
          seen,      \* how far the device has read the available ring
          work,      \* requests it has fetched: [head, type, lba, done]
          given_up,  \* heads of requests that timed out
          known,     \* what the last write to a block must have left there
          panicked

cache == <<lba, data, lru>>
device == <<disk, seen, work>>
vars == <<cache, device, vq, hdr, status, call, given_up, known, panicked>>

-----------------------------------------------------------------------------
(* The cache                                                               *)

\* cache_lookup: the entry for block b, as a set.
cache_lookup(b) == {e \in Range(lru) : lba[e] = b}

\* cache_victim: an empty entry, the first one, before the oldest.
cache_victim ==
  LET empty == Entry \ Range(lru)
  IN IF empty # {} THEN CHOOSE e \in empty : \A x \in empty : e <= x ELSE Head(lru)

\* A stamp of 0.
Dropped(e) ==
  LET i == CHOOSE k \in DOMAIN lru : lru[k] = e
  IN IF e \in Range(lru) THEN SubSeq(lru, 1, i - 1) \o SubSeq(lru, i + 1, Len(lru)) ELSE lru

\* A stamp of ++lru_clock.
Stamped(e) == Append(Dropped(e), e)

-----------------------------------------------------------------------------
(* The driver                                                              *)

\* vblk_rw up to the doorbell, with the assertion that there are
\* descriptors.  v is what the caller writes.
submit(type, b, e, v) ==
  LET sgs == <<"hdr", e, "status">>
      r == virtq_add(vq, sgs, IF type = "OUT" THEN 2 ELSE 1)
  IN /\ hdr' = [type |-> type, lba |-> b]
     /\ status' = "0xFF"
     /\ vq' = r.vq
     /\ panicked' = (r.ret = -1)
     /\ call' = [type |-> type, lba |-> b, entry |-> e, head |-> r.ret,
                 val |-> v]

Ready == ~panicked /\ call = None

\* block_read of a block that is in the cache.
read_hit(b) ==
  /\ Ready /\ cache_lookup(b) # {}
  /\ \E e \in cache_lookup(b) : lru' = Stamped(e)
  /\ UNCHANGED <<lba, data, device, vq, hdr, status, call, given_up, known, panicked>>

\* block_read of one that is not: the victim keeps its name and stamp until
\* the driver is done.
read_miss(b) ==
  /\ Ready /\ cache_lookup(b) = {}
  /\ submit("IN", b, cache_victim, None)
  /\ UNCHANGED <<cache, device, given_up, known>>

\* block_write, up to the driver: the cache is written first.
block_write(b, v) ==
  LET e == IF cache_lookup(b) # {} THEN CHOOSE x \in cache_lookup(b) : TRUE ELSE cache_victim
  IN /\ Ready
     /\ lba' = [lba EXCEPT ![e] = b]
     /\ data' = [data EXCEPT ![e] = v]
     /\ lru' = Stamped(e)
     /\ submit("OUT", b, e, v)
     /\ UNCHANGED <<device, given_up, known>>

\* The rest of block_read and block_write when the driver has succeeded.
succeed ==
  LET e == call.entry IN
  /\ lba' = [lba EXCEPT ![e] = call.lba]
  /\ lru' = Stamped(e)
  /\ known' = IF call.type = "OUT" THEN [known EXCEPT ![call.lba] = call.val] ELSE known

\* Faulty: a failed write leaves its entry in the cache.
Bug_fail_keeps_entry ==
  /\ lru' = IF call.type = "OUT" THEN lru ELSE Dropped(call.entry)
  /\ lba' = IF call.type = "OUT" THEN lba ELSE [lba EXCEPT ![call.entry] = None]
  /\ known' = IF call.type = "OUT" THEN [known EXCEPT ![call.lba] = None] ELSE known

\* And when it has failed.  What the disk holds after a failed write is not
\* known.
fail ==
  /\ lru' = Dropped(call.entry)
  /\ lba' = [lba EXCEPT ![call.entry] = None]
  /\ known' = IF call.type = "OUT" THEN [known EXCEPT ![call.lba] = None] ELSE known

\* Faulty: looks at the status of reads only.
Bug_poll_ignores_status ==
  LET r == virtq_take_used(vq) IN
  /\ ~panicked /\ call # None /\ r.ret # -1
  /\ vq' = r.vq
  /\ \/ /\ r.ret = call.head
        /\ \/ (status = "OK" \/ call.type = "OUT") /\ succeed
           \/ status # "OK" /\ call.type = "IN" /\ fail
        /\ call' = None
        /\ UNCHANGED panicked
     \/ r.ret # call.head /\ panicked' = TRUE /\ UNCHANGED <<lba, lru, known, call>>
  /\ UNCHANGED <<data, device, hdr, status, given_up>>

\* A pass through the polling loop that finds a completion: the request's
\* own, or one that the driver asserts cannot be there.
poll ==
  LET r == virtq_take_used(vq) IN
  /\ ~panicked /\ call # None /\ r.ret # -1
  /\ vq' = r.vq
  /\ \/ /\ r.ret = call.head
        /\ \/ status = "OK" /\ succeed
           \/ status # "OK" /\ fail
        /\ call' = None
        /\ UNCHANGED panicked
     \/ /\ r.ret # call.head
        /\ panicked' = TRUE
        /\ UNCHANGED <<lba, lru, known, call>>
  /\ UNCHANGED <<data, device, hdr, status, given_up>>

\* One that finds none, after the deadline.  Unless the device answers late
\* the request is lost in it.
timeout ==
  /\ ~panicked /\ call # None /\ virtq_take_used(vq).ret = -1
  /\ fail
  /\ given_up' = given_up \cup {call.head}
  /\ call' = None
  /\ IF Late THEN UNCHANGED <<seen, work>>
     ELSE seen' = vq.avail.idx /\ work' = {}
  /\ UNCHANGED <<data, disk, vq, hdr, status, panicked>>

-----------------------------------------------------------------------------
(* The device                                                              *)

\* Fetches the next request: the chain it is given, the header it finds.
device_fetch ==
  /\ seen # vq.avail.idx
  /\ seen' = (seen + 1) % IdxMod
  /\ work' = work \cup {[head |-> vq.avail.ring[seen % QSize], type |-> hdr.type,
                         lba |-> hdr.lba, done |-> "no"]}
  /\ UNCHANGED <<cache, disk, vq, hdr, status, call, given_up, known, panicked>>

\* Moves the block between the disk and the buffer of the chain, or fails
\* and leaves either as it was or spoilt.  A request whose buffer is for the
\* other direction is an error.
device_transfer(w) ==
  LET d == vq.desc[vq.desc[w.head].next]
      to_memory == w.type = "IN" /\ "WRITE" \in d.flags
      to_disk == w.type = "OUT" /\ "WRITE" \notin d.flags
      finish(r) == work' = (work \ {w}) \cup {[w EXCEPT !.done = r]}
  IN /\ w.done = "no"
     /\ \/ /\ to_memory /\ finish("OK")
           /\ data' = [data EXCEPT ![d.buf] = disk[w.lba]]
           /\ UNCHANGED disk
        \/ /\ to_disk /\ finish("OK")
           /\ disk' = [disk EXCEPT ![w.lba] = data[d.buf]]
           /\ UNCHANGED data
        \/ /\ to_memory /\ finish("ERR")
           /\ data' = [data EXCEPT ![d.buf] = Garbage]
           /\ UNCHANGED disk
        \/ /\ to_disk /\ finish("ERR")
           /\ disk' = [disk EXCEPT ![w.lba] = Garbage]
           /\ UNCHANGED data
        \/ finish("ERR") /\ UNCHANGED <<data, disk>>
     /\ UNCHANGED <<lba, lru, seen, vq, hdr, status, call, given_up, known, panicked>>

\* Writes the status and returns the chain.
device_complete(w) ==
  /\ w.done # "no"
  /\ status' = w.done
  /\ vq' = device_used(vq, w.head)
  /\ work' = work \ {w}
  /\ UNCHANGED <<cache, disk, seen, hdr, call, given_up, known, panicked>>

-----------------------------------------------------------------------------
Init ==
  /\ disk = [b \in Lba |-> Zero]
  /\ lba = [e \in Entry |-> None]
  /\ data = [e \in Entry |-> Zero]
  /\ lru = <<>>
  /\ vq = virtq_init
  /\ hdr = [type |-> "IN", lba |-> None]
  /\ status = "0xFF"
  /\ call = None
  /\ seen = 0 /\ work = {} /\ given_up = {}
  /\ known = disk
  /\ panicked = FALSE

Next ==
  \/ \E b \in Lba : \/ read_hit(b) \/ read_miss(b)
                    \/ \E v \in Value : block_write(b, v)
  \/ poll \/ timeout
  \/ device_fetch
  \/ \E w \in work : device_transfer(w) \/ device_complete(w)

Spec == Init /\ [][Next]_vars

-----------------------------------------------------------------------------
(* Properties                                                              *)

\* Write-through: a block whose last write was reported as done is on the
\* disk, whatever reads, evictions, errors and requests without an answer came
\* in between.  With a late answer it need not be: the device would move data
\* between a frame and a block that other requests use by then.
WritesDurable ==
  \A b \in Lba : \/ known[b] \in {None, disk[b]}
                 \/ call # None /\ call.type = "OUT" /\ call.lba = b

\* A block is in the cache once, as it is on the disk: a hit returns what the
\* device would.  The entry the driver is working on is not yet to be used.
CacheCoherent ==
  \A e \in Range(lru) :
    /\ call = None \/ call.entry # e => data[e] = disk[lba[e]]
    /\ \A x \in Range(lru) : lba[e] = lba[x] => e = x

\* Heads of the chains that are with the device: to be fetched, fetched or
\* returned but not taken, and the ones it will never return.
Outstanding ==
  LET between(from, to) == {i \in 0..(IdxMod - 1) : (i - from) % IdxMod < (to - from) % IdxMod}
  IN {vq.avail.ring[i % QSize] : i \in between(seen, vq.avail.idx)}
       \cup {w.head : w \in work}
       \cup {vq.used.ring[i % QSize] : i \in between(vq.last_used, vq.used.idx)}
       \cup given_up

\* No descriptor is lost or in two places: the free list has num_free
\* distinct ones, and the others form the chains that are with the device.
DescriptorsConserved ==
  LET free == [k \in 1..vq.num_free |-> Link(vq, vq.free_head, k - 1)]
      chains == {Range(Chain(vq, h)) : h \in Outstanding}
  IN /\ IsInjective(free)
     /\ Range(free) \cap UNION chains = {}
     /\ \A c, d \in chains : c # d => c \cap d = {}
     /\ Range(free) \cup UNION chains = Desc

\* The driver's assertions hold until requests that timed out have used up
\* the descriptors.
AssertionsHold == panicked => 3 * Cardinality(given_up) > QSize - 3

\* The queue stays intact and, while descriptors last, so do the assertions.
QueueSound == DescriptorsConserved /\ AssertionsHold

\* What the driver's comments say: the queue is empty between requests, and
\* only one request can be in flight, so its assertions never fail.
NeverPanics == ~panicked
=============================================================================
