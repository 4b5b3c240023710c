-------------------------------- MODULE Heap --------------------------------
(***************************************************************************)
(* The kernel heap (kernel/mm/heap_core.c behind kernel/mm/kmalloc.c) on   *)
(* top of the frame allocator, which the rest of the kernel uses as well.  *)
(* Every operation runs with interrupts off, so it is one action.          *)
(*                                                                         *)
(* A pointer from the heap is <<page, i>>: the i-th object behind the      *)
(* header of its page.  A large span has one object, number 0.             *)
(***************************************************************************)
EXTENDS Pmm

CONSTANTS Maps,        \* firmware memory maps to boot with
          HDR_SIZE,
          class_size,  \* the sizes of small objects, ascending
          Sizes,       \* sizes that are asked for
          MaxObjects   \* bound on live allocations

ASSUME HeapAssumption ==
  /\ \A m \in Maps : Bootable(m)
  /\ HDR_SIZE \in Nat /\ HDR_SIZE < PAGE_SIZE /\ Sizes \subseteq Nat \ {0}
  /\ \A c \in DOMAIN class_size : class_size[c] \in 1..(PAGE_SIZE - HDR_SIZE)
  /\ MaxObjects \in Nat

Class == DOMAIN class_size

VARIABLES map,           \* the memory map of this boot
          reserved,      \* the frames that pmm_init left used
          pmm,           \* the struct pmm
          hdr,           \* the header at the start of each frame the heap uses
          partial,       \* heap.partial: slabs with a free object, by class
          live_objects,
          live_pages,
          frames,        \* single frames in use elsewhere in the kernel
          allocs         \* what callers have: [ptr, size]

vars == <<map, reserved, pmm, hdr, partial, live_objects, live_pages, frames, allocs>>

heap == <<hdr, partial, live_objects, live_pages>>

\* An error return: an address of 0, a NULL pointer.
None == <<>>

-----------------------------------------------------------------------------
(* Helpers                                                                 *)

\* Faulty: forgets the header.
Bug_no_room_for_header(c) == PAGE_SIZE \div class_size[c]

objects_per_slab(c) == (PAGE_SIZE - HDR_SIZE) \div class_size[c]

HEAP_MAX_SMALL == class_size[Len(class_size)]

class_for(size) == Min({c \in Class : size <= class_size[c]})

\* alloc_large
npages(size) == (size + HDR_SIZE + PAGE_SIZE - 1) \div PAGE_SIZE

partial_insert(c, s) == [partial EXCEPT ![c] = <<s>> \o @]

partial_remove(c, s) == [partial EXCEPT ![c] = SelectSeq(@, LAMBDA x : x # s)]

\* slab_create: every object on the free list, the first one first.
new_slab(c) == [magic |-> "SLAB", cls |-> c, inuse |-> 0,
                free_list |-> [i \in 1..objects_per_slab(c) |-> i - 1]]

backend_pages_alloc(count) == pmm_core_alloc_run(pmm, count, 1)

\* Faulty: gives back the first page of a span only.
Bug_free_first_page(p, f, count) == pmm_core_free(p, f).p

\* backend_pages_free: one frame after the other.
backend_pages_free(p, f, count) ==
  FoldLeft(LAMBDA q, i : pmm_core_free(q, f + i - 1).p, p, [i \in 1..count |-> i])

-----------------------------------------------------------------------------
Init ==
  /\ map \in Maps
  /\ pmm = pmm_init(map)
  /\ reserved = pmm.bitmap
  /\ hdr = [f \in {} |-> None]
  /\ partial = [c \in Class |-> <<>>]
  /\ live_objects = 0 /\ live_pages = 0
  /\ frames = {} /\ allocs = {}

\* A frame for a page table, a stack or user memory; 0 when there is none.
pmm_alloc_frame ==
  LET r == pmm_core_alloc(pmm)
  IN /\ pmm' = r.p
     /\ frames' = IF r.ret = -1 THEN frames ELSE frames \cup {r.ret}
     /\ UNCHANGED <<map, reserved, heap, allocs>>

pmm_free_frame(f) ==
  /\ f \in frames
  /\ pmm' = pmm_core_free(pmm, f).p
  /\ frames' = frames \ {f}
  /\ UNCHANGED <<map, reserved, heap, allocs>>

\* Takes the first free object of slab s, which has the header h.
take(s, h, lists, size) ==
  LET rest == Tail(h.free_list)
  IN /\ hdr' = (s :> [h EXCEPT !.free_list = rest, !.inuse = @ + 1]) @@ hdr
     /\ live_objects' = live_objects + 1
     /\ partial' = IF rest # <<>> THEN lists
                   ELSE [lists EXCEPT ![h.cls] = SelectSeq(@, LAMBDA x : x # s)]
     /\ allocs' = allocs \cup {[ptr |-> <<s, Head(h.free_list)>>, size |-> size]}

\* heap_core_alloc of a small object, from the first partial slab or, when
\* there is none, from a new one.
kmalloc_small(size) ==
  LET c == class_for(size)
      r == backend_pages_alloc(1)
  IN /\ size <= HEAP_MAX_SMALL
     /\ \/ /\ partial[c] # <<>>
           /\ take(Head(partial[c]), hdr[Head(partial[c])], partial, size)
           /\ UNCHANGED <<pmm, live_pages>>
        \/ /\ partial[c] = <<>> /\ r.ret # -1
           /\ pmm' = r.p
           /\ live_pages' = live_pages + 1
           /\ take(r.ret, new_slab(c), partial_insert(c, r.ret), size)
     /\ UNCHANGED <<map, reserved, frames>>

kmalloc_large(size) ==
  LET n == npages(size)
      r == backend_pages_alloc(n)
  IN /\ size > HEAP_MAX_SMALL
     /\ r.ret # -1
     /\ pmm' = r.p
     /\ live_pages' = live_pages + n
     /\ hdr' = (r.ret :> [magic |-> "LARGE", npages |-> n]) @@ hdr
     /\ allocs' = allocs \cup {[ptr |-> <<r.ret, 0>>, size |-> size]}
     /\ UNCHANGED <<map, reserved, partial, live_objects, frames>>

\* heap_core_free of a span.  Its header is poisoned: it is one no more.
kfree_large(a) ==
  LET s == a.ptr[1] IN
  /\ hdr[s].magic = "LARGE"
  /\ pmm' = backend_pages_free(pmm, s, hdr[s].npages)
  /\ live_pages' = live_pages - hdr[s].npages
  /\ hdr' = [f \in DOMAIN hdr \ {s} |-> hdr[f]]
  /\ UNCHANGED <<partial, live_objects>>

\* heap_core_free of a small object.  The slab goes back to the frame
\* allocator when it was the last one, and on the partial list when it was
\* the first one to come back.
kfree_small(a) ==
  LET s == a.ptr[1]
      h == [hdr[s] EXCEPT !.free_list = <<a.ptr[2]>> \o @, !.inuse = @ - 1]
      c == h.cls
      was_full == hdr[s].free_list = <<>>
  IN /\ hdr[s].magic = "SLAB"
     /\ live_objects' = live_objects - 1
     /\ \/ /\ h.inuse = 0
           /\ partial' = IF was_full THEN partial ELSE partial_remove(c, s)
           /\ pmm' = backend_pages_free(pmm, s, 1)
           /\ live_pages' = live_pages - 1
           /\ hdr' = [f \in DOMAIN hdr \ {s} |-> hdr[f]]
        \/ /\ h.inuse # 0
           /\ partial' = IF was_full THEN partial_insert(c, s) ELSE partial
           /\ hdr' = [hdr EXCEPT ![s] = h]
           /\ UNCHANGED <<pmm, live_pages>>

kfree(a) ==
  /\ kfree_large(a) \/ kfree_small(a)
  /\ allocs' = allocs \ {a}
  /\ UNCHANGED <<map, reserved, frames>>

Next ==
  \/ pmm_alloc_frame
  \/ \E f \in frames : pmm_free_frame(f)
  \/ /\ Cardinality(allocs) < MaxObjects
     /\ \E size \in Sizes : kmalloc_small(size) \/ kmalloc_large(size)
  \/ \E a \in allocs : kfree(a)

Spec == Init /\ [][Next]_vars

-----------------------------------------------------------------------------
(* Properties                                                              *)

PagesOf(s) == IF hdr[s].magic = "LARGE" THEN s..(s + hdr[s].npages - 1) ELSE {s}

HeapPages == UNION {PagesOf(s) : s \in DOMAIN hdr}

Slabs == {s \in DOMAIN hdr : hdr[s].magic = "SLAB"}

\* No frame leaks and none has two owners: beside what the boot reserved the
\* used frames are the heap's pages and the frames handed out one by one,
\* and the counts of both allocators are exact.
FramesAccounted ==
  /\ pmm.bitmap = reserved \cup HeapPages \cup frames
  /\ reserved \cap (HeapPages \cup frames) = {}
  /\ HeapPages \cap frames = {}
  /\ \A s, t \in DOMAIN hdr : s # t => PagesOf(s) \cap PagesOf(t) = {}
  /\ pmm.free_frames = pmm.nframes - Cardinality(pmm.bitmap)
  /\ live_pages = Cardinality(HeapPages)

\* Memory that is handed out is memory the machine has: it lies within usable
\* entries, touches no reserved one, not the kernel below KernelEnd and, in
\* particular, not frame 0, which the callers take for a failure.
OnlyUsableMemory ==
  \A f \in frames \cup HeapPages : \A b \in (f * PAGE_SIZE)..((f + 1) * PAGE_SIZE - 1) :
    /\ b >= KernelEnd
    /\ \E e \in Range(map) : e.usable /\ e.base <= b /\ b < EndOf(e)
    /\ \A e \in Range(map) : ~e.usable => b < e.base \/ b >= EndOf(e)

\* Frames are owned once, and only real memory is.
FramesSound == FramesAccounted /\ OnlyUsableMemory

\* The search with its hint, its wrap and its skips finds the first free
\* frame at or after the hint, cyclically, and fails only when all are used:
\* the return that pmm_core_alloc calls unreachable is.  A run is found
\* whenever there is one, and it is the lowest.
SearchesFind ==
  /\ LET free == 0..(pmm.nframes - 1) \ pmm.bitmap
         distance(f) == (f - pmm.hint) % pmm.nframes
     IN IF free = {} THEN next_fit(pmm) = -1
        ELSE /\ next_fit(pmm) \in free
             /\ \A f \in free : distance(next_fit(pmm)) <= distance(f)
  /\ pmm.hint < pmm.nframes
  /\ \A n \in 1..pmm.nframes, align \in {1, 2} :
       LET runs == {b \in 0..(pmm.nframes - n) :
                      b % align = 0 /\ b..(b + n - 1) \cap pmm.bitmap = {}}
       IN first_run(pmm, n, align) = IF runs = {} THEN -1 ELSE Min(runs)

\* In each slab the objects are the ones callers have and the ones on its
\* free list, each once; a slab is on the partial list of its class exactly
\* while it has a free object, and none is kept without a live one.
SlabsConsistent ==
  /\ \A s \in Slabs :
       LET held == {a.ptr[2] : a \in {x \in allocs : x.ptr[1] = s}}
       IN /\ IsInjective(hdr[s].free_list)
          /\ Range(hdr[s].free_list) = 0..(objects_per_slab(hdr[s].cls) - 1) \ held
          /\ hdr[s].inuse = Cardinality(held) /\ held # {}
  /\ \A c \in Class :
       /\ IsInjective(partial[c])
       /\ Range(partial[c]) = {s \in Slabs : hdr[s].cls = c /\ hdr[s].free_list # <<>>}
  /\ live_objects = Cardinality({a \in allocs : a.ptr[1] \in Slabs})

\* The bytes of an allocation.
Bytes(a) ==
  LET s == a.ptr[1]
      step == IF hdr[s].magic = "SLAB" THEN class_size[hdr[s].cls] ELSE 0
      start == s * PAGE_SIZE + HDR_SIZE + a.ptr[2] * step
  IN start..(start + a.size - 1)

\* What kmalloc promises: the bytes a caller asked for are in pages of the
\* heap, are no one else's, and are clear of every slab header.
AllocationsDisjoint ==
  \A a \in allocs :
    /\ \A b \in Bytes(a) : b \div PAGE_SIZE \in PagesOf(a.ptr[1])
    /\ \A b \in allocs : a # b => Bytes(a) \cap Bytes(b) = {}
    /\ \A s \in DOMAIN hdr :
         Bytes(a) \cap (s * PAGE_SIZE)..(s * PAGE_SIZE + HDR_SIZE - 1) = {}

\* Slabs are consistent, and what is allocated from them never overlaps.
AllocationsSound == SlabsConsistent /\ AllocationsDisjoint
=============================================================================
