--------------------------------- MODULE Pmm ---------------------------------
(***************************************************************************)
(* The physical frame allocator: the bitmap operations of                  *)
(* kernel/mm/pmm_core.c and the construction of the first bitmap from the  *)
(* firmware's memory map in kernel/mm/pmm.c.                               *)
(*                                                                         *)
(* A struct pmm is a record p.  Its bitmap is the set of frames whose bit  *)
(* is set, that is, of the used ones.  An operation that returns a value   *)
(* and changes p is a record [ret, p].  Addresses are bytes, with pages    *)
(* and bitmap bytes as small as the instance wants them.                   *)
(***************************************************************************)
EXTENDS Integers, FiniteSets, SequencesExt

CONSTANTS PAGE_SIZE,
          BITS_PER_BYTE,
          BOOT_MAPPED_LIMIT,  \* end of the memory mapped during boot
          KernelEnd           \* kernel_end_phys

ASSUME PmmAssumption ==
  /\ PAGE_SIZE \in Nat \ {0} /\ BITS_PER_BYTE \in Nat \ {0}
  /\ BOOT_MAPPED_LIMIT \in Nat /\ KernelEnd \in Nat \ {0}

pmm_core_bitmap_size(nframes) == (nframes + BITS_PER_BYTE - 1) \div BITS_PER_BYTE

pmm_core_init(nframes) ==
  [nframes |-> nframes, bitmap |-> 0..(nframes - 1), free_frames |-> 0, hint |-> 0]

pmm_core_mark_used(p, first, count) ==
  LET s == {f \in first..(first + count - 1) : f < p.nframes /\ f \notin p.bitmap}
  IN [p EXCEPT !.bitmap = @ \cup s, !.free_frames = @ - Cardinality(s)]

pmm_core_mark_free(p, first, count) ==
  LET s == {f \in first..(first + count - 1) : f < p.nframes /\ f \in p.bitmap}
  IN [p EXCEPT !.bitmap = @ \ s, !.free_frames = @ + Cardinality(s)]

\* Faulty: the skip forgets that the loop adds one as well.
Bug_skips_one_more(p) ==
  LET full(f) == f % BITS_PER_BYTE = 0 /\ f..(f + BITS_PER_BYTE - 1) \subseteq p.bitmap
      scan[s \in 0..(p.nframes + BITS_PER_BYTE)] ==
        LET f == (p.hint + s) % p.nframes
        IN IF s >= p.nframes THEN -1
           ELSE IF full(f) THEN scan[s + BITS_PER_BYTE + 1]
           ELSE IF f \notin p.bitmap THEN f
           ELSE scan[s + 1]
  IN scan[0]

\* The search of pmm_core_alloc: from the hint, wrapping once, over whole
\* bitmap bytes at a time where they are full.  A byte that the last frames
\* do not fill is not skipped.
next_fit(p) ==
  LET full(f) == f % BITS_PER_BYTE = 0 /\ f..(f + BITS_PER_BYTE - 1) \subseteq p.bitmap
      scan[s \in 0..(p.nframes + BITS_PER_BYTE)] ==
        LET f == (p.hint + s) % p.nframes
        IN IF s >= p.nframes THEN -1
           ELSE IF full(f) THEN scan[s + BITS_PER_BYTE]
           ELSE IF f \notin p.bitmap THEN f
           ELSE scan[s + 1]
  IN scan[0]

pmm_core_alloc(p) ==
  LET f == IF p.free_frames = 0 THEN -1 ELSE next_fit(p)
  IN [ret |-> f,
      p |-> IF f = -1 THEN p
            ELSE [p EXCEPT !.bitmap = @ \cup {f}, !.free_frames = @ - 1,
                           !.hint = (f + 1) % p.nframes]]

\* The search of pmm_core_alloc_run, for a count and an alignment that are
\* not 0: every multiple of align in turn.
first_run(p, count, align) ==
  LET scan[base \in 0..(p.nframes + align)] ==
        IF base + count > p.nframes THEN -1
        ELSE IF base..(base + count - 1) \cap p.bitmap = {} THEN base
        ELSE scan[base + align]
  IN IF count > p.free_frames THEN -1 ELSE scan[0]

pmm_core_alloc_run(p, count, align) ==
  LET base == first_run(p, count, align)
  IN [ret |-> base, p |-> IF base = -1 THEN p ELSE pmm_core_mark_used(p, base, count)]

pmm_core_free(p, f) ==
  IF f >= p.nframes \/ f \notin p.bitmap THEN [ret |-> -1, p |-> p]
  ELSE [ret |-> 0, p |-> [p EXCEPT !.bitmap = @ \ {f}, !.free_frames = @ + 1]]

-----------------------------------------------------------------------------
(* The first bitmap.  A memory map is a sequence of entries                *)
(* [base, len, usable]; entries may overlap and come in any order.         *)

\* page_up and page_down, as frame numbers.
page_up(addr) == (addr + PAGE_SIZE - 1) \div PAGE_SIZE

page_down(addr) == addr \div PAGE_SIZE

EndOf(e) == e.base + e.len

Usable(map) == {e \in Range(map) : e.usable}

highest_usable_end(map) == Max({EndOf(e) : e \in Usable(map)})

\* The lowest frame from which size bytes fit into usable memory above
\* min_addr that is mapped during boot; 0 when there is none.
place_bitmap(map, size, min_addr) ==
  LET start(e) == page_up(Max({e.base, min_addr}))
      end(e) == Min({page_down(EndOf(e)) * PAGE_SIZE, BOOT_MAPPED_LIMIT})
      homes == {start(e) : e \in {x \in Usable(map) : /\ start(x) * PAGE_SIZE < end(x)
                                                      /\ end(x) - start(x) * PAGE_SIZE >= size}}
  IN IF homes = {} THEN 0 ELSE Min(homes)

\* A map that pmm_init does not panic on.
Bootable(map) ==
  /\ Usable(map) # {}
  /\ place_bitmap(map, pmm_core_bitmap_size(page_up(highest_usable_end(map))), KernelEnd) # 0

\* Usable memory is freed, then everything else that overlaps it is marked
\* used again: reserved entries, low memory and the kernel, the bitmap.
pmm_init(map) ==
  LET nframes == page_up(highest_usable_end(map))
      size == pmm_core_bitmap_size(nframes)
      free(p, e) ==
        LET s == page_up(e.base)  n == page_down(EndOf(e)) - s
        IN IF e.usable /\ n > 0 THEN pmm_core_mark_free(p, s, n) ELSE p
      reserve(p, e) ==
        LET s == page_down(e.base)
        IN IF e.usable THEN p ELSE pmm_core_mark_used(p, s, page_up(EndOf(e)) - s)
      freed == FoldLeft(free, pmm_core_init(nframes), map)
      kept == pmm_core_mark_used(FoldLeft(reserve, freed, map), 0, page_up(KernelEnd))
  IN pmm_core_mark_used(kept, place_bitmap(map, size, KernelEnd), page_up(size))
=============================================================================
