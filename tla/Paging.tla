------------------------------- MODULE Paging -------------------------------
(***************************************************************************)
(* Page tables: kernel/arch/x86_64/paging.c, the user address spaces of    *)
(* kernel/mm/vmm.c, image_build of kernel/proc/process.c and the check of  *)
(* user pointers in kernel/proc/uaccess.c.                                 *)
(*                                                                         *)
(* A tree of tables in frames of memory, Levels deep with Fan entries per  *)
(* table; the lower half of the root is the process's, the upper half is   *)
(* shared with the kernel.  Only 4 KiB pages: nothing maps larger ones for *)
(* a user.  An address space is touched by its process alone and frames    *)
(* are handed out with interrupts off (Pmm), so an operation is a function *)
(* from memory to a return code and the next memory.  A free frame holds   *)
(* junk: whoever allocates one must clear or overwrite it.                 *)
(***************************************************************************)
EXTENDS Integers, Sequences, SequencesExt, FiniteSets, FiniteSetsExt

CONSTANTS Levels,     \* 4 on x86_64
          Fan,        \* ENTRIES
          NFrames,    \* frames of memory
          MaxTaken,   \* how many of them others may have
          PageSize,   \* bytes per page
          Proc,       \* processes
          Programs,   \* programs: sequences of pages in loading order
          StackPages, \* USER_STACK_PAGES
          Value,      \* bytes that a process writes
          Buffer,     \* the ranges it writes to: address and length
          Nothing

PagingAssumption ==
  /\ Levels \in Nat \ {0} /\ Fan \in Nat /\ Fan > 1 /\ Fan % 2 = 0
  /\ NFrames \in Nat /\ NFrames > 2 /\ PageSize \in Nat \ {0}

Frame == 1..NFrames
Idx == 0..(Fan - 1)
Pages == Fan ^ Levels                 \* pages of the whole address space
UserPages == Pages \div 2             \* USER_VA_LIMIT in pages
AddressLimit == UserPages * PageSize  \* USER_VA_LIMIT
Word == Pages * PageSize              \* machine words count addresses modulo this

VARIABLES mem,   \* frames in use, and what the frames hold
          as,    \* each process's root table, or 0
          taken  \* the frames other parts of the kernel have

vars == <<mem, as, taken>>

\* A table entry; frame 0 is "not present".
Entry(frame, us, w, nx) == [frame |-> frame, us |-> us, w |-> w, nx |-> nx]
Absent == Entry(0, FALSE, FALSE, FALSE)
Leaf(frame, flags) == Entry(frame, flags.us, flags.w, flags.nx)

\* What a free frame and a page of arguments hold.
JunkByte == 254
ArgByte == 255

ZeroTable == [i \in Idx |-> Absent]
ZeroPage == [i \in 1..PageSize |-> 0]
Junk == [tab |-> [i \in Idx |-> Entry(1, TRUE, TRUE, FALSE)], bytes |-> [i \in 1..PageSize |-> JunkByte]]

KernelRoot == 1

\* The kernel's tables: its part of the root and, below it, one more table.
Init ==
  /\ \E k \in 0..MaxTaken : taken = {1, 2} \cup (NFrames - k + 1)..NFrames
  /\ mem = [used |-> taken,
            tab |-> [f \in Frame |->
              IF f = 1 THEN [ZeroTable EXCEPT ![Fan - 1] = Entry(2, FALSE, TRUE, FALSE)]
              ELSE IF f = 2 THEN ZeroTable ELSE Junk.tab],
            data |-> [f \in Frame |-> Junk.bytes]]
  /\ as = [p \in Proc |-> 0]

-----------------------------------------------------------------------------
(* Frames and tables                                                       *)

\* The lowest free frame, or 0 (Pmm).
pmm_alloc_frame(m) == LET free == Frame \ m.used IN IF free = {} THEN 0 ELSE Min(free)

\* Frames go back with whatever is in them.
FreeFrames(m, fs) ==
  [used |-> m.used \ fs,
   tab |-> [f \in Frame |-> IF f \in fs THEN Junk.tab ELSE m.tab[f]],
   data |-> [f \in Frame |-> IF f \in fs THEN Junk.bytes ELSE m.data[f]]]

NewTable(m, f) == [m EXCEPT !.used = @ \cup {f}, !.tab[f] = ZeroTable]
NewPage(m, f, bytes) == [m EXCEPT !.used = @ \cup {f}, !.data[f] = bytes]

\* Which entry a page uses in a table of a level; level 1 holds leaves.
index_at(page, level) == (page \div (Fan ^ (level - 1))) % Fan

\* The next table, made when the entry is empty; t = 0 is out of memory.  The
\* user bit spreads to the entry of a table that exists.
next_table(m, table, i, us) ==
  LET e == m.tab[table][i]
      f == pmm_alloc_frame(m)
  IN IF e.frame # 0 THEN [t |-> e.frame, m |-> [m EXCEPT !.tab[table][i].us = @ \/ us]]
     ELSE IF f = 0 THEN [t |-> 0, m |-> m]
     ELSE [t |-> f, m |-> [NewTable(m, f) EXCEPT !.tab[table][i] = Entry(f, us, TRUE, FALSE)]]

\* map_common for a 4 KiB page.  Tables made on the way stay when it fails.
paging_map_4k(m, root, page, frame, flags) ==
  LET down[level \in 1..Levels] ==
        IF level = Levels THEN [t |-> root, m |-> m]
        ELSE LET up == down[level + 1]
             IN IF up.t = 0 THEN up ELSE next_table(up.m, up.t, index_at(page, level + 1), flags.us)
      at == down[1]
      i == index_at(page, 1)
  IN IF at.t = 0 THEN [rc |-> "ENOMEM", m |-> at.m]
     ELSE IF at.m.tab[at.t][i].frame # 0 THEN [rc |-> "EEXIST", m |-> at.m]
     ELSE [rc |-> "OK", m |-> [at.m EXCEPT !.tab[at.t][i] = Leaf(frame, flags)]]

\* The leaf entry of a page, or Absent.
paging_lookup(m, root, page) ==
  LET down[level \in 0..Levels] ==
        IF level = Levels THEN [Absent EXCEPT !.frame = root]
        ELSE LET up == down[level + 1]
             IN IF up.frame = 0 THEN Absent ELSE m.tab[up.frame][index_at(page, level + 1)]
  IN down[0]

\* The root is fresh; its upper half is the kernel's.
vmm_addrspace_create_user(m) ==
  LET f == pmm_alloc_frame(m) IN
  [root |-> f,
   m |-> IF f = 0 THEN m
         ELSE [NewTable(m, f) EXCEPT !.tab[f] =
                 [i \in Idx |-> IF i >= Fan \div 2 THEN m.tab[KernelRoot][i] ELSE Absent]]]

\* The user pages that are mapped.
UserMapped(m, root) == {page \in 0..(UserPages - 1) : paging_lookup(m, root, page).frame # 0}

\* The frames of a process: everything below the lower half of its root.
UserFrames(m, root) ==
  LET below[level \in 0..Levels] ==  \* frames of tables (pages at 0) of a level
        IF level = Levels THEN {root}
        ELSE {m.tab[t][i].frame : <<t, i>> \in
                below[level + 1] \X (IF level + 1 = Levels THEN 0..(Fan \div 2 - 1) ELSE Idx)} \ {0}
  IN UNION {below[level] : level \in 0..Levels}

\* Faulty: the tables stay allocated.
Bug_destroy_keeps_tables(m, root) ==
  FreeFrames(m, {root} \cup {paging_lookup(m, root, page).frame : page \in UserMapped(m, root)})

paging_user_destroy(m, root) == FreeFrames(m, UserFrames(m, root))

\* Every user page, in order: a fresh frame with the same bytes, mapped with
\* the same rights.
paging_user_clone(m, dst, src) ==
  LET pages == SetToSortSeq(UserMapped(m, src), LAMBDA a, b : a < b)
      done[k \in 0..Len(pages)] ==
        IF k = 0 THEN [rc |-> "OK", m |-> m]
        ELSE LET b == done[k - 1]
                 e == paging_lookup(m, src, pages[k])
                 f == pmm_alloc_frame(b.m)
                 r == paging_map_4k(NewPage(b.m, f, m.data[e.frame]), dst, pages[k], f, e)
             IN IF b.rc # "OK" THEN b
                ELSE IF f = 0 THEN [rc |-> "ENOMEM", m |-> b.m]
                ELSE IF r.rc # "OK" THEN [rc |-> r.rc, m |-> FreeFrames(r.m, {f})]
                ELSE r
  IN done[Len(pages)]

-----------------------------------------------------------------------------
(* Programs                                                                *)

StackFlags == [us |-> TRUE, w |-> TRUE, nx |-> TRUE]

\* The program's pages (what elf64_load maps, see Elf), then the stack's from
\* the top down, the first of which holds the arguments.
ImagePages(prog) ==
  prog \o [i \in 1..StackPages |->
             [page |-> UserPages - i, flags |-> StackFlags,
              bytes |-> IF i = 1 THEN [b \in 1..PageSize |-> ArgByte] ELSE ZeroPage]]

\* On any failure the new address space is destroyed; the last that can fail is
\* stack_build, when the arguments do not fit (Args has that arithmetic).
image_build(m, prog, fits) ==
  LET new == vmm_addrspace_create_user(m)
      pages == ImagePages(prog)
      done[k \in 0..Len(pages)] ==
        IF k = 0 THEN [rc |-> "OK", m |-> new.m]
        ELSE LET b == done[k - 1]
                 f == pmm_alloc_frame(b.m)
                 r == paging_map_4k(NewPage(b.m, f, pages[k].bytes), new.root, pages[k].page, f, pages[k].flags)
             IN IF b.rc # "OK" THEN b
                ELSE IF f = 0 THEN [rc |-> "ENOMEM", m |-> b.m]
                ELSE IF r.rc # "OK" THEN [rc |-> r.rc, m |-> FreeFrames(r.m, {f})]
                ELSE r
      r == done[Len(pages)]
  IN IF new.root = 0 THEN [rc |-> "ENOMEM", root |-> 0, m |-> m]
     ELSE IF r.rc # "OK" THEN [rc |-> r.rc, root |-> 0, m |-> paging_user_destroy(r.m, new.root)]
     ELSE IF ~fits THEN [rc |-> "E2BIG", root |-> 0, m |-> paging_user_destroy(r.m, new.root)]
     ELSE [rc |-> "OK", root |-> new.root, m |-> r.m]

\* process_run_init and execve: the new image is built beside the old one,
\* which is destroyed once nothing can fail any more.
process_execve(p, prog, fits) ==
  LET r == image_build(mem, prog, fits) IN
  /\ as' = IF r.rc = "OK" THEN [as EXCEPT ![p] = r.root] ELSE as
  /\ mem' = IF r.rc = "OK" /\ as[p] # 0 THEN paging_user_destroy(r.m, as[p]) ELSE r.m

process_fork(p, q) ==
  LET new == vmm_addrspace_create_user(mem)
      r == paging_user_clone(new.m, new.root, as[p])
  IN /\ as[p] # 0 /\ as[q] = 0
     /\ IF new.root = 0 THEN UNCHANGED <<mem, as>>
        ELSE IF r.rc # "OK" THEN mem' = paging_user_destroy(r.m, new.root) /\ UNCHANGED as
        ELSE mem' = r.m /\ as' = [as EXCEPT ![q] = new.root]

\* The parent that reaps the process destroys its address space.
process_reap(p) == /\ as[p] # 0
                   /\ mem' = paging_user_destroy(mem, as[p])
                   /\ as' = [as EXCEPT ![p] = 0]

\* Faulty: the end of the range is computed in a machine word.
Bug_user_range_ok_wraps(p, start, len, write) ==
  LET end == (start + len) % Word
      first == start - (start % PageSize)
  IN /\ start < AddressLimit /\ end <= AddressLimit
     /\ \A va \in {a \in first..(end - 1) : a % PageSize = 0} :
          LET e == paging_lookup(mem, as[p], va \div PageSize)
          IN e.frame # 0 /\ e.us /\ (write => e.w)

\* Is every page of the range the user's, and writable where asked?
user_range_ok(p, start, len, write) ==
  LET first == start - (start % PageSize)
  IN /\ start < AddressLimit /\ len <= AddressLimit - start
     /\ \A va \in {a \in first..(start + len - 1) : a % PageSize = 0} :
          LET e == paging_lookup(mem, as[p], va \div PageSize)
          IN e.frame # 0 /\ e.us /\ (write => e.w)

\* The bytes of a range change, wherever the tables lead.
Stored(p, start, len, byte) ==
  LET hit == {<<paging_lookup(mem, as[p], a \div PageSize).frame, (a % PageSize) + 1>> :
                a \in start..(Min({start + len, AddressLimit}) - 1)}
  IN mem' = [mem EXCEPT !.data = [f \in Frame |-> [b \in 1..PageSize |->
               IF <<f, b>> \in hit THEN byte ELSE mem.data[f][b]]]]

\* The kernel copies to a user buffer that it has checked.
user_copy_to(p, start, len, byte) ==
  /\ as[p] # 0
  /\ user_range_ok(p, start, len, TRUE)
  /\ Stored(p, start, len, byte)
  /\ UNCHANGED as

\* The processor follows the tables: a store by the process itself.
store(p, a, byte) ==
  /\ as[p] # 0
  /\ LET e == paging_lookup(mem, as[p], a \div PageSize) IN e.frame # 0 /\ e.us /\ e.w
  /\ Stored(p, a, 1, byte)
  /\ UNCHANGED as

Step == \/ \E p \in Proc : \/ process_reap(p)
                          \/ \E prog \in Programs, fits \in BOOLEAN : process_execve(p, prog, fits)
        \/ \E p, q \in Proc : process_fork(p, q)
        \/ \E p \in Proc, byte \in Value :
             \E x \in Buffer : \/ x[2] = 1 /\ store(p, x[1], byte)
                              \/ user_copy_to(p, x[1], x[2], byte)

Next == Step /\ UNCHANGED taken

Spec == Init /\ [][Next]_vars

-----------------------------------------------------------------------------
(* Properties                                                              *)

\* Every frame in use is the kernel's or belongs to one place in one process's
\* tree, the kernel's half is never changed or freed, and a frame that nothing
\* refers to is free: also after an exec or a fork that ran out of frames half
\* way through a page and its tables.
FramesExact ==
  LET live == {p \in Proc : as[p] # 0}
      tables(p) == {f \in UserFrames(mem, as[p]) : \A page \in 0..(UserPages - 1) :
                      paging_lookup(mem, as[p], page).frame # f}
      refs(p) == {<<t, i>> \in tables(p) \X Idx : mem.tab[t][i].frame # 0 /\ mem.tab[t][i].frame # 2}
  IN /\ mem.used = taken \cup UNION {UserFrames(mem, as[p]) : p \in live}
     /\ \A p, q \in live : p # q => UserFrames(mem, as[p]) \cap UserFrames(mem, as[q]) = {}
     /\ \A p \in live : Cardinality(UserFrames(mem, as[p])) = 1 + Cardinality(refs(p))
     /\ \A p \in live : \A i \in Idx : i >= Fan \div 2 => mem.tab[as[p]][i] = mem.tab[KernelRoot][i]

\* What a process sees: the bytes and rights of its user pages.
Seen(p) ==
  IF as[p] = 0 THEN Nothing
  ELSE [page \in UserMapped(mem, as[p]) |->
          LET e == paging_lookup(mem, as[p], page)
          IN [bytes |-> mem.data[e.frame], w |-> e.w, nx |-> e.nx]]

\* What a program's pages are when it starts.
StartView(prog) ==
  LET pages == ImagePages(prog)
      at(page) == CHOOSE k \in DOMAIN pages : pages[k].page = page
  IN [page \in {pages[k].page : k \in DOMAIN pages} |->
        [bytes |-> pages[at(page)].bytes, w |-> pages[at(page)].flags.w, nx |-> pages[at(page)].flags.nx]]

Spaces == INSTANCE AddressSpaces WITH view <- [p \in Proc |-> Seen(p)],
                                      View <- {StartView(prog) : prog \in Programs}

\* Through shared kernel tables, copied pages and reused frames, every process
\* has memory of its own: exec gives it exactly the program's pages, fork an
\* equal copy that later stores on either side do not reach, and a failed call
\* leaves everybody's memory alone.
IsAddressSpaces == Spaces!Spec
=============================================================================
