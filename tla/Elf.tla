-------------------------------- MODULE Elf ---------------------------------
(***************************************************************************)
(* Executables: elf64_validate of kernel/lib/elf64.c and elf64_load of     *)
(* kernel/proc/elf_load.c.                                                 *)
(*                                                                         *)
(* An image is Size bytes, byte k of which is k + 1 (so that no byte of a  *)
(* file looks like the zeroes around it); its header and program headers   *)
(* are whatever the file says, field by field.  Machine words count modulo *)
(* Word.  The checks of the identification fields (magic, class, byte      *)
(* order, version, type, machine, entry size) compare one field with one   *)
(* constant and are one flag here.                                         *)
(***************************************************************************)
EXTENDS Integers, Sequences, SequencesExt, FiniteSets, FiniteSetsExt

CONSTANTS PageSize,   \* ELF64_PAGE
          VaLimit,    \* USER_VA_LIMIT; the first page is never mapped
          Word,       \* 2^64
          Size,       \* bytes of the image
          EhdrSize, PhdrSize,
          PhnumMax,   \* ELF64_PHNUM_MAX
          Ehdr,       \* headers to try
          Phdr        \* program headers to try

ElfAssumption ==
  /\ PageSize \in Nat \ {0} /\ VaLimit % PageSize = 0 /\ Word % PageSize = 0
  /\ {VaLimit, Word, Size, PhdrSize, PhnumMax} \subseteq Nat
  /\ VaLimit + PageSize <= Word /\ Size < Word
  /\ \A h \in Ehdr : {h.entry, h.phoff, h.phnum} \subseteq 0..(Word - 1)
  /\ \A ph \in Phdr : {ph.offset, ph.vaddr, ph.filesz, ph.memsz} \subseteq 0..(Word - 1)

VARIABLES eh,     \* the header, a member of Ehdr
          phs,    \* the program headers read so far
          loads,  \* page-rounded spans of the segments accepted so far
          rc,     \* "CHECKING", then what elf64_load returns
          pages   \* the pages mapped, in order

vars == <<eh, phs, loads, rc, pages>>

page_down(addr) == addr - (addr % PageSize)
page_up(addr) == page_down((addr + PageSize - 1) % Word)

Init == /\ eh \in Ehdr
        /\ phs = <<>> /\ loads = {} /\ rc = "CHECKING" /\ pages = <<>>

-----------------------------------------------------------------------------
(* Validation                                                              *)

\* The header, up to the place of the program header table.
ehdr_check ==
  IF Size < EhdrSize THEN "ETRUNC"
  ELSE IF ~eh.ident THEN "EIDENT"
  ELSE IF eh.phnum = 0 \/ eh.phnum > PhnumMax THEN "EPHNUM"
  ELSE IF eh.phoff > Size \/ eh.phnum * PhdrSize > Size - eh.phoff THEN "EPHOFF"
  ELSE "OK"

\* The span of pages that a segment takes.
Span(ph) == [start |-> page_down(ph.vaddr), end |-> page_up((ph.vaddr + ph.memsz) % Word)]

Overlaps(a, b) == a.start < b.end /\ b.start < a.end

\* Faulty: the end of the segment is computed in a machine word.
Bug_phdr_check_wraps(ph) ==
  IF ph.type # "LOAD" THEN "OK"
  ELSE IF ph.w /\ ph.x THEN "EWX"
  ELSE IF ph.filesz > ph.memsz THEN "ESEGSIZE"
  ELSE IF ph.memsz = 0 THEN "OK"
  ELSE IF ph.offset > Size \/ ph.filesz > Size - ph.offset THEN "ESEGFILE"
  ELSE IF ph.vaddr < PageSize \/ ph.vaddr >= VaLimit THEN "ESEGVA"
  ELSE IF (ph.vaddr + ph.memsz) % Word > VaLimit THEN "ESEGVA"
  ELSE IF ph.vaddr % PageSize # ph.offset % PageSize THEN "ESEGALIGN"
  ELSE IF \E s \in loads : Overlaps(Span(ph), s) THEN "EOVERLAP"
  ELSE "OK"

\* One program header; each check may rely on those before it.
phdr_check(ph) ==
  IF ph.type # "LOAD" THEN "OK"
  ELSE IF ph.w /\ ph.x THEN "EWX"
  ELSE IF ph.filesz > ph.memsz THEN "ESEGSIZE"
  ELSE IF ph.memsz = 0 THEN "OK"
  ELSE IF ph.offset > Size \/ ph.filesz > Size - ph.offset THEN "ESEGFILE"
  ELSE IF ph.vaddr < PageSize \/ ph.vaddr >= VaLimit THEN "ESEGVA"
  ELSE IF ph.memsz > VaLimit - ph.vaddr THEN "ESEGVA"
  ELSE IF ph.vaddr % PageSize # ph.offset % PageSize THEN "ESEGALIGN"
  ELSE IF \E s \in loads : Overlaps(Span(ph), s) THEN "EOVERLAP"
  ELSE "OK"

IsLoad(ph) == ph.type = "LOAD" /\ ph.memsz # 0

entry_ok == \E k \in DOMAIN phs :
  /\ IsLoad(phs[k]) /\ phs[k].x
  /\ eh.entry >= phs[k].vaddr /\ eh.entry < (phs[k].vaddr + phs[k].filesz) % Word

-----------------------------------------------------------------------------
(* Loading                                                                 *)

\* The byte at an offset of the image buffer; nothing good lies beyond it.
ImageByte(k) == IF k < Size THEN k + 1 ELSE 99

\* The slice of the file that lands in the page at va, in a page of zeroes.
fill_page(va, ph) ==
  LET lo == IF va > ph.vaddr THEN va ELSE ph.vaddr
      file_end == (ph.vaddr + ph.filesz) % Word
      hi == IF va + PageSize < file_end THEN va + PageSize ELSE file_end
  IN [b \in 1..PageSize |->
        LET a == va + b - 1
        IN IF lo <= a /\ a < hi THEN ImageByte(ph.offset + (lo - ph.vaddr) + (a - lo)) ELSE 0]

seg_pte_flags(ph) == [us |-> TRUE, w |-> ph.w, nx |-> ~ph.x]

\* The pages of one segment, lowest first.
SegmentPages(ph) ==
  LET first == page_down(ph.vaddr)
      end == (ph.vaddr + ph.memsz) % Word
      n == IF first < end THEN (end - first + PageSize - 1) \div PageSize ELSE 0
  IN [i \in 1..n |-> LET va == first + (i - 1) * PageSize
                     IN [page |-> va \div PageSize, flags |-> seg_pte_flags(ph), bytes |-> fill_page(va, ph)]]

\* The pages of all segments, in the order in which they are mapped.
LoadedPages(segs) ==
  LET from[k \in 1..(Len(segs) + 1)] ==
        IF k > Len(segs) THEN <<>>
        ELSE (IF IsLoad(segs[k]) THEN SegmentPages(segs[k]) ELSE <<>>) \o from[k + 1]
  IN from[1]

-----------------------------------------------------------------------------
(* Actions                                                                 *)

\* The header is checked first, then the next program header is read: it may
\* hold anything.
elf64_validate ==
  /\ rc = "CHECKING"
  /\ IF phs = <<>> /\ ehdr_check # "OK" THEN rc' = ehdr_check /\ UNCHANGED <<phs, loads>>
     ELSE /\ Len(phs) < eh.phnum
          /\ \E ph \in Phdr :
               /\ phs' = Append(phs, ph)
               /\ IF phdr_check(ph) # "OK" THEN rc' = phdr_check(ph) /\ UNCHANGED loads
                  ELSE /\ loads' = IF IsLoad(ph) THEN loads \cup {Span(ph)} ELSE loads
                       /\ UNCHANGED rc
  /\ UNCHANGED <<eh, pages>>

\* After the last header: is there anything to run?  Then every page is
\* mapped; a page that is there already stops the kernel.  Running out of
\* frames half way is Paging's image_build.
elf64_load ==
  /\ rc = "CHECKING" /\ phs # <<>> /\ Len(phs) = eh.phnum
  /\ rc' = IF loads = {} THEN "ENOLOAD" ELSE IF ~entry_ok THEN "EENTRY"
           ELSE IF \E i, j \in DOMAIN LoadedPages(phs) :
                     i # j /\ LoadedPages(phs)[i].page = LoadedPages(phs)[j].page THEN "PANIC"
           ELSE "OK"
  /\ pages' = IF rc' = "OK" THEN LoadedPages(phs) ELSE <<>>
  /\ UNCHANGED <<eh, phs, loads>>

Next == elf64_validate \/ elf64_load

Spec == Init /\ [][Next]_vars

-----------------------------------------------------------------------------
(* Properties                                                              *)

\* The addresses a segment covers, and those that come from the file.
Addresses(ph) == ph.vaddr..(ph.vaddr + ph.memsz - 1)
FromFile(ph) == ph.vaddr..(ph.vaddr + ph.filesz - 1)
PageSet(ph) == {a \div PageSize : a \in Addresses(ph)}

\* What an executable is, in numbers that do not wrap.
Executable ==
  LET segs == {k \in DOMAIN phs : phs[k].type = "LOAD"}
      full == {k \in segs : phs[k].memsz > 0}
  IN /\ eh.ident /\ eh.phnum \in 1..PhnumMax /\ eh.phoff + eh.phnum * PhdrSize <= Size
     /\ Len(phs) = eh.phnum
     /\ \A k \in segs : ~(phs[k].w /\ phs[k].x) /\ phs[k].filesz <= phs[k].memsz
     /\ \A k \in full : /\ phs[k].offset + phs[k].filesz <= Size
                        /\ Addresses(phs[k]) \subseteq PageSize..(VaLimit - 1)
                        /\ (phs[k].vaddr - phs[k].offset) % PageSize = 0
     /\ \A j, k \in full : j # k => PageSet(phs[j]) \cap PageSet(phs[k]) = {}
     /\ \E k \in full : phs[k].x /\ eh.entry \in FromFile(phs[k])

\* What its pages must hold: at every address of a segment the byte of the
\* file that belongs there, zero where the file has none, with the rights of
\* the one segment that the page belongs to.
MemoryImage ==
  LET full == {phs[k] : k \in {k \in DOMAIN phs : IsLoad(phs[k])}}
      byte(ph, a) == IF a \in FromFile(ph) THEN ph.offset + (a - ph.vaddr) + 1 ELSE 0
  IN UNION {{[page |-> q, flags |-> [us |-> TRUE, w |-> ph.w, nx |-> ~ph.x],
              bytes |-> [b \in 1..PageSize |-> byte(ph, q * PageSize + b - 1)]] : q \in PageSet(ph)} :
             ph \in full}

\* A verdict on an image is right whatever the size fields hold, up to the
\* largest machine word: it is accepted exactly when it is an executable, and
\* then every page is mapped once and holds what the file says; the loader's
\* assertion that a validated image cannot collide is never tripped.
LoadedAsWritten ==
  rc # "CHECKING" => /\ rc = "OK" <=> Executable
                     /\ rc = "OK" => Range(pages) = MemoryImage /\ IsInjective(pages)
                     /\ rc # "PANIC"
=============================================================================
