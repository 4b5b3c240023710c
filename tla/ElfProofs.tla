------------------------------ MODULE ElfProofs ------------------------------
(***************************************************************************)
(* Proofs about Elf, for any image, page size and machine word: what       *)
(* elf64_validate promises the loader about an image that it accepts.      *)
(***************************************************************************)
EXTENDS Elf, TLAPS

\* What elf64_load relies on for a segment that takes memory: its bytes are
\* inside the image, its addresses are the user's and do not wrap, and they
\* lie in their pages as the bytes do in the file.
Fits(ph) ==
  /\ ph.filesz <= ph.memsz
  /\ ph.offset + ph.filesz <= Size
  /\ PageSize <= ph.vaddr /\ ph.vaddr + ph.memsz <= VaLimit
  /\ ph.vaddr % PageSize = ph.offset % PageSize

\* One segment ends before the first page of the other.
Apart(a, b) == \/ a.vaddr + a.memsz <= page_down(b.vaddr)
               \/ b.vaddr + b.memsz <= page_down(a.vaddr)

\* Every segment accepted so far fits, its span is on record, and no two
\* share a page.
Checked ==
  \A k \in DOMAIN phs :
    /\ phs[k].type = "LOAD" => ~(phs[k].w /\ phs[k].x) /\ phs[k].filesz <= phs[k].memsz
    /\ IsLoad(phs[k]) =>
         /\ Fits(phs[k]) /\ Span(phs[k]) \in loads
         /\ \A j \in DOMAIN phs : IsLoad(phs[j]) /\ j # k => Apart(phs[j], phs[k])

\* The loader maps, or would trip over while mapping, only an image that is
\* an executable in numbers that do not wrap.
AcceptsOnlyExecutables == rc \in {"OK", "PANIC"} => Executable

ElfInv == /\ phs \in Seq(Phdr) /\ eh \in Ehdr
          /\ rc \in {"CHECKING", "OK", "PANIC"} => Checked /\ (phs # <<>> => ehdr_check = "OK")
          /\ rc \in {"OK", "PANIC"} => phs # <<>> /\ Len(phs) = eh.phnum /\ entry_ok

-----------------------------------------------------------------------------
(* Machine words                                                           *)

\* The fields of a program header are machine words.
LEMMA Fields ==
  ASSUME ElfAssumption, NEW ph \in Phdr
  PROVE  /\ ph.offset \in Nat /\ ph.vaddr \in Nat /\ ph.filesz \in Nat /\ ph.memsz \in Nat
         /\ PageSize \in Nat /\ PageSize > 0 /\ VaLimit \in Nat /\ Word \in Nat /\ Size \in Nat
         /\ VaLimit + PageSize <= Word
  BY DEF ElfAssumption

\* Rounding down to a page loses less than a page.
LEMMA PageDown ==
  ASSUME PageSize \in Nat, PageSize > 0, NEW a \in Nat
  PROVE  page_down(a) \in Int /\ page_down(a) <= a /\ page_down(a) > a - PageSize
<1>1. a % PageSize \in Nat /\ a % PageSize < PageSize
  OBVIOUS
<1> QED BY <1>1 DEF page_down

\* A number below the machine word is not changed by it.
LEMMA NoWrap ==
  ASSUME NEW w \in Nat, NEW a \in Nat, a < w
  PROVE  a % w = a
  OBVIOUS

\* A number is its page and its place in it.
LEMMA PageAndRest ==
  ASSUME NEW P \in Nat, P > 0, NEW a \in Nat
  PROVE  a = P * (a \div P) + (a % P) /\ a \div P \in Nat /\ a % P \in 0..(P - 1)
  OBVIOUS

LEMMA TimesMonotone ==
  ASSUME NEW P \in Nat, NEW q \in Nat, NEW r \in Nat, q >= r
  PROVE  P * q >= P * r
  OBVIOUS

\* An address before the page of c is on another page than one from c on.
LEMMA PagesDiffer ==
  ASSUME NEW P \in Nat, P > 0, NEW a \in Nat, NEW b \in Nat, NEW c \in Nat,
         a < c - (c % P), c <= b
  PROVE  a \div P # b \div P
<1> DEFINE x == a \div P
           y == b \div P
           z == c \div P
<1>1. /\ a = P * x + (a % P) /\ x \in Nat /\ a % P \in 0..(P - 1)
      /\ b = P * y + (b % P) /\ y \in Nat /\ b % P \in 0..(P - 1)
      /\ c = P * z + (c % P) /\ z \in Nat /\ c % P \in 0..(P - 1)
  BY PageAndRest, Zenon
<1>2. P * x < P * z /\ P * z < P * y + P
  BY <1>1
<1>3. P * x \in Nat /\ P * y \in Nat /\ P * z \in Nat /\ P * y + P = P * (y + 1)
  BY <1>1
<1> HIDE DEF x, y, z
<1>4. ~(x >= z)
  BY <1>1, <1>2, <1>3, TimesMonotone
<1>5. ~(z >= y + 1)
  <2> SUFFICES ASSUME z >= y + 1 PROVE FALSE
    BY Zenon
  <2>1. P * z >= P * (y + 1)
    BY <1>1, TimesMonotone
  <2> QED BY <1>2, <1>3, <2>1
<1>6. x # y
  BY <1>1, <1>4, <1>5
<1> QED BY <1>6, Zenon DEF x, y

\* The end of a segment that fits is computed without wrapping, and rounds up
\* to a page boundary that is not below it.
LEMMA SpanCovers ==
  ASSUME ElfAssumption, NEW ph \in Phdr, Fits(ph)
  PROVE  /\ Span(ph).start = page_down(ph.vaddr)
         /\ Span(ph).end \in Int /\ ph.vaddr + ph.memsz <= Span(ph).end
<1>1. /\ ph.vaddr \in Nat /\ ph.memsz \in Nat
      /\ PageSize \in Nat /\ PageSize > 0 /\ VaLimit \in Nat /\ Word \in Nat
      /\ VaLimit + PageSize <= Word
  BY Fields, Zenon
<1>2. ph.vaddr + ph.memsz <= VaLimit
  BY Zenon DEF Fits
<1>3. PICK e \in Nat : e = ph.vaddr + ph.memsz
  BY <1>1
<1>4. e % Word = e /\ (e + PageSize - 1) % Word = e + PageSize - 1
  <2>1. e \in Nat /\ e < Word /\ e + PageSize - 1 \in Nat /\ e + PageSize - 1 < Word
    BY <1>1, <1>2, <1>3
  <2> QED BY ONLY <1>1, <2>1, NoWrap, Zenon
<1>5. page_up(e) = page_down(e + PageSize - 1)
  BY <1>4, Zenon DEF page_up
<1>6. page_up(e) \in Int /\ page_up(e) > e + PageSize - 1 - PageSize
  BY <1>1, <1>5, PageDown
<1> QED BY <1>1, <1>3, <1>4, <1>6 DEF Span

\* Of two segments, the one that ends before the first page of the other
\* shares no page with it.
LEMMA ApartPages ==
  ASSUME ElfAssumption, NEW a \in Phdr, NEW b \in Phdr,
         a.vaddr + a.memsz <= page_down(b.vaddr)
  PROVE  PageSet(a) \cap PageSet(b) = {}
<1>1. /\ a.vaddr \in Nat /\ a.memsz \in Nat /\ b.vaddr \in Nat /\ b.memsz \in Nat
      /\ PageSize \in Nat /\ PageSize > 0
  BY Fields, Zenon
<1>2. b.vaddr % PageSize \in Int
  BY <1>1
<1>3. ASSUME NEW v \in Addresses(a), NEW u \in Addresses(b)
      PROVE  v \div PageSize # u \div PageSize
  <2>1. v \in Nat /\ u \in Nat /\ v < b.vaddr - (b.vaddr % PageSize) /\ b.vaddr <= u
    BY <1>1, <1>2, <1>3 DEF Addresses, page_down
  <2> QED BY <1>1, <2>1, PagesDiffer, Zenon
<1> QED BY <1>3, Zenon DEF PageSet

\* Segments that fit and whose spans do not overlap share no page.
LEMMA SpansApart ==
  ASSUME ElfAssumption, NEW a \in Phdr, NEW b \in Phdr, Fits(a), Fits(b),
         ~Overlaps(Span(a), Span(b))
  PROVE  Apart(a, b) /\ Apart(b, a)
<1>1. /\ a.vaddr \in Nat /\ a.memsz \in Nat /\ b.vaddr \in Nat /\ b.memsz \in Nat
      /\ PageSize \in Nat /\ PageSize > 0
  BY Fields, Zenon
<1>2. page_down(a.vaddr) \in Int /\ page_down(b.vaddr) \in Int
  BY <1>1, PageDown, Zenon
<1>3. /\ Span(a).start = page_down(a.vaddr) /\ Span(b).start = page_down(b.vaddr)
      /\ Span(a).end \in Int /\ a.vaddr + a.memsz <= Span(a).end
      /\ Span(b).end \in Int /\ b.vaddr + b.memsz <= Span(b).end
  BY SpanCovers, Zenon
<1>4. Span(a).start >= Span(b).end \/ Span(b).start >= Span(a).end
  BY <1>2, <1>3 DEF Overlaps
<1> QED BY <1>1, <1>2, <1>3, <1>4 DEF Apart

-----------------------------------------------------------------------------
(* Validation                                                              *)

\* A program header that passes the checks fits, and is apart from every
\* segment whose span is on record.
LEMMA CheckSound ==
  ASSUME ElfAssumption, NEW ph \in Phdr, IsLoad(ph), phdr_check(ph) = "OK"
  PROVE  Fits(ph) /\ \A s \in loads : ~Overlaps(Span(ph), s)
<1>1. /\ ph.offset \in Nat /\ ph.vaddr \in Nat /\ ph.filesz \in Nat /\ ph.memsz \in Nat
      /\ PageSize \in Nat /\ VaLimit \in Nat /\ Size \in Nat
  BY Fields, Zenon
<1>2. /\ ~(ph.filesz > ph.memsz) /\ ph.vaddr % PageSize = ph.offset % PageSize
      /\ ~(ph.offset > Size \/ ph.filesz > Size - ph.offset)
      /\ ~(ph.vaddr < PageSize \/ ph.vaddr >= VaLimit)
      /\ ~(ph.memsz > VaLimit - ph.vaddr)
      /\ ~\E s \in loads : Overlaps(Span(ph), s)
  BY DEF phdr_check, IsLoad
<1> QED BY <1>1, <1>2 DEF Fits

\* Reading one more program header keeps the invariant.
LEMMA ValidateStep ==
  ASSUME ElfAssumption, ElfInv, elf64_validate
  PROVE  ElfInv'
<1>0. rc = "CHECKING" /\ phs \in Seq(Phdr) /\ Checked /\ eh' = eh /\ eh \in Ehdr
  BY Zenon DEF ElfInv, elf64_validate
<1>1. CASE rc' = ehdr_check /\ ehdr_check # "OK" /\ UNCHANGED <<phs, loads>>
  BY <1>0, <1>1, Zenon DEF ElfInv, ehdr_check
<1>2. CASE /\ ehdr_check = "OK"
           /\ \E ph \in Phdr :
                /\ phs' = Append(phs, ph)
                /\ IF phdr_check(ph) # "OK" THEN rc' = phdr_check(ph) /\ UNCHANGED loads
                   ELSE /\ loads' = IF IsLoad(ph) THEN loads \cup {Span(ph)} ELSE loads
                        /\ UNCHANGED rc
  <2>1. PICK ph \in Phdr :
             /\ phs' = Append(phs, ph)
             /\ IF phdr_check(ph) # "OK" THEN rc' = phdr_check(ph) /\ UNCHANGED loads
                ELSE /\ loads' = IF IsLoad(ph) THEN loads \cup {Span(ph)} ELSE loads
                     /\ UNCHANGED rc
    BY <1>2, Zenon
  <2>2. /\ phs' \in Seq(Phdr) /\ DOMAIN phs' = DOMAIN phs \cup {Len(phs) + 1}
        /\ phs'[Len(phs) + 1] = ph /\ Len(phs) + 1 \notin DOMAIN phs
        /\ \A k \in DOMAIN phs : phs'[k] = phs[k] /\ phs[k] \in Phdr
    BY <1>0, <2>1
  <2>3. CASE phdr_check(ph) # "OK"
    BY <1>0, <2>1, <2>2, <2>3, Zenon DEF ElfInv, phdr_check
  <2>4. CASE phdr_check(ph) = "OK"
    <3>1. /\ loads \subseteq loads' /\ (IsLoad(ph) => Span(ph) \in loads') /\ rc' = rc
          /\ ph.type = "LOAD" => ~(ph.w /\ ph.x) /\ ph.filesz <= ph.memsz
      <4>1. ph.filesz \in Nat /\ ph.memsz \in Nat
        BY Fields, Zenon
      <4> QED BY <2>1, <2>4, <4>1 DEF phdr_check
    <3>2. ASSUME IsLoad(ph)
          PROVE  /\ Fits(ph)
                 /\ \A k \in DOMAIN phs : IsLoad(phs[k]) => Apart(ph, phs[k]) /\ Apart(phs[k], ph)
      <4>1. Fits(ph) /\ \A s \in loads : ~Overlaps(Span(ph), s)
        BY <2>4, <3>2, CheckSound, Zenon
      <4>2. ASSUME NEW k \in DOMAIN phs, IsLoad(phs[k])
            PROVE  Apart(ph, phs[k]) /\ Apart(phs[k], ph)
        <5>1. phs[k] \in Phdr /\ Fits(phs[k]) /\ ~Overlaps(Span(ph), Span(phs[k]))
          BY <1>0, <2>2, <4>1, <4>2 DEF Checked
        <5> QED BY <4>1, <5>1, SpansApart, Zenon
      <4> QED BY <4>1, <4>2, Zenon
    <3>3. Checked'
      <4> SUFFICES ASSUME NEW k \in DOMAIN phs'
                   PROVE  /\ phs'[k].type = "LOAD" =>
                               ~(phs'[k].w /\ phs'[k].x) /\ phs'[k].filesz <= phs'[k].memsz
                          /\ IsLoad(phs'[k]) =>
                               /\ Fits(phs'[k]) /\ Span(phs'[k]) \in loads'
                               /\ \A j \in DOMAIN phs' : IsLoad(phs'[j]) /\ j # k
                                    => Apart(phs'[j], phs'[k])
        BY Zenon DEF Checked, Fits, Span, IsLoad, Apart, page_down, page_up
      <4>1. CASE k \in DOMAIN phs
        BY <1>0, <2>2, <3>1, <3>2, <4>1 DEF Checked
      <4>2. CASE k = Len(phs) + 1
        BY <2>2, <3>1, <3>2, <4>2
      <4> QED BY <2>2, <4>1, <4>2, Zenon
    <3>4. ehdr_check' = "OK"
      BY <1>0, <1>2, Zenon DEF ehdr_check
    <3> QED BY <1>0, <2>2, <3>1, <3>3, <3>4 DEF ElfInv
  <2> QED BY <2>3, <2>4, Zenon
<1>3. ehdr_check = "OK" \/ (phs = <<>> /\ ehdr_check # "OK")
  BY <1>0, Zenon DEF ElfInv
<1> QED BY <1>1, <1>2, <1>3, Zenon DEF elf64_validate

\* Loading an image keeps the invariant: it comes after the last header.
LEMMA LoadStep ==
  ASSUME ElfInv, elf64_load
  PROVE  ElfInv'
<1>1. /\ rc = "CHECKING" /\ phs # <<>> /\ Len(phs) = eh.phnum
      /\ UNCHANGED <<eh, phs, loads>>
      /\ rc' \in {"OK", "PANIC"} => entry_ok
  BY Zenon DEF elf64_load
<1>2. (Checked <=> Checked') /\ (entry_ok <=> entry_ok') /\ ehdr_check' = ehdr_check
  BY <1>1, Zenon DEF Checked, entry_ok, ehdr_check
<1> QED BY <1>1, <1>2, Zenon DEF ElfInv

-----------------------------------------------------------------------------
(* What an accepted image is                                               *)

\* An address and an offset with the same place in their pages differ by
\* whole pages.
LEMMA SamePlace ==
  ASSUME NEW P \in Nat, P > 0, NEW a \in Nat, NEW b \in Nat, a % P = b % P
  PROVE  (a - b) % P = 0
<1>1. /\ a = P * (a \div P) + (a % P) /\ a \div P \in Nat /\ a % P \in Nat
      /\ b = P * (b \div P) + (b % P) /\ b \div P \in Nat
  BY PageAndRest
<1>2. PICK d \in Int : d = (a \div P) - (b \div P)
  BY <1>1
<1>3. a - b = P * d
  BY <1>1, <1>2
<1>4. (P * d) % P = 0
  OBVIOUS
<1> QED BY <1>3, <1>4, Zenon

\* What the invariant says of an accepted image makes it an executable.
LEMMA CheckedIsExecutable ==
  ASSUME ElfAssumption, ElfInv, rc \in {"OK", "PANIC"}
  PROVE  Executable
<1> DEFINE segs == {k \in DOMAIN phs : phs[k].type = "LOAD"}
           full == {k \in segs : phs[k].memsz > 0}
<1>1. /\ phs \in Seq(Phdr) /\ eh \in Ehdr /\ Checked /\ ehdr_check = "OK"
      /\ Len(phs) = eh.phnum /\ entry_ok
  BY Zenon DEF ElfInv
<1>2. /\ Size \in Nat /\ PhnumMax \in Nat /\ PhdrSize \in Nat
      /\ PageSize \in Nat /\ PageSize > 0 /\ VaLimit \in Nat /\ Word \in Nat
      /\ VaLimit + PageSize <= Word
      /\ eh.entry \in Nat /\ eh.phoff \in Nat /\ eh.phnum \in Nat
  BY <1>1 DEF ElfAssumption
<1>3. eh.ident /\ eh.phnum \in 1..PhnumMax /\ eh.phoff + eh.phnum * PhdrSize <= Size
  <2>1. /\ eh.ident /\ eh.phnum # 0 /\ ~(eh.phnum > PhnumMax)
        /\ ~(eh.phoff > Size) /\ ~(eh.phnum * PhdrSize > Size - eh.phoff)
    BY <1>1, Zenon DEF ehdr_check
  <2>2. eh.phnum * PhdrSize \in Nat
    BY <1>2
  <2> QED BY <1>2, <2>1, <2>2
<1>4. ASSUME NEW k \in DOMAIN phs
      PROVE  /\ phs[k] \in Phdr
             /\ phs[k].offset \in Nat /\ phs[k].vaddr \in Nat
             /\ phs[k].filesz \in Nat /\ phs[k].memsz \in Nat
             /\ k \in full <=> IsLoad(phs[k])
  <2>1. phs[k] \in Phdr
    BY <1>1, <1>4
  <2> QED BY <2>1, Fields DEF IsLoad
<1>5. \A k \in segs : ~(phs[k].w /\ phs[k].x) /\ phs[k].filesz <= phs[k].memsz
  BY <1>1, Zenon DEF Checked
<1>6. ASSUME NEW k \in full
      PROVE  /\ phs[k].offset + phs[k].filesz <= Size
             /\ Addresses(phs[k]) \subseteq PageSize..(VaLimit - 1)
             /\ (phs[k].vaddr - phs[k].offset) % PageSize = 0
  <2>1. Fits(phs[k])
    BY <1>1, <1>4, <1>6, Zenon DEF Checked
  <2>2. Addresses(phs[k]) \subseteq PageSize..(VaLimit - 1)
    BY <1>2, <1>4, <2>1 DEF Fits, Addresses
  <2>3. (phs[k].vaddr - phs[k].offset) % PageSize = 0
    BY <1>2, <1>4, <2>1, SamePlace, Zenon DEF Fits
  <2> QED BY <2>1, <2>2, <2>3, Zenon DEF Fits
<1>7. ASSUME NEW j \in full, NEW k \in full, j # k
      PROVE  PageSet(phs[j]) \cap PageSet(phs[k]) = {}
  <2>1. phs[j] \in Phdr /\ phs[k] \in Phdr /\ Apart(phs[j], phs[k])
    BY <1>1, <1>4, <1>7 DEF Checked
  <2> QED BY <2>1, ApartPages DEF Apart
<1>8. \E k \in full : phs[k].x /\ eh.entry \in FromFile(phs[k])
  <2>1. PICK k \in DOMAIN phs :
          /\ IsLoad(phs[k]) /\ phs[k].x
          /\ eh.entry >= phs[k].vaddr /\ eh.entry < (phs[k].vaddr + phs[k].filesz) % Word
    BY <1>1, Zenon DEF entry_ok
  <2>2. k \in full /\ Fits(phs[k]) /\ phs[k].vaddr \in Nat /\ phs[k].filesz \in Nat
        /\ phs[k].memsz \in Nat
    BY <1>1, <1>4, <2>1, Zenon DEF Checked
  <2>3. /\ phs[k].vaddr + phs[k].filesz \in Nat
        /\ phs[k].vaddr + phs[k].filesz < Word
    BY <1>2, <2>2 DEF Fits
  <2>4. (phs[k].vaddr + phs[k].filesz) % Word = phs[k].vaddr + phs[k].filesz
    BY ONLY <1>2, <2>3, NoWrap, Zenon
  <2>5. eh.entry \in FromFile(phs[k])
    BY <1>2, <2>1, <2>2, <2>4 DEF FromFile
  <2> QED BY <2>1, <2>2, <2>5, Zenon
<1> QED BY <1>1, <1>3, <1>5, <1>6, <1>7, <1>8 DEF Executable

\* elf64_validate lets through only executables, whatever the fields of the
\* headers hold: the bytes of every segment are in the file, its addresses
\* are the user's, no page is in two segments, and the entry point is code.
THEOREM ValidatorSound == ASSUME ElfAssumption PROVE Spec => []AcceptsOnlyExecutables
<1>1. Init => ElfInv
  BY DEF Init, ElfInv, Checked
<1>2. ElfInv /\ [Next]_vars => ElfInv'
  <2> SUFFICES ASSUME ElfInv, [Next]_vars PROVE ElfInv'
    BY Zenon
  <2>1. CASE elf64_validate
    BY <2>1, ValidateStep, Zenon
  <2>2. CASE elf64_load
    BY <2>2, LoadStep, Zenon
  <2>3. CASE UNCHANGED vars
    BY <2>3, Zenon DEF vars, ElfInv, Checked, entry_ok, ehdr_check
  <2> QED BY <2>1, <2>2, <2>3, Zenon DEF Next
<1>3. ElfInv => AcceptsOnlyExecutables
  BY CheckedIsExecutable, Zenon DEF AcceptsOnlyExecutables
<1> QED BY <1>1, <1>2, <1>3, PTL DEF Spec
=============================================================================
