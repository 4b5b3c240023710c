------------------------------ MODULE MCMemory ------------------------------
(***************************************************************************)
(* Memory for TLC: the allocators (Heap), page tables (Paging), program    *)
(* files (Elf) and program arguments (Args), side by side.  The four do    *)
(* not interact, so one of them moves in a behaviour while the others stay *)
(* in an initial state.                                                    *)
(*                                                                         *)
(* Page tables have three levels of two entries: eight pages of two bytes, *)
(* four of them the user's, the last of those the stack.  Program headers  *)
(* have words of four bits.  Arguments share a page of 32 bytes.           *)
(***************************************************************************)
EXTENDS Heap

CONSTANTS MemBytes,  \* end of the largest memory
          Proc, NFrames, MaxTaken, Nothing, Fault, NoSlot

VARIABLES machine,                           \* the one that moves
          mem, as, taken,                    \* Paging
          eh, phs, loads, verdict, pages,    \* Elf
          argv, envp, outcome, page, rsp     \* Args

tables == <<mem, as, taken>>
image == <<eh, phs, loads, verdict, pages>>
stack == <<argv, envp, outcome, page, rsp>>

-----------------------------------------------------------------------------
(* Instances                                                               *)

\* Small objects of two and of three bytes.
TwoClasses == <<2, 3>>

Entry(base, len, usable) == [base |-> base, len |-> len, usable |-> usable]

\* All of memory is usable, except for a hole or a reserved entry of one
\* byte or a page, at or next to any page boundary.
AllMaps ==
  LET gap == {<<b, n>> \in (1..MemBytes) \X {1, PAGE_SIZE} :
                b + n <= MemBytes /\ b % PAGE_SIZE \in {0, 1, PAGE_SIZE - 1}}
  IN {m \in {<<Entry(0, g[1], TRUE), Entry(g[1] + g[2], MemBytes - g[1] - g[2], TRUE)>> : g \in gap}
            \cup {<<Entry(g[1], g[2], FALSE), Entry(0, MemBytes, TRUE)>> : g \in gap}
      : Bootable(m)}

Headers == [ident : BOOLEAN, entry : {3, 4}, phoff : {2, 5, 15}, phnum : {0, 1, 2, 3}]

\* Segments of text at every edge of the numbers, and of data.
Segment(type, w, x, offset, vaddr, filesz, memsz) ==
  [type |-> type, w |-> w, x |-> x, offset |-> offset, vaddr |-> vaddr, filesz |-> filesz, memsz |-> memsz]

Segments == [type : {"LOAD"}, w : {FALSE}, x : {TRUE}, offset : {0, 1, 4, 15}, vaddr : {0, 2, 3, 7, 15},
             filesz : {0, 1, 3, 15}, memsz : {0, 1, 3, 5, 15}]
            \cup [type : {"LOAD", "NOTE"}, w : {TRUE}, x : BOOLEAN, offset : {0, 2}, vaddr : {4, 6},
                  filesz : {0, 2}, memsz : {1, 2}]

E == INSTANCE Elf WITH PageSize <- 2, VaLimit <- 8, Word <- 16, Size <- 6, EhdrSize <- 2, PhdrSize <- 2,
                       PhnumMax <- 2, Ehdr <- Headers, Phdr <- Segments, rc <- verdict

\* A small program, one with data and zeroes, and one that meets the stack.
Text == Segment("LOAD", FALSE, TRUE, 0, 2, 2, 2)
Data == Segment("LOAD", TRUE, FALSE, 2, 4, 1, 2)
Programs == {E!LoadedPages(segs) :
               segs \in {<<Text>>, <<Text, Data>>, <<Segment("LOAD", FALSE, TRUE, 0, 6, 2, 2)>>}}

\* A byte of each page, ranges over two pages, and one that wraps around.
Buffers == {<<2, 1>>, <<5, 1>>, <<6, 1>>, <<3, 2>>, <<5, 3>>, <<4, 14>>}

P == INSTANCE Paging WITH Levels <- 3, Fan <- 2, PageSize <- 2, StackPages <- 1, Value <- {77}, Buffer <- Buffers

\* At most three strings of at most three bytes, and every kind of fault.
Vectors == BoundedSeq({<<>>, <<1>>, <<2, 3, 15>>}, 3)
   \cup {<<Fault>>, <<<<1>>, NoSlot>>, <<<<1, 1, 1, 1>>>>, <<<<1>>, <<1>>, <<1>>, <<1>>>>,
         <<<<1>>, <<1>>, <<1>>, Fault>>, <<<<1>>, <<1>>, <<1>>, NoSlot>>}

A == INSTANCE Args WITH PageSize <- 32, PageVa <- 64, WordBytes <- 2, Base <- 16, Align <- 4, Clear <- 4,
                        ArgMaxCount <- 3, ArgMaxBytes <- 4, Vector <- Vectors, rc <- outcome

ASSUME E!ElfAssumption /\ P!PagingAssumption /\ A!ArgsAssumption

-----------------------------------------------------------------------------
(* Side by side                                                            *)

MCInit ==
  /\ machine \in {"heap", "paging", "elf", "args"}
  /\ machine = "heap" \/ (machine # "heap" /\ map = CHOOSE m \in Maps : TRUE)
  /\ machine = "paging" \/ (machine # "paging" /\ taken = {1, 2})
  /\ machine = "elf" \/ (machine # "elf" /\ eh = CHOOSE h \in Headers : TRUE)
  /\ machine = "args" \/ (machine # "args" /\ argv = <<>> /\ envp = <<>>)
  /\ Init /\ P!Init /\ E!Init /\ A!Init

MCNext ==
  \/ machine = "heap" /\ Next /\ UNCHANGED <<machine, tables, image, stack>>
  \/ machine = "paging" /\ P!Next /\ UNCHANGED <<machine, vars, image, stack>>
  \/ machine = "elf" /\ E!Next /\ UNCHANGED <<machine, vars, tables, stack>>
  \/ machine = "args" /\ A!Next /\ UNCHANGED <<machine, vars, tables, image>>

MCSpec == MCInit /\ [][MCNext]_<<vars, machine, tables, image, stack>>

-----------------------------------------------------------------------------
(* Properties of the instances                                             *)

\* Page tables own every frame they use exactly once (Paging).
FramesExact == machine = "paging" => P!FramesExact

\* Page tables give every process memory of its own (Paging).
IsAddressSpaces == P!IsAddressSpaces

\* Program files are judged and loaded as they are written (Elf).
LoadedAsWritten == machine = "elf" => E!LoadedAsWritten

\* Programs start with the arguments that were passed (Args).
ArgsArrive == machine = "args" => A!ArgsArrive
=============================================================================
