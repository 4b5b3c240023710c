-------------------------------- MODULE Args --------------------------------
(***************************************************************************)
(* The arguments of a program: argpack_copy and stack_build of             *)
(* kernel/proc/process.c.                                                  *)
(*                                                                         *)
(* execve copies two vectors of strings out of the caller's memory and     *)
(* lays them out in the top page of the new stack, byte by byte: strings   *)
(* from the top down, then a block of words that points at them.  A word   *)
(* takes WordBytes bytes of base Base, low byte first; a string is a       *)
(* sequence of bytes without its NUL.                                      *)
(***************************************************************************)
EXTENDS Integers, Sequences, SequencesExt, FiniteSets, FiniteSetsExt

CONSTANTS PageSize,
          PageVa,      \* USER_STACK_TOP - PAGE_SIZE
          WordBytes,   \* 8
          Base,        \* values of a byte
          Align,       \* 16
          Clear,       \* 64 bytes at the base of the page stay unused
          ArgMaxCount, \* ARG_MAX_COUNT
          ArgMaxBytes, \* ARG_MAX_BYTES, the NUL included
          Vector,      \* vectors to try: sequences of strings and faults
          Fault,       \* in place of a string that the caller cannot read
          NoSlot       \* where the vector itself cannot be read

ArgsAssumption ==
  /\ PageVa % Align = 0 /\ PageSize % Align = 0 /\ PageVa > PageSize
  /\ PageVa + PageSize < Base ^ WordBytes

VARIABLES argv, envp,  \* what the caller passes
          rc,          \* "" while execve runs, then its verdict
          page, rsp    \* the top page of the stack, and the stack pointer

vars == <<argv, envp, rc, page, rsp>>

Init == /\ argv \in Vector /\ envp \in Vector
        /\ rc = "" /\ page = <<>> /\ rsp = 0

\* The first thing wrong with a vector, in the order in which it is read: the
\* slot, the count, the string, its length.
argpack_copy(vec) ==
  LET of(i) == IF vec[i] = NoSlot THEN "EFAULT" ELSE IF i > ArgMaxCount THEN "E2BIG"
               ELSE IF vec[i] = Fault THEN "EFAULT" ELSE IF Len(vec[i]) + 1 > ArgMaxBytes THEN "E2BIG"
               ELSE "OK"
      wrong == {i \in DOMAIN vec : of(i) # "OK"}
  IN IF wrong = {} THEN "OK" ELSE of(Min(wrong))

\* Where each string starts in the page; negative from the one on that does
\* not fit.
Starts(strs) ==
  LET at[k \in 0..Len(strs)] == IF k = 0 THEN PageSize ELSE at[k - 1] - (Len(strs[k]) + 1)
  IN [k \in 0..Len(strs) |-> at[k]]

\* Faulty: the block is counted without its last two words.
Bug_nvec_no_auxv(argc, envc) == 1 + argc + 1 + envc + 1

\* argc, argv[], NULL, envp[], NULL and the pair that ends auxv.
nvec(argc, envc) == 1 + argc + 1 + envc + 1 + 2

\* The page: zeroes, the strings, and the block of words at offset o over
\* them.
Page(strs, start, words, o) ==
  LET inString(i, k) == start[k] <= i /\ i <= start[k] + Len(strs[k])
      digit(w, j) == (w \div (Base ^ j)) % Base
  IN [i \in 0..(PageSize - 1) |->
        IF o <= i /\ i < o + Len(words) * WordBytes
        THEN digit(words[(i - o) \div WordBytes + 1], (i - o) % WordBytes)
        ELSE IF \E k \in DOMAIN strs : inString(i, k)
        THEN LET k == CHOOSE k \in DOMAIN strs : inString(i, k)
             IN IF i - start[k] < Len(strs[k]) THEN strs[k][i - start[k] + 1] ELSE 0
        ELSE 0]

stack_build ==
  LET strs == argv \o envp
      start == Starts(strs)
      uaddr == [k \in DOMAIN strs |-> PageVa + start[k]]
      top == PageVa + start[Len(strs)] - nvec(Len(argv), Len(envp)) * WordBytes
      sp == top - (top % Align)
      words == <<Len(argv)>> \o SubSeq(uaddr, 1, Len(argv)) \o <<0>>
                 \o SubSeq(uaddr, Len(argv) + 1, Len(strs)) \o <<0, 0, 0>>
  IN IF start[Len(strs)] < 0 \/ sp < PageVa + Clear THEN rc' = "E2BIG" /\ UNCHANGED <<page, rsp>>
     ELSE /\ rc' = "OK" /\ rsp' = sp
          /\ page' = Page(strs, start, words, sp - PageVa)

\* The rest of execve (reading the file, the new image) is Vfs and Paging.
process_execve ==
  /\ rc = ""
  /\ IF argpack_copy(argv) # "OK" THEN rc' = argpack_copy(argv) /\ UNCHANGED <<page, rsp>>
     ELSE IF argpack_copy(envp) # "OK" THEN rc' = argpack_copy(envp) /\ UNCHANGED <<page, rsp>>
     ELSE stack_build
  /\ UNCHANGED <<argv, envp>>

Next == process_execve

Spec == Init /\ [][Next]_vars

-----------------------------------------------------------------------------
(* Properties                                                              *)

\* What the new program reads: a byte (anything above the page is not its
\* own), a word, and a string up to its NUL.
ByteAt(a) == IF a < PageVa + PageSize THEN page[a - PageVa] ELSE Base - 1
WordAt(a) == SumSet({ByteAt(a + j) * Base ^ j : j \in 0..(WordBytes - 1)} \ {0})
StringAt(a) ==
  LET len == Min({n \in 0..(PageVa + PageSize - a) : ByteAt(a + n) = 0 \/ a + n = PageVa + PageSize})
  IN [i \in 1..len |-> ByteAt(a + i - 1)]

\* A program starts with exactly the arguments that were passed: from an
\* aligned stack pointer it reads back the counts, every string and both
\* terminators, however little room the page leaves between the strings and
\* the words.  Only what does not fit, or exceeds a limit, is turned away.
ArgsArrive ==
  LET argc == Len(argv)
      envc == Len(envp)
      room == PageSize - Starts(argv \o envp)[argc + envc] + (argc + envc + 5) * WordBytes + Clear + Align
      faults == {Fault, NoSlot}
  IN /\ rc = "OK" =>
          /\ rsp % Align = 0 /\ WordAt(rsp) = argc
          /\ \A i \in 1..argc : StringAt(WordAt(rsp + i * WordBytes)) = argv[i]
          /\ WordAt(rsp + (argc + 1) * WordBytes) = 0
          /\ \A i \in 1..envc : StringAt(WordAt(rsp + (argc + 1 + i) * WordBytes)) = envp[i]
          /\ \A i \in 2..4 : WordAt(rsp + (argc + envc + i) * WordBytes) = 0
     /\ rc = "EFAULT" => \E f \in faults : f \in Range(argv) \cup Range(envp)
     /\ rc = "E2BIG" => \/ \E v \in {argv, envp} : Len(v) > ArgMaxCount
                        \/ \E v \in {argv, envp} : \E i \in DOMAIN v : v[i] \notin faults /\ Len(v[i]) >= ArgMaxBytes
                        \/ room > PageSize
=============================================================================
