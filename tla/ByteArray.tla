----------------------------- MODULE ByteArray ------------------------------
(***************************************************************************)
(* What an open file promises its users: a sequence of bytes and an        *)
(* offset.  Writing past the end fills the gap with zeros, and a call that *)
(* fails changes nothing.                                                  *)
(***************************************************************************)
EXTENDS Integers, Sequences

CONSTANTS Data,    \* byte sequences that are written
          MaxSize  \* the size no file exceeds

VARIABLES bytes, off,
          append,  \* is every write at the end?
          got      \* what a read has just returned

vars == <<bytes, off, append, got>>

Lesser(m, n) == IF m < n THEN m ELSE n
Greater(m, n) == IF m > n THEN m ELSE n

Init == bytes = <<>> /\ off = 0 /\ append \in BOOLEAN /\ got = <<>>

Write(data) ==
  LET at == IF append THEN Len(bytes) ELSE off
      end == at + Len(data)
  IN /\ end <= MaxSize
     /\ bytes' = [i \in 1..Greater(end, Len(bytes)) |->
                    IF at < i /\ i <= end THEN data[i - at]
                    ELSE IF i <= Len(bytes) THEN bytes[i] ELSE 0]
     /\ off' = end
     /\ got' = <<>>
     /\ UNCHANGED append

Read(len) == /\ got' = SubSeq(bytes, off + 1, Lesser(off + len, Len(bytes)))
             /\ off' = off + Len(got')
             /\ UNCHANGED <<bytes, append>>

Seek == off' \in Nat /\ got' = <<>> /\ UNCHANGED <<bytes, append>>

Truncate(size) ==
  /\ bytes' = [i \in 1..size |-> IF i <= Len(bytes) THEN bytes[i] ELSE 0]
  /\ got' = <<>>
  /\ UNCHANGED <<off, append>>

Next == \/ \E data \in Data : Write(data)
        \/ \E len \in 0..MaxSize : Read(len)
        \/ Seek
        \/ \E size \in 0..MaxSize : Truncate(size)

Spec == Init /\ [][Next]_vars
=============================================================================
