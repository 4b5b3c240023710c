----------------------------- MODULE MCBlockDev -----------------------------
(* Instances of BlockDev for TLC. *)
EXTENDS BlockDev, TLC

\* Blocks, and what callers write to them, are interchangeable.
Symmetry == Permutations(Lba) \cup Permutations(Value)

\* What later steps can depend on when requests given up are lost: not the
\* frames of empty entries, the descriptors of lost chains, the ring slots
\* that have been consumed, nor the header and status of the last request.
View ==
  LET busy == call # None
      live(e) == e \in Range(lru) \/ (busy /\ call.entry = e)
  IN <<disk, lba, lru, [e \in Entry |-> IF live(e) THEN data[e] ELSE Zero], known, call,
       IF busy THEN <<hdr, status, vq.desc>> ELSE [d \in Desc |-> vq.desc[d].next],
       vq.free_head, vq.num_free, vq.avail.idx, vq.used.idx, vq.last_used, seen, work,
       Outstanding, given_up, panicked>>
=============================================================================
