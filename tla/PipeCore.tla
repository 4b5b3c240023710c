------------------------------ MODULE PipeCore ------------------------------
(***************************************************************************)
(* The ring buffer of kernel/fs/pipe_core.c, shared by pipes and local     *)
(* sockets.  A ring is a record of struct pipe_core's head, count and      *)
(* bytes; a copy in or out is the sequence of bytes it moves.              *)
(***************************************************************************)
EXTENDS Integers, Sequences

CONSTANTS Cap,   \* pc->cap
          Byte,  \* what a ring holds
          Zero   \* the byte kzalloc fills it with

Ring == [head: 0..(Cap - 1), count: 0..Cap, buf: [0..(Cap - 1) -> Byte]]

pipe_core_init == [head |-> 0, count |-> 0, buf |-> [i \in 0..(Cap - 1) |-> Zero]]

pipe_core_space(pc) == Cap - pc.count

\* How many of len bytes a call can move when at most limit can be moved.
Transfer(len, limit) == IF len < limit THEN len ELSE limit

\* Faulty: copies the wrapped part from where the first part began.
Bug_read_no_wrap(pc, len) ==
  LET n == Transfer(len, pc.count)
      first == Transfer(n, Cap - pc.head)
  IN [dst |-> [i \in 1..n |-> IF i <= first THEN pc.buf[pc.head + i - 1]
                                            ELSE pc.buf[pc.head]],
      pc |-> [pc EXCEPT !.head = (pc.head + n) % Cap, !.count = pc.count - n]]

\* Copies out up to len bytes in two runs, the second from the start of the
\* buffer.
pipe_core_read(pc, len) ==
  LET n == Transfer(len, pc.count)
      first == Transfer(n, Cap - pc.head)
  IN [dst |-> [i \in 1..n |-> IF i <= first THEN pc.buf[pc.head + i - 1]
                                            ELSE pc.buf[i - first - 1]],
      pc |-> [pc EXCEPT !.head = (pc.head + n) % Cap, !.count = pc.count - n]]

\* Copies in as much of src as there is space for, likewise.
pipe_core_write(pc, src) ==
  LET n == Transfer(Len(src), pipe_core_space(pc))
      tail == (pc.head + pc.count) % Cap
      first == Transfer(n, Cap - tail)
  IN [n |-> n,
      pc |-> [pc EXCEPT
        !.buf = [i \in 0..(Cap - 1) |->
                   IF tail <= i /\ i < tail + first THEN src[i - tail + 1]
                   ELSE IF i < n - first THEN src[first + i + 1]
                   ELSE pc.buf[i]],
        !.count = pc.count + n]]

\* The bytes a ring holds, oldest first.
Contents(pc) == [i \in 1..pc.count |-> pc.buf[(pc.head + i - 1) % Cap]]
=============================================================================
