------------------------------- MODULE Socket -------------------------------
(***************************************************************************)
(* A pair of connected local sockets (kernel/fs/socket.c): two rings of    *)
(* pipe_core.c between two ends, each end one open file description.       *)
(* chan[e] is written by end e and read by end 1 - e; its parts are the    *)
(* variables core, read_wait and write_wait, functions of e.               *)
(*                                                                         *)
(* As in Pipe, an action is one interrupts-off section, a thread on a wait *)
(* queue is blocked, and fd[e] is the set of processes that have end e     *)
(* open.  A byte is <<t, i>>: the i-th byte t has asked to write to a      *)
(* channel.                                                                *)
(***************************************************************************)
EXTENDS Integers, Sequences, SequencesExt, FiniteSets

CONSTANTS Thread,    \* processes, one thread each
          MayRead,   \* the ones whose program reads from an end, by end
          MayWrite,  \* the ones whose program writes to it
          Cap,       \* SOCK_CAPACITY
          MaxLen,    \* longest read or write
          MaxBytes,  \* bound on the bytes a thread asks to write to a channel
          None       \* no call in progress

End == {0, 1}

Call == [op: {"read", "write"}, end: End, len: 1..MaxLen, done: 0..MaxLen]
          \cup [op: {"put"}, end: End]

SocketAssumption ==
  /\ IsFiniteSet(Thread)
  /\ MayRead \in [End -> SUBSET Thread] /\ MayWrite \in [End -> SUBSET Thread]
  /\ Cap \in Nat \ {0} /\ MaxLen \in Nat \ {0} /\ MaxBytes \in Nat
  /\ None \notin Thread \cup Call

Zero == <<None, 0>>
Byte == (Thread \X (1..MaxBytes)) \cup {Zero}

INSTANCE PipeCore

VARIABLES exists,      \* struct socket_pair is allocated
          core,        \* pair->chan[e].core
          read_wait,   \* threads blocked reading from chan[e], oldest first
          write_wait,  \* threads blocked writing to chan[e]
          end_open,    \* pair->end_open[e]
          fd,          \* who has end e open: the refs of its file
          call,        \* the read, write or last close a thread is inside
          sent,        \* bytes of t's finished writes to chan[e]
          received,    \* all bytes read from chan[e] so far
          eof          \* some read from chan[e] has returned 0

vars == <<exists, core, read_wait, write_wait, end_open, fd, call, sent, received, eof>>

In(t, op) == call[t] # None /\ call[t].op = op

\* A thread that is in a call and can run.
Awake(t, op) ==
  In(t, op) /\ \A e \in End : t \notin Range(read_wait[e]) \cup Range(write_wait[e])

Return(t) == call' = [call EXCEPT ![t] = None]

\* A wake is modelled by its effect on the queue.
wq_wake_one(q) == IF q = <<>> THEN q ELSE Tail(q)

wq_wake_all(q) == <<>>

wq_push(q, t) == Append(q, t)

-----------------------------------------------------------------------------
(* Opening, sharing and closing                                            *)

Init ==
  /\ exists = FALSE
  /\ core = [e \in End |-> pipe_core_init]
  /\ read_wait = [e \in End |-> <<>>] /\ write_wait = [e \in End |-> <<>>]
  /\ end_open = [e \in End |-> FALSE]
  /\ fd = [e \in End |-> {}]
  /\ call = [t \in Thread |-> None]
  /\ sent = [x \in End \X Thread |-> 0]
  /\ received = [e \in End |-> <<>>]
  /\ eof = [e \in End |-> FALSE]

\* Returns both ends to the caller.  When memory runs out nothing is kept.
socketpair_open(t) ==
  /\ ~exists
  /\ exists' = TRUE
  /\ core' = [e \in End |-> pipe_core_init]
  /\ read_wait' = [e \in End |-> <<>>] /\ write_wait' = [e \in End |-> <<>>]
  /\ end_open' = [e \in End |-> TRUE]
  /\ fd' = [e \in End |-> {t}]
  /\ sent' = [x \in End \X Thread |-> 0]
  /\ received' = [e \in End |-> <<>>]
  /\ eof' = [e \in End |-> FALSE]
  /\ UNCHANGED call

\* process_fork takes a reference on every open description for the child.
fork(t, u) ==
  /\ t \in fd[0] \cup fd[1] /\ call[t] = None
  /\ u \notin fd[0] \cup fd[1] /\ call[u] = None
  /\ fd' = [e \in End |-> IF t \in fd[e] THEN fd[e] \cup {u} ELSE fd[e]]
  /\ UNCHANGED <<exists, core, read_wait, write_wait, end_open, call, sent, received, eof>>

\* vfs_file_put drops a reference and, if it was the last, goes on to release
\* the description after interrupts are back on.
close(t, e) ==
  /\ t \in fd[e] /\ call[t] = None
  /\ fd' = [fd EXCEPT ![e] = @ \ {t}]
  /\ call' = [call EXCEPT ![t] = IF fd'[e] = {} THEN [op |-> "put", end |-> e] ELSE None]
  /\ UNCHANGED <<exists, core, read_wait, write_wait, end_open, sent, received, eof>>

\* Faulty: the first end to go frees the pair.
Bug_release_frees(t) ==
  /\ In(t, "put")
  /\ LET e == call[t].end IN
       /\ end_open' = [end_open EXCEPT ![e] = FALSE]
       /\ write_wait' = [write_wait EXCEPT ![e] = wq_wake_all(@)]
       /\ read_wait' = [read_wait EXCEPT ![1 - e] = wq_wake_all(@)]
       /\ exists' = FALSE
  /\ Return(t)
  /\ UNCHANGED <<core, fd, sent, received, eof>>

\* Marks the end closed, wakes the writers of chan[self] and the readers of
\* chan[1 - self], and frees the pair with its second end.
socket_release(t) ==
  /\ In(t, "put")
  /\ LET e == call[t].end IN
       /\ end_open' = [end_open EXCEPT ![e] = FALSE]
       /\ write_wait' = [write_wait EXCEPT ![e] = wq_wake_all(@)]
       /\ read_wait' = [read_wait EXCEPT ![1 - e] = wq_wake_all(@)]
       /\ exists' = \E x \in End : end_open'[x]
  /\ Return(t)
  /\ UNCHANGED <<core, fd, sent, received, eof>>

-----------------------------------------------------------------------------
(* Reading and writing                                                     *)

\* The other end: its channel is the one end e reads from.
peer(e) == 1 - e

\* A read that found nothing is at the end of the stream.
EndOfStream(e, dst) == dst = <<>> /\ ~end_open[peer(e)]

\* One pass of socket_read's loop on chan[1 - e].
read_pass(t, e, len) ==
  LET c == peer(e)
      r == pipe_core_read(core[c], len)
  IN
  /\ \/ /\ EndOfStream(e, r.dst)
        /\ eof' = [eof EXCEPT ![c] = TRUE]
        /\ Return(t)
        /\ UNCHANGED <<core, read_wait, write_wait, received>>
     \/ /\ ~EndOfStream(e, r.dst) /\ r.dst # <<>>
        /\ core' = [core EXCEPT ![c] = r.pc]
        /\ received' = [received EXCEPT ![c] = @ \o r.dst]
        /\ write_wait' = [write_wait EXCEPT ![c] = wq_wake_one(@)]
        /\ Return(t)
        /\ UNCHANGED <<read_wait, eof>>
     \/ /\ ~EndOfStream(e, r.dst) /\ r.dst = <<>>
        /\ read_wait' = [read_wait EXCEPT ![c] = wq_push(@, t)]
        /\ call' = [call EXCEPT ![t] = [op |-> "read", end |-> e, len |-> len, done |-> 0]]
        /\ UNCHANGED <<core, write_wait, received, eof>>
  /\ UNCHANGED <<exists, end_open, fd, sent>>

socket_read(t, e, len) ==
  /\ t \in fd[e] \cap MayRead[e] /\ call[t] = None
  /\ read_pass(t, e, len)

socket_read_again(t) ==
  /\ Awake(t, "read")
  /\ read_pass(t, call[t].end, call[t].len)

\* src + done, len - done: the bytes the call has yet to write.
Rest(t, e, len, done) == [i \in 1..(len - done) |-> <<t, sent[e, t] + done + i>>]

\* One pass of socket_write's loop on chan[e].
write_pass(t, e, len, done) ==
  LET w == pipe_core_write(core[e], Rest(t, e, len, done)) IN
  /\ \/ /\ ~end_open[peer(e)]
        /\ sent' = [sent EXCEPT ![e, t] = @ + done]
        /\ Return(t)
        /\ UNCHANGED <<core, read_wait, write_wait>>
     \/ /\ end_open[peer(e)]
        /\ core' = [core EXCEPT ![e] = w.pc]
        /\ read_wait' = [read_wait EXCEPT ![e] = IF w.n > 0 THEN wq_wake_one(@) ELSE @]
        /\ \/ /\ done + w.n = len
              /\ sent' = [sent EXCEPT ![e, t] = @ + len]
              /\ Return(t)
              /\ UNCHANGED write_wait
           \/ /\ done + w.n # len
              /\ write_wait' = [write_wait EXCEPT ![e] = wq_push(@, t)]
              /\ call' = [call EXCEPT ![t] = [op |-> "write", end |-> e, len |-> len,
                                              done |-> done + w.n]]
              /\ UNCHANGED sent
  /\ UNCHANGED <<exists, end_open, fd, received, eof>>

socket_write(t, e, len) ==
  /\ t \in fd[e] \cap MayWrite[e] /\ call[t] = None
  /\ sent[e, t] + len <= MaxBytes
  /\ write_pass(t, e, len, 0)

socket_write_again(t) ==
  /\ Awake(t, "write")
  /\ write_pass(t, call[t].end, call[t].len, call[t].done)

Next ==
  \E t \in Thread :
    \/ socketpair_open(t)
    \/ \E u \in Thread : fork(t, u)
    \/ \E e \in End : close(t, e)
    \/ socket_release(t)
    \/ \E e \in End, len \in 1..MaxLen : socket_read(t, e, len) \/ socket_write(t, e, len)
    \/ socket_read_again(t) \/ socket_write_again(t)

Spec == Init /\ [][Next]_vars

-----------------------------------------------------------------------------
(* Properties                                                              *)

\* What t has put into chan[e].
Queued(e, t) ==
  sent[e, t] + (IF In(t, "write") /\ call[t].end = e THEN call[t].done ELSE 0)

\* Each direction is a byte stream of its own: what was read from it and what
\* it holds is, for each writer, what that writer queued on it, in order; and
\* once a read has returned 0 the peer is gone and has left no byte.
StreamIntact ==
  /\ \A e \in End, t \in Thread :
       SelectSeq(received[e] \o Contents(core[e]), LAMBDA b : b[1] = t)
         = [i \in 1..Queued(e, t) |-> <<t, i>>]
  /\ \A e \in End : eof[e] => ~end_open[e] /\ core[e].count = 0

\* The pair is freed with its second end and not before.
NoUseAfterFree ==
  exists <=> \E t \in Thread : t \in fd[0] \cup fd[1] \/ call[t] # None

\* Somebody that can run is in a call of that kind on end e.
Coming(op, e) == \E t \in Thread : Awake(t, op) /\ call[t].end = e

\* With both ends open, and one thread that reads from each, nobody waits for
\* what is there: a blocked reader has nothing to read and a blocked writer's
\* ring is not empty, unless a thread that can run is about to see to it.
\* (Two readers of one end can be left asleep beside data, as in a pipe: see
\* ReaderNotStranded in Pipe.)
NobodyWaitsForNothing ==
  (\A e \in End : end_open[e] /\ Cardinality(MayRead[e]) <= 1) =>
    \A e \in End :
      /\ read_wait[e] # <<>> => core[e].count = 0 \/ Coming("read", peer(e))
      /\ write_wait[e] # <<>> => core[e].count > 0 \/ Coming("write", e)

\* A pair is two independent byte streams, lives until both ends are closed,
\* and while they are open, with one reader each and any number of writers,
\* leaves nobody waiting for what is there.
PairSound == StreamIntact /\ NoUseAfterFree /\ NobodyWaitsForNothing

\* What the comment in socket_release promises of the peer: nobody stays
\* blocked on an end whose peer has gone.
PeerSeesHangup ==
  \A e \in End : exists /\ ~end_open[e] => read_wait[e] = <<>> /\ write_wait[peer(e)] = <<>>
=============================================================================
