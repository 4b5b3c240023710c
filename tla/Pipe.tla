-------------------------------- MODULE Pipe --------------------------------
(***************************************************************************)
(* An anonymous pipe (kernel/fs/pipe.c): two file descriptions over one    *)
(* ring, with the descriptions' reference counts (vfs_file_ref and         *)
(* vfs_file_put in kernel/fs/vfs.c) as fork and close move them.           *)
(*                                                                         *)
(* A critical section is an interrupts-off region, so an action is one     *)
(* pass through the loop of pipe_read or pipe_write, one drop of a         *)
(* reference, or one release; other threads run in between.  A thread is   *)
(* on a wait queue exactly while it is blocked; a woken thread takes its   *)
(* next pass whenever the scheduler runs it.  A process has one thread, so *)
(* the processes that have an end open are a set of threads.               *)
(*                                                                         *)
(* A byte is <<t, i>>: the i-th byte that t has asked to write.            *)
(***************************************************************************)
EXTENDS Integers, Sequences, Functions, FiniteSets

CONSTANTS Thread,    \* processes, one thread each
          MayRead,   \* the ones whose program reads from the pipe
          MayWrite,  \* the ones whose program writes to it
          Cap,       \* PIPE_CAPACITY
          MaxLen,    \* longest read or write
          MaxBytes,  \* bound on the bytes one thread asks to write
          None       \* no call in progress

Call == [op: {"read", "write"}, len: 1..MaxLen, done: 0..MaxLen]
          \cup [op: {"put_read", "put_write"}]

ASSUME PipeAssumption ==
  /\ MayRead \subseteq Thread /\ MayWrite \subseteq Thread /\ IsFiniteSet(Thread)
  /\ Cap \in Nat \ {0} /\ MaxLen \in Nat \ {0} /\ MaxBytes \in Nat
  /\ None \notin Thread \cup Call

Zero == <<None, 0>>
Byte == (Thread \X (1..MaxBytes)) \cup {Zero}

INSTANCE PipeCore

VARIABLES exists,      \* struct pipe is allocated
          core,        \* pipe->core
          readers,     \* pipe->readers
          writers,     \* pipe->writers
          read_wait,   \* threads blocked in pipe_read, oldest first
          write_wait,  \* threads blocked in pipe_write
          rfd,         \* who has the read end open: the refs of its file
          wfd,         \* who has the write end open
          call,        \* the read, write or last close a thread is inside
          sent,        \* bytes of t's finished writes
          received,    \* all bytes read from the pipe so far
          eof          \* some read has returned 0

pipe == <<exists, core, readers, writers, read_wait, write_wait>>
vars == <<pipe, rfd, wfd, call, sent, received, eof>>

\* Every variable holds a value of its C type: the ring's indices stay in
\* bounds and an end is released at most once.
TypeOK ==
  /\ exists \in BOOLEAN /\ eof \in BOOLEAN
  /\ core \in Ring
  /\ readers \in 0..1 /\ writers \in 0..1
  /\ read_wait \in Seq(Thread) /\ write_wait \in Seq(Thread)
  /\ rfd \subseteq Thread /\ wfd \subseteq Thread
  /\ call \in [Thread -> Call \cup {None}]
  /\ sent \in [Thread -> 0..MaxBytes]
  /\ received \in Seq(Byte)

In(t, op) == call[t] # None /\ call[t].op = op

\* A thread that is in a call and can run.
Awake(t, op) == In(t, op) /\ t \notin Range(read_wait) \cup Range(write_wait)

Return(t) == call' = [call EXCEPT ![t] = None]

\* Faulty: looks at the queue and leaves it alone.
Bug_wake_none(q) == q

\* A wake is modelled by its effect on the queue: the woken thread stays in
\* its call and can run.
wq_wake_one(q) == IF q = <<>> THEN q ELSE Tail(q)

wq_wake_all(q) == <<>>

wq_push(q, t) == Append(q, t)

-----------------------------------------------------------------------------
(* Opening, sharing and closing                                            *)

Init ==
  /\ exists = FALSE
  /\ core = pipe_core_init
  /\ readers = 0 /\ writers = 0
  /\ read_wait = <<>> /\ write_wait = <<>>
  /\ rfd = {} /\ wfd = {}
  /\ call = [t \in Thread |-> None]
  /\ sent = [t \in Thread |-> 0]
  /\ received = <<>>
  /\ eof = FALSE

\* Returns both ends to the caller.  When memory runs out nothing is kept.
pipe_open(t) ==
  /\ ~exists
  /\ exists' = TRUE
  /\ core' = pipe_core_init
  /\ readers' = 1 /\ writers' = 1
  /\ read_wait' = <<>> /\ write_wait' = <<>>
  /\ rfd' = {t} /\ wfd' = {t}
  /\ sent' = [u \in Thread |-> 0]
  /\ received' = <<>>
  /\ eof' = FALSE
  /\ UNCHANGED call

\* process_fork takes a reference (vfs_file_ref) on every open description
\* for the child, a process that had neither end.
fork(t, u) ==
  /\ t \in rfd \cup wfd /\ call[t] = None
  /\ u \notin rfd \cup wfd /\ call[u] = None
  /\ rfd' = IF t \in rfd THEN rfd \cup {u} ELSE rfd
  /\ wfd' = IF t \in wfd THEN wfd \cup {u} ELSE wfd
  /\ UNCHANGED <<pipe, call, sent, received, eof>>

\* vfs_file_put's test: was this the last reference?
gone(fd) == fd = {}

\* fd_close: vfs_file_put drops a reference and, if it was the last, goes on
\* to release the description after interrupts are back on.
close_read(t) ==
  /\ t \in rfd /\ call[t] = None
  /\ rfd' = rfd \ {t}
  /\ call' = [call EXCEPT ![t] = IF gone(rfd') THEN [op |-> "put_read"] ELSE None]
  /\ UNCHANGED <<pipe, wfd, sent, received, eof>>

close_write(t) ==
  /\ t \in wfd /\ call[t] = None
  /\ wfd' = wfd \ {t}
  /\ call' = [call EXCEPT ![t] = IF gone(wfd') THEN [op |-> "put_write"] ELSE None]
  /\ UNCHANGED <<pipe, rfd, sent, received, eof>>

\* Faulty: frees the pipe as soon as its readers are gone.
Bug_release_read_frees(t) ==
  /\ In(t, "put_read")
  /\ readers' = readers - 1
  /\ write_wait' = IF readers' = 0 THEN wq_wake_all(write_wait) ELSE write_wait
  /\ exists' = (readers' # 0)
  /\ Return(t)
  /\ UNCHANGED <<core, writers, read_wait, rfd, wfd, sent, received, eof>>

\* The last reader wakes every waiting writer; the last of all frees the pipe.
pipe_release_read(t) ==
  /\ In(t, "put_read")
  /\ readers' = readers - 1
  /\ write_wait' = IF readers' = 0 THEN wq_wake_all(write_wait) ELSE write_wait
  /\ exists' = (readers' # 0 \/ writers # 0)
  /\ Return(t)
  /\ UNCHANGED <<core, writers, read_wait, rfd, wfd, sent, received, eof>>

\* Faulty: the readers that wait for data are not told.
Bug_release_write_quiet(t) ==
  /\ In(t, "put_write")
  /\ writers' = writers - 1
  /\ exists' = (readers # 0 \/ writers' # 0)
  /\ Return(t)
  /\ UNCHANGED <<core, readers, read_wait, write_wait, rfd, wfd, sent, received, eof>>

pipe_release_write(t) ==
  /\ In(t, "put_write")
  /\ writers' = writers - 1
  /\ read_wait' = IF writers' = 0 THEN wq_wake_all(read_wait) ELSE read_wait
  /\ exists' = (readers # 0 \/ writers' # 0)
  /\ Return(t)
  /\ UNCHANGED <<core, readers, write_wait, rfd, wfd, sent, received, eof>>

-----------------------------------------------------------------------------
(* Reading and writing                                                     *)

\* A read that found nothing is at the end of the stream.
EndOfStream(dst) == dst = <<>> /\ writers = 0

\* One pass of pipe_read's loop: data, the end of the stream, or wait.
read_pass(t, len) ==
  LET r == pipe_core_read(core, len) IN
  /\ \/ /\ r.dst # <<>>
        /\ core' = r.pc
        /\ received' = received \o r.dst
        /\ write_wait' = wq_wake_one(write_wait)
        /\ Return(t)
        /\ UNCHANGED <<read_wait, eof>>
     \/ /\ EndOfStream(r.dst)
        /\ eof' = TRUE
        /\ Return(t)
        /\ UNCHANGED <<core, read_wait, write_wait, received>>
     \/ /\ r.dst = <<>> /\ ~EndOfStream(r.dst)
        /\ read_wait' = wq_push(read_wait, t)
        /\ call' = [call EXCEPT ![t] = [op |-> "read", len |-> len, done |-> 0]]
        /\ UNCHANGED <<core, write_wait, received, eof>>
  /\ UNCHANGED <<exists, readers, writers, rfd, wfd, sent>>

pipe_read(t, len) ==
  /\ t \in rfd \cap MayRead /\ call[t] = None
  /\ read_pass(t, len)

pipe_read_again(t) ==
  /\ Awake(t, "read")
  /\ read_pass(t, call[t].len)

\* src + done, len - done: the bytes the call has yet to write.
Rest(t, len, done) == [i \in 1..(len - done) |-> <<t, sent[t] + done + i>>]

\* One pass of pipe_write's loop: -EPIPE or a short count without readers,
\* otherwise queue what fits, wake a reader, and wait if bytes are left.
write_pass(t, len, done) ==
  LET w == pipe_core_write(core, Rest(t, len, done)) IN
  /\ \/ /\ readers = 0
        /\ sent' = [sent EXCEPT ![t] = @ + done]
        /\ Return(t)
        /\ UNCHANGED <<core, read_wait, write_wait>>
     \/ /\ readers > 0
        /\ core' = w.pc
        /\ read_wait' = IF w.n > 0 THEN wq_wake_one(read_wait) ELSE read_wait
        /\ \/ /\ done + w.n = len
              /\ sent' = [sent EXCEPT ![t] = @ + len]
              /\ Return(t)
              /\ UNCHANGED write_wait
           \/ /\ done + w.n # len
              /\ write_wait' = wq_push(write_wait, t)
              /\ call' = [call EXCEPT ![t] = [op |-> "write", len |-> len,
                                              done |-> done + w.n]]
              /\ UNCHANGED sent
  /\ UNCHANGED <<exists, readers, writers, rfd, wfd, received, eof>>

pipe_write(t, len) ==
  /\ t \in wfd \cap MayWrite /\ call[t] = None
  /\ sent[t] + len <= MaxBytes
  /\ write_pass(t, len, 0)

pipe_write_again(t) ==
  /\ Awake(t, "write")
  /\ write_pass(t, call[t].len, call[t].done)

Next ==
  \E t \in Thread :
    \/ pipe_open(t)
    \/ \E u \in Thread : fork(t, u)
    \/ close_read(t) \/ pipe_release_read(t)
    \/ close_write(t) \/ pipe_release_write(t)
    \/ \E len \in 1..MaxLen : pipe_read(t, len) \/ pipe_write(t, len)
    \/ pipe_read_again(t) \/ pipe_write_again(t)

Spec == Init /\ [][Next]_vars

\* A thread in a call that can run is scheduled and takes its next step
\* (ReadyRuns in Scheduler); no program has to call anything.
Fairness == \A t \in Thread : WF_vars(\/ pipe_read_again(t) \/ pipe_write_again(t)
                                      \/ pipe_release_read(t) \/ pipe_release_write(t))

FairSpec == Spec /\ Fairness

-----------------------------------------------------------------------------
(* Properties                                                              *)

\* What t has put into the pipe: its finished writes and its current one.
Queued(t) == sent[t] + (IF In(t, "write") THEN call[t].done ELSE 0)

\* The bytes read followed by the bytes in the ring.
Stream == received \o Contents(core)

\* A byte stream: what was read followed by what is in the ring is, for each
\* writer, exactly the bytes it queued, once each and in order, however reads,
\* short transfers, wraparound and other writers cut them up; and once a read
\* has returned 0 no byte is left behind and none can follow.
StreamIntact ==
  /\ Range(Stream) = UNION {{t} \X (1..Queued(t)) : t \in Thread}
  /\ \A j, k \in DOMAIN Stream :
       j < k /\ Stream[j][1] = Stream[k][1] => Stream[j][2] < Stream[k][2]
  /\ eof => writers = 0 /\ core.count = 0

\* The pipe is freed when both ends have been released and not before:
\* nobody that has it open or is inside a call on it can touch freed memory.
\* Until then readers and writers count the ends that are open or about to be
\* released, and only one thread releases an end.
NoUseAfterFree ==
  /\ exists <=> \E t \in Thread : t \in rfd \cup wfd \/ call[t] # None
  /\ readers = Cardinality({t \in Thread : In(t, "put_read")}) + (IF rfd = {} THEN 0 ELSE 1)
  /\ writers = Cardinality({t \in Thread : In(t, "put_write")}) + (IF wfd = {} THEN 0 ELSE 1)

\* A thread is blocked in a read only while there is nothing to read and a
\* writer is left, unless a reader that can run is about to take the data.
ReaderNotStranded ==
  read_wait # <<>> => \/ core.count = 0 /\ writers > 0
                      \/ \E t \in Thread : Awake(t, "read")

\* A thread is blocked in a write only while the ring holds bytes, which the
\* next read will take and wake it, unless a writer that can run goes first:
\* readers and writers never all wait for each other.
WriterNotStranded ==
  write_wait # <<>> => \/ core.count > 0 /\ readers > 0
                       \/ \E t \in Thread : Awake(t, "write")

\* Nobody is left waiting for what is there, on either side.
NotStranded == TypeOK /\ ReaderNotStranded /\ WriterNotStranded

\* Closing the last write end gets every reader out of its call, closing the
\* last read end every writer, though the threads may only ever be woken by
\* the release.
HangupReleases ==
  /\ wfd = {} ~> \A t \in Thread : ~In(t, "read")
  /\ rfd = {} ~> \A t \in Thread : ~In(t, "write")
=============================================================================
