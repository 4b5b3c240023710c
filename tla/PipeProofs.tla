----------------------------- MODULE PipeProofs ------------------------------
(***************************************************************************)
(* Proofs about Pipe, for any threads, capacity and transfer lengths: the  *)
(* ring is a queue of bytes, the pipe's ends and waiters are sound, and    *)
(* every writer's stream arrives whole and in order.                       *)
(***************************************************************************)
EXTENDS Pipe, QueueTheorems, TLAPS

-----------------------------------------------------------------------------
(* The ring: for every capacity, wherever its head is and however a        *)
(* transfer wraps, a write appends and a read takes from the front         *)

\* An index into the ring, which wraps at most once.
Wrap(x) == IF x < Cap THEN x ELSE x - Cap

\* An index taken modulo the capacity.
LEMMA WrapMod ==
  ASSUME Cap \in Nat, Cap > 0, NEW x \in Nat, x < Cap + Cap
  PROVE  x % Cap = Wrap(x) /\ Wrap(x) \in 0..(Cap - 1)
<1>1. CASE x < Cap
  BY <1>1 DEF Wrap
<1>2. CASE ~(x < Cap)
  <2>1. PICK y \in 0..(Cap - 1) : x = y + Cap
    BY <1>2
  <2>2. (y + Cap) % Cap = y
    OBVIOUS
  <2> QED BY <1>2, <2>1, <2>2 DEF Wrap
<1> QED BY <1>1, <1>2

\* The contents of a ring in these terms.
LEMMA ContentsWrap ==
  ASSUME NEW pc \in Ring
  PROVE  /\ Contents(pc) = [i \in 1..pc.count |-> pc.buf[Wrap(pc.head + i - 1)]]
         /\ Contents(pc) \in Seq(Byte) /\ Len(Contents(pc)) = pc.count
<1>0. Cap \in Nat /\ Cap > 0
  BY PipeAssumption
<1>1. /\ pc.head \in Nat /\ pc.head < Cap /\ pc.count \in Nat /\ pc.count <= Cap
      /\ pc.buf \in [0..(Cap - 1) -> Byte]
  BY <1>0 DEF Ring
<1>2. ASSUME NEW i \in 1..pc.count
      PROVE  /\ (pc.head + i - 1) % Cap = Wrap(pc.head + i - 1)
             /\ pc.buf[Wrap(pc.head + i - 1)] \in Byte
  <2>1. PICK x \in Nat : x = pc.head + i - 1 /\ x < Cap + Cap
    BY <1>0, <1>1
  <2>2. x % Cap = Wrap(x) /\ Wrap(x) \in 0..(Cap - 1)
    BY ONLY <1>0, <2>1, WrapMod
  <2> QED BY <1>1, <2>1, <2>2, Zenon
<1>3. Contents(pc) = [i \in 1..pc.count |-> pc.buf[Wrap(pc.head + i - 1)]]
  BY <1>2 DEF Contents
<1> QED BY <1>1, <1>2, <1>3

\* What a concatenation holds where.
LEMMA ConcatAt ==
  ASSUME NEW s \in Seq(Byte), NEW t \in Seq(Byte), NEW m \in Nat, NEW l \in Nat,
         m = Len(s), l = Len(t)
  PROVE  /\ s \o t \in Seq(Byte) /\ Len(s \o t) = m + l /\ DOMAIN (s \o t) = 1..(m + l)
         /\ \A i \in 1..m : (s \o t)[i] = s[i]
         /\ \A i \in 1..l : (s \o t)[m + i] = t[i]
OBVIOUS

\* A read takes the oldest bytes, in order, wherever the ring wraps, and
\* leaves the rest.
THEOREM RingRead ==
  ASSUME NEW pc \in Ring, NEW len \in Nat
  PROVE  LET r == pipe_core_read(pc, len) IN
         /\ r.pc \in Ring /\ r.dst \in Seq(Byte)
         /\ Len(r.dst) = Transfer(len, pc.count)
         /\ r.pc.count = pc.count - Len(r.dst)
         /\ Contents(pc) = r.dst \o Contents(r.pc)
<1>0. Cap \in Nat /\ Cap > 0
  BY PipeAssumption
<1>1. /\ pc.head \in Nat /\ pc.head < Cap /\ pc.count \in Nat /\ pc.count <= Cap
      /\ pc.buf \in [0..(Cap - 1) -> Byte]
  BY <1>0 DEF Ring
<1>2. PICK h \in Nat, k \in Nat, b \in [0..(Cap - 1) -> Byte] :
        h = pc.head /\ k = pc.count /\ b = pc.buf /\ h < Cap /\ k <= Cap
  BY <1>1
<1>3. PICK n \in Nat : n = Transfer(len, k) /\ n <= k
  BY <1>2 DEF Transfer
<1>4. PICK first \in Nat : first = Transfer(n, Cap - h) /\ first <= n /\ first <= Cap - h
                           /\ (first = n \/ first = Cap - h)
  BY <1>0, <1>2, <1>3 DEF Transfer
<1>5. PICK h2 \in Nat : h2 = (h + n) % Cap /\ h2 = Wrap(h + n) /\ h2 < Cap
  <2>1. PICK x \in Nat : x = h + n /\ x < Cap + Cap
    BY <1>0, <1>2, <1>3
  <2>2. x % Cap = Wrap(x) /\ Wrap(x) \in 0..(Cap - 1)
    BY ONLY <1>0, <2>1, WrapMod
  <2> QED BY <1>0, <2>1, <2>2
<1> DEFINE r == pipe_core_read(pc, len)
           dst == [i \in 1..n |-> IF i <= first THEN b[h + i - 1] ELSE b[i - first - 1]]
           rest == [pc EXCEPT !.head = h2, !.count = k - n]
<1>6. r.dst = dst /\ r.pc = rest
  <2>1. h2 = (pc.head + n) % Cap /\ n = Transfer(len, pc.count) /\ first = Transfer(n, Cap - pc.head)
    BY ONLY <1>2, <1>3, <1>4, <1>5
  <2> HIDE DEF r
  <2>2. r = [dst |-> dst, pc |-> rest]
    BY <1>2, <2>1 DEF pipe_core_read, r
  <2> QED BY ONLY <2>2, Zenon
<1>7. rest \in Ring /\ rest.head = h2 /\ rest.count = k - n /\ rest.buf = b
  <2>1. h2 \in 0..(Cap - 1) /\ k - n \in 0..Cap
    BY ONLY <1>0, <1>2, <1>3, <1>5, h \in Nat, k \in Nat, n \in Nat, h2 \in Nat
  <2> QED BY <1>2, <2>1, Zenon DEF Ring
<1>8. ASSUME NEW i \in 1..n
      PROVE  dst[i] = b[Wrap(h + i - 1)] /\ dst[i] \in Byte
  <2>1. /\ Wrap(h + i - 1) \in 0..(Cap - 1)
        /\ i <= first => Wrap(h + i - 1) = h + i - 1
        /\ ~(i <= first) => Wrap(h + i - 1) = i - first - 1
    <3>1. h < Cap /\ k <= Cap /\ n <= k /\ first <= Cap - h /\ (first = n \/ first = Cap - h)
      BY <1>2, <1>3, <1>4
    <3> QED BY ONLY <1>0, <3>1, h \in Nat, k \in Nat, n \in Nat, first \in Nat, i \in 1..n DEF Wrap
  <2>2. dst[i] = b[Wrap(h + i - 1)]
    BY <2>1
  <2> QED BY <2>1, <2>2
<1>9. dst \in Seq(Byte) /\ Len(dst) = n
  <2>1. dst \in [1..n -> Byte]
    BY <1>8, Zenon
  <2> HIDE DEF dst
  <2> QED BY <2>1
<1>10. ASSUME NEW i \in 1..(k - n)
       PROVE  Wrap(h2 + i - 1) = Wrap(h + (n + i) - 1)
  <2>1. h2 = Wrap(h + n) /\ h2 < Cap /\ h < Cap /\ k <= Cap /\ n <= k
    BY <1>2, <1>3, <1>5
  <2> QED BY ONLY <1>0, <2>1, h \in Nat, k \in Nat, n \in Nat, h2 \in Nat, i \in 1..(k - n) DEF Wrap
<1> HIDE DEF dst, rest, r
<1>11. /\ Contents(pc) = [i \in 1..k |-> b[Wrap(h + i - 1)]]
       /\ Contents(rest) = [i \in 1..(k - n) |-> b[Wrap(h2 + i - 1)]]
       /\ Contents(rest) \in Seq(Byte) /\ Len(Contents(rest)) = k - n
       /\ Contents(pc) \in Seq(Byte) /\ Len(Contents(pc)) = k
  <2>1. pc \in Ring
    OBVIOUS
  <2> QED BY ONLY <1>2, <1>7, <2>1, ContentsWrap, Zenon
<1>12. Contents(pc) = dst \o Contents(rest)
  <2> DEFINE l == k - n
             u == Contents(rest)
             v == Contents(pc)
             q == dst \o u
  <2>1. /\ l \in Nat /\ k = n + l
        /\ u \in Seq(Byte) /\ Len(u) = l /\ \A i \in 1..l : u[i] = b[Wrap(h2 + i - 1)]
        /\ v \in Seq(Byte) /\ Len(v) = k /\ \A i \in 1..k : v[i] = b[Wrap(h + i - 1)]
        /\ \A i \in 1..l : Wrap(h2 + i - 1) = Wrap(h + (n + i) - 1)
    BY <1>3, <1>10, <1>11
  <2> HIDE DEF l, u, v
  <2>2. /\ q \in Seq(Byte) /\ Len(q) = n + l
        /\ \A i \in 1..n : q[i] = dst[i]
        /\ \A i \in 1..l : q[n + i] = u[i]
    <3>1. dst \in Seq(Byte) /\ u \in Seq(Byte) /\ n = Len(dst) /\ l = Len(u)
      BY ONLY <1>9, <2>1
    <3>2. n \in Nat /\ l \in Nat
      BY <2>1
    <3> QED BY ONLY <3>1, <3>2, ConcatAt DEF q
  <2> HIDE DEF q
  <2>3. ASSUME NEW i \in 1..k PROVE q[i] = v[i]
    <3>0. v[i] = b[Wrap(h + i - 1)]
      BY <2>1
    <3>1. CASE i <= n
      <4>1. i \in 1..n
        BY <3>1
      <4> QED BY <1>8, <2>2, <3>0, <4>1
    <3>2. CASE ~(i <= n)
      <4>1. i - n \in 1..l /\ i = n + (i - n)
        BY <2>1, <3>2
      <4>2. q[n + (i - n)] = u[i - n] /\ u[i - n] = b[Wrap(h2 + (i - n) - 1)]
        BY ONLY <2>1, <2>2, <4>1, Zenon
      <4>3. Wrap(h2 + (i - n) - 1) = Wrap(h + (n + (i - n)) - 1)
        BY ONLY <2>1, <4>1, Zenon
      <4> QED BY ONLY <3>0, <4>1, <4>2, <4>3
    <3> QED BY <3>1, <3>2, Zenon
  <2>4. q = v
    BY ONLY <2>1, <2>2, <2>3, SameSeq
  <2> QED BY ONLY <2>4 DEF q, u, v
<1>13. Len(r.dst) = Transfer(len, pc.count) /\ r.pc.count = pc.count - Len(r.dst)
  BY ONLY <1>2, <1>3, <1>6, <1>7, <1>9
<1> QED BY <1>6, <1>7, <1>9, <1>12, <1>13, Zenon DEF r

\* A write puts as much of its bytes as fits behind those that are there,
\* wherever the ring wraps.
THEOREM RingWrite ==
  ASSUME NEW pc \in Ring, NEW src \in Seq(Byte)
  PROVE  LET w == pipe_core_write(pc, src) IN
         /\ w.pc \in Ring
         /\ w.n = Transfer(Len(src), Cap - pc.count)
         /\ w.pc.count = pc.count + w.n
         /\ Contents(w.pc) = Contents(pc) \o SubSeq(src, 1, w.n)
<1>0. Cap \in Nat /\ Cap > 0
  BY PipeAssumption
<1>1. /\ pc.head \in Nat /\ pc.head < Cap /\ pc.count \in Nat /\ pc.count <= Cap
      /\ pc.buf \in [0..(Cap - 1) -> Byte] /\ Len(src) \in Nat
  BY <1>0 DEF Ring
<1>2. PICK h \in Nat, k \in Nat, b \in [0..(Cap - 1) -> Byte], m \in Nat :
        h = pc.head /\ k = pc.count /\ b = pc.buf /\ h < Cap /\ k <= Cap /\ m = Len(src)
  BY <1>1, Zenon
<1>3. PICK n \in Nat : n = Transfer(m, Cap - k) /\ n <= m /\ n <= Cap - k
  BY <1>0, <1>2 DEF Transfer
<1>4. PICK tail \in Nat : tail = (h + k) % Cap /\ tail = Wrap(h + k) /\ tail < Cap
  <2>1. PICK x \in Nat : x = h + k /\ x < Cap + Cap
    BY <1>0, <1>2
  <2>2. x % Cap = Wrap(x) /\ Wrap(x) \in 0..(Cap - 1)
    BY ONLY <1>0, <2>1, WrapMod, Zenon
  <2> QED BY <1>0, <2>1, <2>2
<1>5. PICK first \in Nat : first = Transfer(n, Cap - tail) /\ first <= n /\ first <= Cap - tail
                           /\ (first = n \/ first = Cap - tail)
  <2>1. tail < Cap
    BY <1>4
  <2> QED BY <1>0, <2>1 DEF Transfer
<1>0a. /\ h < Cap /\ k <= Cap /\ n <= m /\ n <= Cap - k /\ tail = Wrap(h + k) /\ tail < Cap
       /\ first <= n /\ first <= Cap - tail /\ (first = n \/ first = Cap - tail)
       /\ h \in Nat /\ k \in Nat /\ m \in Nat /\ n \in Nat /\ tail \in Nat /\ first \in Nat
  BY <1>2, <1>3, <1>4, <1>5
<1> DEFINE buf == [i \in 0..(Cap - 1) |->
                     IF tail <= i /\ i < tail + first THEN src[i - tail + 1]
                     ELSE IF i < n - first THEN src[first + i + 1]
                     ELSE b[i]]
           full == [pc EXCEPT !.buf = buf, !.count = k + n]
           w == pipe_core_write(pc, src)
<1>6. w.n = n /\ w.pc = full
  <2>1. /\ n = Transfer(Len(src), Cap - pc.count) /\ tail = (pc.head + pc.count) % Cap
        /\ first = Transfer(n, Cap - tail)
    BY ONLY <1>2, <1>3, <1>4, <1>5
  <2> HIDE DEF w
  <2>2. w = [n |-> n, pc |-> full]
    BY <1>2, <2>1 DEF pipe_core_write, pipe_core_space, w
  <2> QED BY ONLY <2>2
<1>7. buf \in [0..(Cap - 1) -> Byte]
  <2>1. \A i \in 1..m : src[i] \in Byte
    BY <1>2
  <2>2. ASSUME NEW i \in 0..(Cap - 1) PROVE buf[i] \in Byte
    <3>1. CASE tail <= i /\ i < tail + first
      <4>1. i - tail + 1 \in 1..m
        BY ONLY <1>0, <1>0a, <3>1, i \in 0..(Cap - 1)
      <4> QED BY <2>1, <3>1, <4>1
    <3>2. CASE ~(tail <= i /\ i < tail + first) /\ i < n - first
      <4>1. first + i + 1 \in 1..m
        BY ONLY <1>0, <1>0a, <3>2, i \in 0..(Cap - 1)
      <4> QED BY <2>1, <3>2, <4>1
    <3>3. CASE ~(tail <= i /\ i < tail + first) /\ ~(i < n - first)
      BY <3>3
    <3> QED BY <3>1, <3>2, <3>3
  <2> QED BY <2>2, Zenon
<1>8. full \in Ring /\ full.head = h /\ full.count = k + n /\ full.buf = buf
  <2>1. k + n \in 0..Cap
    BY ONLY <1>0, <1>0a
  <2> HIDE DEF buf
  <2> QED BY <1>2, <1>7, <2>1, Zenon DEF Ring
<1>9. ASSUME NEW i \in 1..k
      PROVE  buf[Wrap(h + i - 1)] = b[Wrap(h + i - 1)]
  <2> DEFINE j == Wrap(h + i - 1)
  <2>1. j \in 0..(Cap - 1) /\ ~(tail <= j /\ j < tail + first) /\ ~(j < n - first)
    BY ONLY <1>0, <1>0a, i \in 1..k DEF Wrap, j
  <2> HIDE DEF j
  <2>2. buf[j] = b[j]
    BY <2>1
  <2> QED BY <2>2 DEF j
<1>10. ASSUME NEW i \in 1..n
       PROVE  buf[Wrap(h + (k + i) - 1)] = src[i]
  <2> DEFINE j == Wrap(h + (k + i) - 1)
  <2>1. CASE i <= first
    <3>1. j \in 0..(Cap - 1) /\ tail <= j /\ j < tail + first /\ j - tail + 1 = i
      BY ONLY <1>0, <1>0a, <2>1, i \in 1..n DEF Wrap, j
    <3> HIDE DEF j
    <3>2. buf[j] = src[j - tail + 1]
      BY <3>1
    <3> QED BY <3>1, <3>2 DEF j
  <2>2. CASE ~(i <= first)
    <3>1. j \in 0..(Cap - 1) /\ ~(tail <= j /\ j < tail + first) /\ j < n - first /\ first + j + 1 = i
      BY ONLY <1>0, <1>0a, <2>2, i \in 1..n DEF Wrap, j
    <3> HIDE DEF j
    <3>2. buf[j] = src[first + j + 1]
      BY <3>1
    <3> QED BY <3>1, <3>2, Zenon DEF j
  <2> QED BY <2>1, <2>2
<1> HIDE DEF buf, full, w
<1>11. /\ Contents(pc) = [i \in 1..k |-> b[Wrap(h + i - 1)]]
       /\ Contents(pc) \in Seq(Byte) /\ Len(Contents(pc)) = k
       /\ Contents(full) = [i \in 1..(k + n) |-> buf[Wrap(h + i - 1)]]
       /\ Contents(full) \in Seq(Byte) /\ Len(Contents(full)) = k + n
  <2>1. pc \in Ring
    OBVIOUS
  <2> QED BY ONLY <1>2, <1>8, <2>1, ContentsWrap, Zenon
<1>12. Contents(full) = Contents(pc) \o SubSeq(src, 1, n)
  <2> DEFINE u == Contents(pc)
             z == SubSeq(src, 1, n)
             v == Contents(full)
             q == u \o z
  <2>0. z \in Seq(Byte) /\ Len(z) = n /\ \A i \in 1..n : z[i] = src[i]
    BY <1>2, <1>3
  <2>1. /\ u \in Seq(Byte) /\ Len(u) = k /\ \A i \in 1..k : u[i] = b[Wrap(h + i - 1)]
        /\ v \in Seq(Byte) /\ Len(v) = k + n /\ \A i \in 1..(k + n) : v[i] = buf[Wrap(h + i - 1)]
    BY <1>11, Zenon
  <2> HIDE DEF u, z, v
  <2>2. /\ q \in Seq(Byte) /\ Len(q) = k + n
        /\ \A i \in 1..k : q[i] = u[i]
        /\ \A i \in 1..n : q[k + i] = z[i]
    <3>1. u \in Seq(Byte) /\ z \in Seq(Byte) /\ k = Len(u) /\ n = Len(z)
      BY ONLY <2>0, <2>1
    <3>2. k \in Nat /\ n \in Nat
      OBVIOUS
    <3> QED BY ONLY <3>1, <3>2, ConcatAt DEF q
  <2> HIDE DEF q
  <2>3. ASSUME NEW i \in 1..(k + n) PROVE q[i] = v[i]
    <3>0. v[i] = buf[Wrap(h + i - 1)]
      BY <2>1, Zenon
    <3>1. CASE i <= k
      <4>1. i \in 1..k
        BY <3>1
      <4> QED BY <1>9, <2>1, <2>2, <3>0, <4>1, Zenon
    <3>2. CASE ~(i <= k)
      <4>1. i - k \in 1..n /\ i = k + (i - k)
        BY <3>2
      <4>2. q[k + (i - k)] = z[i - k] /\ z[i - k] = src[i - k]
        BY ONLY <2>0, <2>2, <4>1
      <4>3. buf[Wrap(h + (k + (i - k)) - 1)] = src[i - k]
        BY <1>10, <4>1
      <4>4. v[k + (i - k)] = src[i - k]
        BY ONLY <3>0, <4>1, <4>3
      <4> QED BY ONLY <4>1, <4>2, <4>4, Zenon
    <3> QED BY <3>1, <3>2
  <2>4. q = v
    BY ONLY <2>1, <2>2, <2>3, SameSeq
  <2> QED BY ONLY <2>4 DEF q, u, v, z
<1>13. w.n = Transfer(Len(src), Cap - pc.count) /\ w.pc.count = pc.count + w.n
  BY ONLY <1>2, <1>3, <1>6, <1>8
<1>14. w.pc \in Ring /\ Contents(w.pc) = Contents(pc) \o SubSeq(src, 1, w.n)
  BY ONLY <1>6, <1>8, <1>12
<1> QED BY ONLY <1>13, <1>14 DEF w

-----------------------------------------------------------------------------
(* The inductive invariant                                                 *)

\* An end with open descriptions fd, counted by n and released by op: at
\* most one thread releases it, after the last reference is gone, and it is
\* counted until then.
End(fd, n, op) ==
  /\ \A s, t \in Thread : In(s, op) /\ In(t, op) => s = t
  /\ \A t \in Thread : In(t, op) => fd = {}
  /\ n = 1 <=> (fd # {} \/ \E t \in Thread : In(t, op))

Ends ==
  /\ End(rfd, readers, "put_read")
  /\ End(wfd, writers, "put_write")
  /\ exists = TRUE <=> (readers = 1 \/ writers = 1)

\* A call keeps its end open, and a write has bytes left to write.
Calls ==
  \A t \in Thread :
    /\ In(t, "read") => t \in rfd /\ t \in MayRead /\ call[t].len \in 1..MaxLen
    /\ In(t, "write") => /\ t \in wfd /\ call[t].len \in 1..MaxLen
                         /\ call[t].done \in Nat /\ call[t].done < call[t].len
                         /\ sent[t] + call[t].len <= MaxBytes

\* A queue holds threads in the call it is for, each once, and none when the
\* other end is gone.
Waiting(q, op) == IsInjective(q) /\ \A t \in Thread : t \in Range(q) => In(t, op)

Queues ==
  /\ Waiting(read_wait, "read") /\ Waiting(write_wait, "write")
  /\ writers = 0 => read_wait = <<>>
  /\ readers = 0 => write_wait = <<>>

SingleReader == \A s, t \in MayRead : s = t

\* Writers wait for a ring with bytes in it or for a writer that can run;
\* a single reader waits for an empty ring; the end of the stream is final.
Flow ==
  /\ write_wait # <<>> => \/ core.count > 0
                       \/ \E t \in Thread : In(t, "write") /\ t \notin Range(write_wait)
  /\ SingleReader => (read_wait # <<>> => core.count = 0)
  /\ eof = TRUE => writers = 0 /\ core.count = 0

PipeInv == TypeOK /\ Ends /\ Calls /\ Queues /\ Flow

-----------------------------------------------------------------------------
(* Calls and queues                                                        *)

\* A call that returns, or that a thread enters or stays in.
LEMMA SetCall ==
  ASSUME TypeOK, NEW t \in Thread, NEW c \in Call \cup {None}, call' = [call EXCEPT ![t] = c]
  PROVE  /\ call' \in [Thread -> Call \cup {None}]
         /\ call'[t] = c
         /\ \A u \in Thread : u # t => call'[u] = call[u]
<1> HIDE DEF Call
<1> QED BY DEF TypeOK

\* A call is one of the four.
LEMMA FourCalls ==
  ASSUME TypeOK, NEW t \in Thread, call[t] # None
  PROVE  In(t, "read") \/ In(t, "write") \/ In(t, "put_read") \/ In(t, "put_write")
BY DEF TypeOK, In, Call

\* Waking the oldest waiter.
LEMMA WakeOne ==
  ASSUME NEW q \in Seq(Thread), IsInjective(q)
  PROVE  /\ wq_wake_one(q) \in Seq(Thread) /\ IsInjective(wq_wake_one(q))
         /\ \A u : u \in Range(wq_wake_one(q)) => u \in Range(q)
         /\ q = <<>> => wq_wake_one(q) = <<>>
         /\ q # <<>> => \E u \in Thread : u \in Range(q) /\ u \notin Range(wq_wake_one(q))
<1>1. CASE q = <<>>
  BY <1>1, Zenon DEF wq_wake_one
<1>2. CASE q # <<>>
  <2>1. wq_wake_one(q) = Tail(q)
    BY <1>2, Zenon DEF wq_wake_one
  <2>2. /\ Head(q) \in Thread /\ Head(q) \in Range(q) /\ Tail(q) \in Seq(Thread)
        /\ IsInjective(Tail(q))
        /\ \A y : y \in Range(Tail(q)) <=> y \in Range(q) /\ y # Head(q)
    BY ONLY <1>2, TailQueue, q \in Seq(Thread), IsInjective(q), Zenon
  <2> QED BY ONLY <1>2, <2>1, <2>2, Zenon
<1> QED BY <1>1, <1>2, Zenon

\* An empty queue.
LEMMA NoQueue ==
  /\ <<>> \in Seq(Thread) /\ IsInjective(<<>>)
  /\ \A u : u \notin Range(<<>>)
<1>1. <<>> \in Seq(Thread) /\ Len(<<>>) = 0
  OBVIOUS
<1>2. 1..0 = {}
  OBVIOUS
<1> QED BY <1>1, <1>2, RangeAt, Zenon

-----------------------------------------------------------------------------
(* Opening, sharing and closing keep the invariant                         *)

\* It holds before the first pipe is opened.
LEMMA InitInv == Init => PipeInv
<1> SUFFICES ASSUME Init PROVE PipeInv
  BY Zenon
<1>0. Cap \in Nat /\ Cap > 0 /\ MaxBytes \in Nat
  BY PipeAssumption
<1>1. pipe_core_init \in Ring /\ pipe_core_init.count = 0
  BY <1>0 DEF pipe_core_init, Ring, Byte
<1>2. \A t \in Thread : call[t] = None
  BY Zenon DEF Init
<1>3. TypeOK
  <2>1. /\ call \in [Thread -> Call \cup {None}] /\ sent \in [Thread -> 0..MaxBytes]
        /\ rfd \subseteq Thread /\ wfd \subseteq Thread /\ core \in Ring
        /\ readers \in 0..1 /\ writers \in 0..1
    BY <1>0, <1>1 DEF Init
  <2>2. /\ read_wait \in Seq(Thread) /\ write_wait \in Seq(Thread) /\ received \in Seq(Byte)
    BY NoQueue DEF Init
  <2>3. exists \in BOOLEAN /\ eof \in BOOLEAN
    BY Zenon DEF Init
  <2> QED BY ONLY <2>1, <2>2, <2>3, Zenon DEF TypeOK
<1>4. Ends
  BY <1>2 DEF Init, Ends, End, In
<1>5. Calls
  BY <1>2 DEF Calls, In
<1>6. Queues
  BY NoQueue DEF Init, Queues, Waiting
<1>7. Flow
  BY DEF Init, Flow
<1> QED BY <1>3, <1>4, <1>5, <1>6, <1>7, Zenon DEF PipeInv

\* pipe_open: a new pipe, both ends held by the caller.
LEMMA OpenStep ==
  ASSUME PipeInv, NEW t \in Thread, pipe_open(t)
  PROVE  PipeInv'
<1>0. Cap \in Nat /\ Cap > 0 /\ MaxBytes \in Nat
  BY PipeAssumption
<1>1. pipe_core_init \in Ring /\ pipe_core_init.count = 0
  BY <1>0 DEF pipe_core_init, Ring, Byte
<1>2. /\ exists' = TRUE /\ core' = pipe_core_init /\ readers' = 1 /\ writers' = 1
      /\ read_wait' = <<>> /\ write_wait' = <<>> /\ rfd' = {t} /\ wfd' = {t}
      /\ sent' = [u \in Thread |-> 0] /\ received' = <<>> /\ eof' = FALSE /\ call' = call
  BY Zenon DEF pipe_open
<1>3. \A u \in Thread, op \in {"read", "write", "put_read", "put_write"} : ~In(u, op)
  <2>1. exists # TRUE
    BY Zenon DEF pipe_open
  <2>2. readers # 1 /\ writers # 1
    BY <2>1, Zenon DEF PipeInv, Ends
  <2> QED BY <2>2, Zenon DEF PipeInv, Ends, End, Calls, In
<1>4. \A u \in Thread, op \in {"read", "write", "put_read", "put_write"} : ~In(u, op)'
  BY <1>2, <1>3 DEF In
<1>5. TypeOK'
  <2>1. /\ sent' \in [Thread -> 0..MaxBytes] /\ rfd' \subseteq Thread /\ wfd' \subseteq Thread
        /\ core' \in Ring /\ readers' \in 0..1 /\ writers' \in 0..1
    BY <1>0, <1>1, <1>2
  <2>2. /\ read_wait' \in Seq(Thread) /\ write_wait' \in Seq(Thread) /\ received' \in Seq(Byte)
    BY <1>2, NoQueue
  <2>3. exists' \in BOOLEAN /\ eof' \in BOOLEAN /\ call' \in [Thread -> Call \cup {None}]
    BY <1>2, Zenon DEF PipeInv, TypeOK
  <2> QED BY ONLY <2>1, <2>2, <2>3 DEF TypeOK
<1>6. Ends'
  BY <1>2, <1>4 DEF Ends, End, In
<1>7. Calls'
  BY <1>4 DEF Calls, In
<1>8. Queues'
  BY <1>2, NoQueue, Zenon DEF Queues, Waiting
<1>9. Flow'
  BY <1>2, Zenon DEF Flow
<1> QED BY <1>5, <1>6, <1>7, <1>8, <1>9, Zenon DEF PipeInv

\* fork: the child holds what the parent holds.
LEMMA ForkStep ==
  ASSUME PipeInv, NEW t \in Thread, NEW u \in Thread, fork(t, u)
  PROVE  PipeInv'
<1>1. /\ exists' = exists /\ core' = core /\ readers' = readers /\ writers' = writers
      /\ read_wait' = read_wait /\ write_wait' = write_wait
      /\ call' = call /\ sent' = sent /\ received' = received /\ eof' = eof
  BY Zenon DEF fork, pipe
<1>2. /\ rfd' \subseteq Thread /\ wfd' \subseteq Thread /\ rfd \subseteq rfd' /\ wfd \subseteq wfd'
      /\ rfd = {} <=> rfd' = {}
      /\ wfd = {} <=> wfd' = {}
  BY Zenon DEF fork, PipeInv, TypeOK
<1>5. TypeOK'
  BY <1>1, <1>2, Zenon DEF PipeInv, TypeOK
<1>6. Ends'
  BY <1>1, <1>2, Zenon DEF PipeInv, Ends, End, In
<1>7. Calls'
  BY <1>1, <1>2, Zenon DEF PipeInv, Calls, In
<1>8. Queues'
  BY <1>1, Zenon DEF PipeInv, Queues, Waiting, In
<1>9. Flow'
  BY <1>1, Zenon DEF PipeInv, Flow, In
<1> QED BY <1>5, <1>6, <1>7, <1>8, <1>9, Zenon DEF PipeInv

\* The last close of the read end goes on to release it.
LEMMA CloseReadStep ==
  ASSUME PipeInv, NEW t \in Thread, close_read(t)
  PROVE  PipeInv'
<1>1. /\ exists' = exists /\ core' = core /\ readers' = readers /\ writers' = writers
      /\ read_wait' = read_wait /\ write_wait' = write_wait
      /\ wfd' = wfd /\ sent' = sent /\ received' = received /\ eof' = eof
      /\ rfd' = rfd \ {t} /\ t \in rfd
  BY Zenon DEF close_read, pipe
<1>2. call[t] = None
  BY Zenon DEF close_read
<1>3. /\ call' \in [Thread -> Call \cup {None}]
      /\ call'[t] # None => call'[t].op = "put_read" /\ rfd' = {}
      /\ rfd' = {} => call'[t] # None /\ call'[t].op = "put_read"
      /\ \A u \in Thread : u # t => call'[u] = call[u]
  <2>1. CASE rfd' = {}
    <3> DEFINE c == [op |-> "put_read"]
    <3>1. c \in Call /\ c.op = "put_read"
      BY DEF Call
    <3>2. c # None /\ c \in Call \cup {None}
      BY <3>1, PipeAssumption
    <3>3. call' = [call EXCEPT ![t] = c]
      BY <2>1, Zenon DEF close_read, gone
    <3> HIDE DEF c
    <3> QED BY <2>1, <3>1, <3>2, <3>3, SetCall, Zenon DEF PipeInv
  <2>2. CASE rfd' # {}
    <3>1. call' = [call EXCEPT ![t] = None]
      BY <2>2, Zenon DEF close_read, gone
    <3> QED BY <2>2, <3>1, SetCall, Zenon DEF PipeInv
  <2> QED BY <2>1, <2>2, Zenon
<1>5. TypeOK'
  BY <1>1, <1>3 DEF PipeInv, TypeOK
<1>6. Ends'
  BY <1>1, <1>2, <1>3 DEF PipeInv, Ends, End, In
<1>7. Calls'
  BY <1>1, <1>2, <1>3, Zenon DEF PipeInv, Calls, In
<1>8. Queues'
  BY <1>1, <1>2, <1>3, Zenon DEF PipeInv, Queues, Waiting, In
<1>9. Flow'
  BY <1>1, <1>2, <1>3, Zenon DEF PipeInv, Flow, In
<1> QED BY <1>5, <1>6, <1>7, <1>8, <1>9, Zenon DEF PipeInv

\* The last close of the write end goes on to release it.
LEMMA CloseWriteStep ==
  ASSUME PipeInv, NEW t \in Thread, close_write(t)
  PROVE  PipeInv'
<1>1. /\ exists' = exists /\ core' = core /\ readers' = readers /\ writers' = writers
      /\ read_wait' = read_wait /\ write_wait' = write_wait
      /\ rfd' = rfd /\ sent' = sent /\ received' = received /\ eof' = eof
      /\ wfd' = wfd \ {t} /\ t \in wfd
  BY Zenon DEF close_write, pipe
<1>2. call[t] = None
  BY Zenon DEF close_write
<1>3. /\ call' \in [Thread -> Call \cup {None}]
      /\ call'[t] # None => call'[t].op = "put_write" /\ wfd' = {}
      /\ wfd' = {} => call'[t] # None /\ call'[t].op = "put_write"
      /\ \A u \in Thread : u # t => call'[u] = call[u]
  <2>1. CASE wfd' = {}
    <3> DEFINE c == [op |-> "put_write"]
    <3>1. c \in Call /\ c.op = "put_write"
      BY DEF Call
    <3>2. c # None /\ c \in Call \cup {None}
      BY <3>1, PipeAssumption, Zenon
    <3>3. call' = [call EXCEPT ![t] = c]
      BY <2>1, Zenon DEF close_write, gone
    <3> HIDE DEF c
    <3> QED BY <2>1, <3>1, <3>2, <3>3, SetCall, Zenon DEF PipeInv
  <2>2. CASE wfd' # {}
    <3>1. call' = [call EXCEPT ![t] = None]
      BY <2>2, Zenon DEF close_write, gone
    <3> QED BY <2>2, <3>1, SetCall, Zenon DEF PipeInv
  <2> QED BY <2>1, <2>2, Zenon
<1>5. TypeOK'
  BY <1>1, <1>3 DEF PipeInv, TypeOK
<1>6. Ends'
  BY <1>1, <1>2, <1>3 DEF PipeInv, Ends, End, In
<1>7. Calls'
  BY <1>1, <1>2, <1>3, Zenon DEF PipeInv, Calls, In
<1>8. Queues'
  BY <1>1, <1>2, <1>3, Zenon DEF PipeInv, Queues, Waiting, In
<1>9. Flow'
  BY <1>1, <1>2, <1>3, Zenon DEF PipeInv, Flow, In
<1> QED BY <1>5, <1>6, <1>7, <1>8, <1>9 DEF PipeInv

\* pipe_release_read: no writer is left waiting.
LEMMA ReleaseReadStep ==
  ASSUME PipeInv, NEW t \in Thread, pipe_release_read(t)
  PROVE  PipeInv'
<1>1. /\ core' = core /\ writers' = writers /\ read_wait' = read_wait
      /\ rfd' = rfd /\ wfd' = wfd /\ sent' = sent /\ received' = received /\ eof' = eof
      /\ call[t] # None /\ call[t].op = "put_read" /\ readers' = readers - 1
  BY Zenon DEF pipe_release_read, In
<1>2. rfd = {} /\ readers = 1 /\ \A u \in Thread : In(u, "put_read") => u = t
  BY <1>1, Zenon DEF PipeInv, Ends, End, In
<1>3. readers' = 0 /\ write_wait' = <<>>
  BY <1>1, <1>2 DEF pipe_release_read, wq_wake_all
<1>4. exists' \in BOOLEAN /\ (exists' = TRUE <=> writers = 1)
  <2>1. readers \in 0..1 /\ writers \in 0..1
    BY Zenon DEF PipeInv, TypeOK
  <2>2. exists' = (readers' # 0 \/ writers # 0)
    BY Zenon DEF pipe_release_read
  <2>3. (readers' # 0 \/ writers # 0) <=> writers = 1
    BY <1>3, <2>1
  <2> QED BY ONLY <2>2, <2>3, Zenon
<1>5. /\ call' \in [Thread -> Call \cup {None}] /\ call'[t] = None
      /\ \A u \in Thread : u # t => call'[u] = call[u]
  BY SetCall, Zenon DEF pipe_release_read, Return, PipeInv
<1>6. TypeOK'
  BY <1>1, <1>3, <1>4, <1>5, NoQueue DEF PipeInv, TypeOK
<1>7. Ends'
  BY <1>1, <1>2, <1>3, <1>4, <1>5 DEF PipeInv, Ends, End, In
<1>8. Calls'
  BY <1>1, <1>5, Zenon DEF PipeInv, Calls, In
<1>9. Queues'
  BY <1>1, <1>3, <1>5, NoQueue, Zenon DEF PipeInv, Queues, Waiting, In
<1>10. Flow'
  BY <1>1, <1>3, <1>5, Zenon DEF PipeInv, Flow, In
<1> QED BY <1>6, <1>7, <1>8, <1>9, <1>10, Zenon DEF PipeInv

\* pipe_release_write: no reader is left waiting.
LEMMA ReleaseWriteStep ==
  ASSUME PipeInv, NEW t \in Thread, pipe_release_write(t)
  PROVE  PipeInv'
<1>1. /\ core' = core /\ readers' = readers /\ write_wait' = write_wait
      /\ rfd' = rfd /\ wfd' = wfd /\ sent' = sent /\ received' = received /\ eof' = eof
      /\ call[t] # None /\ call[t].op = "put_write" /\ writers' = writers - 1
  BY Zenon DEF pipe_release_write, In
<1>2. wfd = {} /\ writers = 1 /\ \A u \in Thread : In(u, "put_write") => u = t
  BY <1>1, Zenon DEF PipeInv, Ends, End, In
<1>3. writers' = 0 /\ read_wait' = <<>>
  BY <1>1, <1>2 DEF pipe_release_write, wq_wake_all
<1>4. exists' \in BOOLEAN /\ (exists' = TRUE <=> readers = 1)
  <2>1. readers \in 0..1 /\ writers \in 0..1
    BY Zenon DEF PipeInv, TypeOK
  <2>2. exists' = (readers # 0 \/ writers' # 0)
    BY Zenon DEF pipe_release_write
  <2>3. (readers # 0 \/ writers' # 0) <=> readers = 1
    BY <1>3, <2>1
  <2> QED BY ONLY <2>2, <2>3, Zenon
<1>5. /\ call' \in [Thread -> Call \cup {None}] /\ call'[t] = None
      /\ \A u \in Thread : u # t => call'[u] = call[u]
  BY SetCall, Zenon DEF pipe_release_write, Return, PipeInv
<1>6. TypeOK'
  BY <1>1, <1>3, <1>4, <1>5, NoQueue DEF PipeInv, TypeOK
<1>7. Ends'
  BY <1>1, <1>2, <1>3, <1>4, <1>5 DEF PipeInv, Ends, End, In
<1>8. Calls'
  BY <1>1, <1>5, Zenon DEF PipeInv, Calls, In
<1>9. Queues'
  BY <1>1, <1>3, <1>5, NoQueue, Zenon DEF PipeInv, Queues, Waiting, In
<1>10. Flow'
  BY <1>1, <1>3, <1>5, Zenon DEF PipeInv, Flow, In
<1> QED BY <1>6, <1>7, <1>8, <1>9, <1>10 DEF PipeInv

-----------------------------------------------------------------------------
(* So does a pass of pipe_read's loop                                      *)

\* pipe_read and pipe_read_again.
LEMMA ReadPass ==
  ASSUME PipeInv, NEW t \in Thread, NEW len \in 1..MaxLen, t \in rfd, t \in MayRead,
         t \notin Range(read_wait), t \notin Range(write_wait),
         call[t] # None => call[t].op = "read",
         read_pass(t, len)
  PROVE  PipeInv'
<1> DEFINE r == pipe_core_read(core, len)
<1>0. MaxLen \in Nat /\ Cap \in Nat
  BY PipeAssumption, Zenon
<1>1. /\ r.pc \in Ring /\ r.dst \in Seq(Byte) /\ r.pc.count \in Nat /\ core.count \in Nat
      /\ r.pc.count <= core.count
      /\ r.dst = <<>> <=> core.count = 0
  <2>1. core \in Ring /\ len \in Nat
    BY <1>0 DEF PipeInv, TypeOK
  <2>2. /\ r.pc \in Ring /\ r.dst \in Seq(Byte) /\ Len(r.dst) = Transfer(len, core.count)
        /\ r.pc.count = core.count - Len(r.dst)
    BY ONLY <2>1, RingRead, Zenon
  <2>3. core.count \in Nat /\ r.pc.count \in Nat
    BY <1>0, <2>1, <2>2 DEF Ring
  <2> HIDE DEF r
  <2>4. Len(r.dst) \in Nat /\ (Len(r.dst) = 0 <=> core.count = 0)
    BY <1>0, <2>2, <2>3 DEF Transfer
  <2>5. r.dst = <<>> <=> Len(r.dst) = 0
    BY ONLY <2>2, SeqEmpty, Zenon
  <2> QED BY ONLY <2>2, <2>3, <2>4, <2>5
<1>2. /\ exists' = exists /\ readers' = readers /\ writers' = writers
      /\ rfd' = rfd /\ wfd' = wfd /\ sent' = sent
  BY Zenon DEF read_pass
<1>3. readers = 1
  BY Zenon DEF PipeInv, Ends, End
<1>4. CASE /\ r.dst # <<>> /\ core' = r.pc /\ received' = received \o r.dst
           /\ write_wait' = wq_wake_one(write_wait) /\ Return(t)
           /\ read_wait' = read_wait /\ eof' = eof
  <2> HIDE DEF r
  <2>1. /\ call' \in [Thread -> Call \cup {None}] /\ call'[t] = None
        /\ \A u \in Thread : u # t => call'[u] = call[u]
    BY <1>4, SetCall, Zenon DEF Return, PipeInv
  <2>2. /\ write_wait' \in Seq(Thread) /\ IsInjective(write_wait')
        /\ \A u : u \in Range(write_wait') => u \in Range(write_wait)
        /\ write_wait = <<>> => write_wait' = <<>>
        /\ write_wait # <<>> => \E u \in Thread : u \in Range(write_wait) /\ u \notin Range(write_wait')
    BY <1>4, WakeOne DEF PipeInv, TypeOK, Queues, Waiting
  <2>3. core'.count \in Nat /\ core.count > 0 /\ eof # TRUE
    <3>1. core.count > 0 /\ core'.count \in Nat
      BY ONLY <1>1, <1>4
    <3>2. eof = TRUE => core.count = 0
      BY Zenon DEF PipeInv, Flow
    <3>3. core.count # 0
      BY ONLY <1>1, <3>1
    <3> QED BY ONLY <3>1, <3>2, <3>3, Zenon
  <2>4. TypeOK'
    <3>1. received \in Seq(Byte)
      BY Zenon DEF PipeInv, TypeOK
    <3>2. received' \in Seq(Byte)
      BY <1>1, <1>4, <3>1, SeqConcat, Zenon
    <3>3. core' \in Ring
      BY <1>1, <1>4, Zenon
    <3> QED BY <1>2, <1>4, <2>1, <2>2, <3>2, <3>3, Zenon DEF PipeInv, TypeOK
  <2>5. Ends'
    BY <1>2, <2>1 DEF PipeInv, Ends, End, In
  <2>6. Calls'
    BY <1>2, <2>1, Zenon DEF PipeInv, Calls, In
  <2>7. Queues'
    BY <1>2, <1>4, <2>1, <2>2, Zenon DEF PipeInv, Queues, Waiting, In
  <2>8. Flow'
    <3>1. write_wait' # <<>> => \E u \in Thread : In(u, "write")' /\ u \notin Range(write_wait')
      BY <2>1, <2>2 DEF PipeInv, Queues, Waiting, In
    <3>2. SingleReader => read_wait' = <<>>
      BY <1>4, <2>3 DEF PipeInv, Flow
    <3>3. eof' # TRUE
      BY <1>4, <2>3, Zenon
    <3> QED BY ONLY <3>1, <3>2, <3>3, Zenon DEF Flow, SingleReader, In
  <2> QED BY <2>4, <2>5, <2>6, <2>7, <2>8, Zenon DEF PipeInv
<1>5. CASE /\ EndOfStream(r.dst) /\ eof' = TRUE /\ Return(t)
           /\ core' = core /\ read_wait' = read_wait /\ write_wait' = write_wait
           /\ received' = received
  <2> HIDE DEF r
  <2>1. /\ call' \in [Thread -> Call \cup {None}] /\ call'[t] = None
        /\ \A u \in Thread : u # t => call'[u] = call[u]
    BY <1>5, SetCall, Zenon DEF Return, PipeInv
  <2>2. writers = 0 /\ core.count = 0
    BY <1>1, <1>5 DEF EndOfStream
  <2>4. TypeOK'
    BY <1>2, <1>5, <2>1 DEF PipeInv, TypeOK
  <2>5. Ends'
    BY <1>2, <2>1 DEF PipeInv, Ends, End, In
  <2>6. Calls'
    BY <1>2, <2>1 DEF PipeInv, Calls, In
  <2>7. Queues'
    BY <1>2, <1>5, <2>1, Zenon DEF PipeInv, Queues, Waiting, In
  <2>8. Flow'
    BY <1>2, <1>5, <2>1, <2>2, Zenon DEF PipeInv, Flow, In
  <2> QED BY <2>4, <2>5, <2>6, <2>7, <2>8 DEF PipeInv
<1>6. CASE /\ r.dst = <<>> /\ ~EndOfStream(r.dst) /\ read_wait' = wq_push(read_wait, t)
           /\ call' = [call EXCEPT ![t] = [op |-> "read", len |-> len, done |-> 0]]
           /\ core' = core /\ write_wait' = write_wait /\ received' = received /\ eof' = eof
  <2> HIDE DEF r
  <2>0. /\ [op |-> "read", len |-> len, done |-> 0] \in Call \cup {None}
        /\ [op |-> "read", len |-> len, done |-> 0] # None
    <3> DEFINE c == [op |-> "read", len |-> len, done |-> 0]
    <3>1. c \in Call
      BY <1>0 DEF Call
    <3> HIDE DEF c
    <3>2. c \in Call \cup {None} /\ c # None
      BY <3>1, PipeAssumption, Zenon
    <3> QED BY ONLY <3>2, Zenon DEF c
  <2>1. /\ call' \in [Thread -> Call \cup {None}]
        /\ call'[t] = [op |-> "read", len |-> len, done |-> 0]
        /\ \A u \in Thread : u # t => call'[u] = call[u]
    BY <1>6, <2>0, SetCall, Zenon DEF PipeInv
  <2>2. call'[t] # None /\ call'[t].op = "read" /\ call'[t].len = len
    BY ONLY <2>0, <2>1
  <2>3. writers # 0 /\ core.count = 0
    BY <1>1, <1>6 DEF EndOfStream
  <2>4. /\ read_wait' \in Seq(Thread) /\ IsInjective(read_wait')
        /\ \A u : u \in Range(read_wait') <=> u \in Range(read_wait) \/ u = t
    BY <1>6, AppendQueue DEF PipeInv, TypeOK, Queues, Waiting, wq_push
  <2>5. TypeOK'
    BY <1>2, <1>6, <2>1, <2>4, Zenon DEF PipeInv, TypeOK
  <2>6. Ends'
    BY <1>2, <2>1, <2>2 DEF PipeInv, Ends, End, In
  <2>7. Calls'
    BY <1>2, <2>1, <2>2, Zenon DEF PipeInv, Calls, In
  <2>8. Queues'
    BY <1>2, <1>6, <2>1, <2>2, <2>3, <2>4 DEF PipeInv, Queues, Waiting, In
  <2>9. Flow'
    BY <1>2, <1>6, <2>1, <2>2, <2>3 DEF PipeInv, Flow, In
  <2> QED BY <2>5, <2>6, <2>7, <2>8, <2>9 DEF PipeInv
<1> QED BY <1>4, <1>5, <1>6, Zenon DEF read_pass

-----------------------------------------------------------------------------
(* And a pass of pipe_write's                                              *)

\* A queue with somebody in it.
LEMMA SomebodyWaits ==
  ASSUME NEW q \in Seq(Thread), q # <<>>
  PROVE  \E u \in Thread : u \in Range(q)
<1>1. Len(q) # 0 /\ Len(q) \in Nat
  BY SeqEmpty, Zenon
<1>2. 1 \in 1..Len(q)
  BY <1>1
<1>3. q[1] \in Thread /\ q[1] \in Range(q)
  BY <1>2, RangeAt, Zenon
<1> QED BY <1>3, Zenon

\* The bytes a write has left.
LEMMA RestBytes ==
  ASSUME NEW t \in Thread, NEW len \in 1..MaxLen, NEW done \in Nat, done < len,
         sent[t] \in Nat, sent[t] + len <= MaxBytes
  PROVE  /\ Rest(t, len, done) \in Seq(Byte) /\ Len(Rest(t, len, done)) = len - done
         /\ \A i \in 1..(len - done) : Rest(t, len, done)[i] = <<t, sent[t] + done + i>>
<1>0. len \in Nat
  BY PipeAssumption
<1>1. PICK l \in Nat : l = len - done
  BY ONLY <1>0, done \in Nat, done < len
<1>2. MaxBytes \in Nat
  BY PipeAssumption, Zenon
<1>3. ASSUME NEW i \in 1..l PROVE <<t, sent[t] + done + i>> \in Byte
  <2>1. sent[t] + done + i \in 1..MaxBytes
    BY ONLY <1>0, <1>1, <1>2, done \in Nat, sent[t] \in Nat, sent[t] + len <= MaxBytes,
            i \in 1..l, l \in Nat
  <2> QED BY <2>1, Zenon DEF Byte
<1> DEFINE f == [i \in 1..l |-> <<t, sent[t] + done + i>>]
<1>4. f \in Seq(Byte) /\ Len(f) = l
  BY <1>3
<1>5. Rest(t, len, done) = f
  BY <1>1, Zenon DEF Rest
<1> QED BY <1>1, <1>4, <1>5, Zenon

\* pipe_write and pipe_write_again.
LEMMA WritePass ==
  ASSUME PipeInv, NEW t \in Thread, NEW len \in 1..MaxLen, NEW done \in Nat, done < len,
         sent[t] + len <= MaxBytes, t \in wfd,
         t \notin Range(read_wait), t \notin Range(write_wait),
         call[t] # None => call[t].op = "write",
         write_pass(t, len, done)
  PROVE  PipeInv'
<1> DEFINE src == Rest(t, len, done)
           w == pipe_core_write(core, src)
<1>0. MaxLen \in Nat /\ Cap \in Nat /\ Cap > 0 /\ MaxBytes \in Nat /\ len \in Nat
      /\ sent[t] \in Nat /\ sent[t] <= MaxBytes
  BY PipeAssumption DEF PipeInv, TypeOK
<1>1. /\ w.pc \in Ring /\ w.n \in Nat /\ w.n <= len - done /\ core.count \in Nat
      /\ w.pc.count = core.count + w.n /\ w.pc.count > 0
      /\ core.count = 0 => w.n > 0
  <2>1. src \in Seq(Byte) /\ Len(src) = len - done
    <3>1. /\ t \in Thread /\ len \in 1..MaxLen /\ done \in Nat /\ done < len
          /\ sent[t] \in Nat /\ sent[t] + len <= MaxBytes
      BY <1>0, Zenon
    <3> QED BY ONLY <3>1, RestBytes, Zenon
  <2>2. core \in Ring
    BY Zenon DEF PipeInv, TypeOK
  <2> HIDE DEF src
  <2>3. /\ w.pc \in Ring /\ w.n = Transfer(Len(src), Cap - core.count)
        /\ w.pc.count = core.count + w.n
    BY ONLY <2>1, <2>2, RingWrite, Zenon
  <2>4. core.count \in Nat /\ core.count <= Cap
    BY <1>0, <2>2 DEF Ring
  <2> HIDE DEF w
  <2>5. PICK l \in Nat, c \in Nat : l = len - done /\ l > 0 /\ c = core.count
    BY <1>0, <2>4
  <2> DEFINE n == w.n
  <2> HIDE DEF n
  <2>6. n = Transfer(l, Cap - c) /\ c <= Cap
    BY <2>1, <2>3, <2>4, <2>5, Zenon DEF n
  <2>7. n \in Nat /\ n <= l /\ c + n > 0 /\ (c = 0 => n > 0)
    <3>1. Cap \in Nat /\ Cap > 0 /\ l \in Nat /\ l > 0 /\ c \in Nat
      BY <1>0, <2>5
    <3> QED BY ONLY <2>6, <3>1 DEF Transfer
  <2> QED BY <2>3, <2>5, <2>7 DEF n
<1> HIDE DEF w, src
<1>2. /\ exists' = exists /\ readers' = readers /\ writers' = writers
      /\ rfd' = rfd /\ wfd' = wfd /\ received' = received /\ eof' = eof
  BY DEF write_pass
<1>3. writers = 1 /\ eof # TRUE
  <2>1. writers = 1
    BY Zenon DEF PipeInv, Ends, End
  <2>2. eof = TRUE => writers = 0
    BY Zenon DEF PipeInv, Flow
  <2>3. writers # 0
    BY ONLY <2>1
  <2> QED BY ONLY <2>1, <2>2, <2>3, Zenon
<1>4. CASE /\ readers = 0 /\ sent' = [sent EXCEPT ![t] = @ + done] /\ Return(t)
           /\ core' = core /\ read_wait' = read_wait /\ write_wait' = write_wait
  <2>1. /\ call' \in [Thread -> Call \cup {None}] /\ call'[t] = None
        /\ \A u \in Thread : u # t => call'[u] = call[u]
    BY <1>4, SetCall, Zenon DEF Return, PipeInv
  <2>2. sent' \in [Thread -> 0..MaxBytes] /\ \A u \in Thread : u # t => sent'[u] = sent[u]
    <3>1. sent \in [Thread -> 0..MaxBytes] /\ sent' = [sent EXCEPT ![t] = sent[t] + done]
      BY <1>4, Zenon DEF PipeInv, TypeOK
    <3>2. sent[t] + done \in 0..MaxBytes
      BY ONLY <1>0, done \in Nat, done < len, sent[t] + len <= MaxBytes
    <3> QED BY ONLY <3>1, <3>2, t \in Thread, Zenon
  <2>4. TypeOK'
    BY <1>2, <1>4, <2>1, <2>2 DEF PipeInv, TypeOK
  <2>5. Ends'
    BY <1>2, <2>1 DEF PipeInv, Ends, End, In
  <2>6. Calls'
    BY <1>2, <2>1, <2>2, Zenon DEF PipeInv, Calls, In
  <2>7. Queues'
    BY <1>2, <1>4, <2>1, Zenon DEF PipeInv, Queues, Waiting, In
  <2>8. Flow'
    BY <1>2, <1>3, <1>4, <2>1, Zenon DEF PipeInv, Flow, Queues, In
  <2> QED BY <2>4, <2>5, <2>6, <2>7, <2>8, Zenon DEF PipeInv
<1>5. CASE /\ readers > 0 /\ core' = w.pc
           /\ read_wait' = IF w.n > 0 THEN wq_wake_one(read_wait) ELSE read_wait
  <2>1. /\ read_wait' \in Seq(Thread) /\ IsInjective(read_wait')
        /\ \A u : u \in Range(read_wait') => u \in Range(read_wait)
        /\ read_wait = <<>> => read_wait' = <<>>
        /\ w.n > 0 /\ read_wait # <<>> =>
             \E u \in Thread : u \in Range(read_wait) /\ u \notin Range(read_wait')
    BY <1>5, WakeOne, Zenon DEF PipeInv, TypeOK, Queues, Waiting
  <2>2. SingleReader => read_wait' = <<>>
    <3> SUFFICES ASSUME SingleReader, read_wait' # <<>> PROVE FALSE
      BY Zenon
    <3>1. read_wait # <<>> /\ w.n > 0
      BY <1>1, <2>1, Zenon DEF PipeInv, Flow
    <3>2. PICK u \in Thread : u \in Range(read_wait) /\ u \notin Range(read_wait')
      BY <2>1, <3>1, Zenon
    <3>3. PICK v \in Thread : v \in Range(read_wait')
      BY ONLY <2>1, SomebodyWaits, read_wait' # <<>>, Zenon
    <3>4. u \in MayRead /\ v \in MayRead
      BY <2>1, <3>2, <3>3, Zenon DEF PipeInv, Calls, Queues, Waiting
    <3> QED BY <3>2, <3>3, <3>4 DEF SingleReader
  <2>3. Flow'
    <3>1. core'.count > 0 /\ eof' # TRUE
      BY <1>1, <1>2, <1>3, <1>5, Zenon
    <3> QED BY <2>2, <3>1, Zenon DEF Flow, SingleReader
  <2>4. CASE /\ sent' = [sent EXCEPT ![t] = @ + len] /\ Return(t) /\ write_wait' = write_wait
    <3>1. /\ call' \in [Thread -> Call \cup {None}] /\ call'[t] = None
          /\ \A u \in Thread : u # t => call'[u] = call[u]
      BY <2>4, SetCall, Zenon DEF Return, PipeInv
    <3>2. sent' \in [Thread -> 0..MaxBytes] /\ \A u \in Thread : u # t => sent'[u] = sent[u]
      BY <1>0, <2>4 DEF PipeInv, TypeOK
    <3>3. TypeOK'
      BY <1>1, <1>2, <1>5, <2>1, <2>4, <3>1, <3>2, Zenon DEF PipeInv, TypeOK
    <3>4. Ends'
      BY <1>2, <3>1 DEF PipeInv, Ends, End, In
    <3>5. Calls'
      BY <1>2, <3>1, <3>2 DEF PipeInv, Calls, In
    <3>6. Queues'
      BY <1>2, <2>1, <2>4, <3>1, Zenon DEF PipeInv, Queues, Waiting, In
    <3> QED BY <2>3, <3>3, <3>4, <3>5, <3>6 DEF PipeInv
  <2>5. CASE /\ done + w.n # len /\ write_wait' = wq_push(write_wait, t) /\ sent' = sent
             /\ call' = [call EXCEPT ![t] = [op |-> "write", len |-> len, done |-> done + w.n]]
    <3> DEFINE c == [op |-> "write", len |-> len, done |-> done + w.n]
    <3>1. done + w.n \in Nat /\ done + w.n < len /\ done + w.n \in 0..MaxLen
      BY <1>0, <1>1, <2>5
    <3>2. c \in Call /\ c.op = "write" /\ c.len = len /\ c.done = done + w.n
      BY <3>1, Zenon DEF Call
    <3>3. call' = [call EXCEPT ![t] = c]
      BY <2>5, Zenon
    <3> HIDE DEF c
    <3>4. c \in Call \cup {None} /\ c # None
      BY <3>2, PipeAssumption, Zenon
    <3>5. /\ call' \in [Thread -> Call \cup {None}] /\ call'[t] = c
          /\ \A u \in Thread : u # t => call'[u] = call[u]
      BY <3>3, <3>4, SetCall, Zenon DEF PipeInv
    <3>6. /\ write_wait' \in Seq(Thread) /\ IsInjective(write_wait')
          /\ \A u : u \in Range(write_wait') <=> u \in Range(write_wait) \/ u = t
      BY <2>5, AppendQueue DEF PipeInv, TypeOK, Queues, Waiting, wq_push
    <3>7. TypeOK'
      BY <1>1, <1>2, <1>5, <2>1, <2>5, <3>5, <3>6, Zenon DEF PipeInv, TypeOK
    <3>8. Ends'
      BY <1>2, <3>2, <3>4, <3>5 DEF PipeInv, Ends, End, In
    <3>9. Calls'
      <4>1. sent' = sent /\ wfd' = wfd /\ rfd' = rfd
        BY <1>2, <2>5, Zenon
      <4>2. /\ call'[t] # None /\ call'[t].op = "write" /\ "write" # "read"
            /\ call'[t].len = len /\ call'[t].done = done + w.n
        BY <3>2, <3>4, <3>5, Zenon
      <4>3. ASSUME NEW u \in Thread, u # t PROVE call'[u] = call[u]
        BY <3>5, <4>3, Zenon
      <4> QED BY <3>1, <4>1, <4>2, <4>3, Zenon DEF PipeInv, Calls, In
    <3>10. Queues'
      BY <1>2, <1>3, <1>5, <2>1, <3>2, <3>4, <3>5, <3>6 DEF PipeInv, Queues, Waiting, In
    <3> QED BY <2>3, <3>7, <3>8, <3>9, <3>10 DEF PipeInv
  <2> QED BY <1>5, <2>4, <2>5 DEF write_pass, w, src
<1> QED BY <1>4, <1>5, Zenon DEF write_pass, w, src

-----------------------------------------------------------------------------
(* The theorems                                                            *)

\* Every step keeps the invariant.
LEMMA StepInv == PipeInv /\ [Next]_vars => PipeInv'
<1> SUFFICES ASSUME PipeInv, [Next]_vars PROVE PipeInv'
  BY Zenon
<1>0. /\ \A t \in Thread : t \in Range(read_wait) => In(t, "read")
      /\ \A t \in Thread : t \in Range(write_wait) => In(t, "write")
  BY Zenon DEF PipeInv, Queues, Waiting
<1>1. ASSUME NEW t \in Thread, pipe_open(t) PROVE PipeInv'
  BY <1>1, OpenStep, Zenon
<1>2. ASSUME NEW t \in Thread, NEW u \in Thread, fork(t, u) PROVE PipeInv'
  BY <1>2, ForkStep, Zenon
<1>3. ASSUME NEW t \in Thread, close_read(t) PROVE PipeInv'
  BY <1>3, CloseReadStep
<1>4. ASSUME NEW t \in Thread, close_write(t) PROVE PipeInv'
  BY <1>4, CloseWriteStep
<1>5. ASSUME NEW t \in Thread, pipe_release_read(t) PROVE PipeInv'
  BY <1>5, ReleaseReadStep
<1>6. ASSUME NEW t \in Thread, pipe_release_write(t) PROVE PipeInv'
  BY <1>6, ReleaseWriteStep
<1>7. ASSUME NEW t \in Thread, NEW len \in 1..MaxLen, pipe_read(t, len) PROVE PipeInv'
  <2>1. /\ t \in rfd /\ t \in MayRead /\ call[t] = None /\ read_pass(t, len)
        /\ t \notin Range(read_wait) /\ t \notin Range(write_wait)
    BY <1>0, <1>7, Zenon DEF pipe_read, In
  <2> QED BY <2>1, ReadPass, Zenon
<1>8. ASSUME NEW t \in Thread, NEW len \in 1..MaxLen, pipe_write(t, len) PROVE PipeInv'
  <2>1. /\ t \in wfd /\ call[t] = None /\ write_pass(t, len, 0) /\ sent[t] + len <= MaxBytes
        /\ t \notin Range(read_wait) /\ t \notin Range(write_wait)
    BY <1>0, <1>8, Zenon DEF pipe_write, In
  <2>2. 0 \in Nat /\ 0 < len
    BY PipeAssumption
  <2> QED BY <2>1, <2>2, WritePass, Zenon
<1>9. ASSUME NEW t \in Thread, pipe_read_again(t) PROVE PipeInv'
  <2>1. /\ In(t, "read") /\ call[t].op = "read" /\ read_pass(t, call[t].len)
        /\ t \notin Range(read_wait) /\ t \notin Range(write_wait)
    BY <1>9, Zenon DEF pipe_read_again, Awake, In
  <2>2. t \in rfd /\ t \in MayRead /\ call[t].len \in 1..MaxLen
    BY <2>1, Zenon DEF PipeInv, Calls
  <2> QED BY <2>1, <2>2, ReadPass, Zenon
<1>10. ASSUME NEW t \in Thread, pipe_write_again(t) PROVE PipeInv'
  <2>1. /\ In(t, "write") /\ call[t].op = "write" /\ write_pass(t, call[t].len, call[t].done)
        /\ t \notin Range(read_wait) /\ t \notin Range(write_wait)
    BY <1>10, Zenon DEF pipe_write_again, Awake, In
  <2>2. /\ t \in wfd /\ call[t].len \in 1..MaxLen /\ call[t].done \in Nat
        /\ call[t].done < call[t].len /\ sent[t] + call[t].len <= MaxBytes
    BY <2>1, Zenon DEF PipeInv, Calls
  <2>3. PICK len \in 1..MaxLen, done \in Nat :
          /\ len = call[t].len /\ done = call[t].done
          /\ done < len /\ sent[t] + len <= MaxBytes /\ write_pass(t, len, done)
    BY ONLY <2>1, <2>2, Zenon
  <2> QED BY <2>1, <2>2, <2>3, WritePass, Zenon
<1>11. CASE UNCHANGED vars
  <2>1. /\ exists' = exists /\ core' = core /\ readers' = readers /\ writers' = writers
        /\ read_wait' = read_wait /\ write_wait' = write_wait /\ rfd' = rfd /\ wfd' = wfd
        /\ call' = call /\ sent' = sent /\ received' = received /\ eof' = eof
    BY <1>11 DEF vars, pipe
  <2> QED BY <2>1, Zenon DEF PipeInv, TypeOK, Ends, End, Calls, Queues, Waiting, Flow, In
<1> QED BY <1>1, <1>2, <1>3, <1>4, <1>5, <1>6, <1>7, <1>8, <1>9, <1>10, <1>11, Zenon DEF Next

\* The inductive invariant holds in every reachable state, for any threads,
\* any capacity and any lengths.
THEOREM PipeInvariant == Spec => []PipeInv
BY InitInv, StepInv, PTL DEF Spec

\* The size of a set with at most one element.
LEMMA SizeOne ==
  ASSUME NEW S, S = {} \/ \E y : S = {y}
  PROVE  Cardinality(S) = IF S = {} THEN 0 ELSE 1
<1> DEFINE Size(f) == f = [T \in SUBSET S |-> IF T = {} THEN 0 ELSE 1 + f[T \ {CHOOSE x : x \in T}]]
           CS == CHOOSE f : Size(f)
           g == [T \in SUBSET S |-> IF T = {} THEN 0 ELSE 1]
<1>1. Cardinality(S) = CS[S]
  BY Zenon DEF Cardinality
<1>2. ASSUME NEW T \in SUBSET S, T # {}
      PROVE  T = S /\ T \ {CHOOSE x : x \in T} = {}
  <2>1. (CHOOSE x : x \in T) \in T
    BY <1>2, Zenon
  <2> DEFINE c == CHOOSE x : x \in T
  <2> HIDE DEF c
  <2>2. c \in T
    BY <2>1 DEF c
  <2>3. T = S /\ T \ {c} = {}
    BY <1>2, <2>2
  <2> QED BY <2>3 DEF c
<1>3. {} \in SUBSET S /\ S \in SUBSET S
  OBVIOUS
<1>4. g[{}] = 0
  BY <1>3, Zenon
<1>5. Size(g)
  <2>1. ASSUME NEW T \in SUBSET S
        PROVE  (IF T = {} THEN 0 ELSE 1) = IF T = {} THEN 0 ELSE 1 + g[T \ {CHOOSE x : x \in T}]
    <3>1. CASE T = {}
      BY <3>1, Zenon
    <3>2. CASE T # {}
      <4>1. g[T \ {CHOOSE x : x \in T}] = 0
        BY <1>2, <1>4, <3>2, Zenon
      <4>2. 1 + 0 = 1
        OBVIOUS
      <4> QED BY ONLY <3>2, <4>1, <4>2, Zenon
    <3> QED BY <3>1, <3>2, Zenon
  <2> QED BY <2>1, Zenon
<1>6. Size(CS)
  BY <1>5, Zenon
<1> HIDE DEF CS
<1>7. CS[S] = IF S = {} THEN 0 ELSE 1 + CS[S \ {CHOOSE x : x \in S}]
  BY <1>3, <1>6, Zenon
<1>8. CS[{}] = 0
  BY <1>3, <1>6, Zenon
<1>9. S # {} => CS[S \ {CHOOSE x : x \in S}] = 0
  BY <1>2, <1>3, <1>8, Zenon
<1>10. 1 + 0 = 1
  OBVIOUS
<1> QED BY <1>1, <1>7, <1>9, <1>10, Zenon

\* Nobody uses a freed pipe and every end is released once (pipe_release_read
\* and pipe_release_write, vfs_file_put).
THEOREM EndsReleasedOnce == Spec => []NoUseAfterFree
<1>1. PipeInv => NoUseAfterFree
  <2> SUFFICES ASSUME PipeInv PROVE NoUseAfterFree
    BY Zenon
  <2>0. readers \in 0..1 /\ writers \in 0..1 /\ rfd \subseteq Thread /\ wfd \subseteq Thread
    BY Zenon DEF PipeInv, TypeOK
  <2>1. exists = TRUE <=> \E t \in Thread : t \in rfd \cup wfd \/ call[t] # None
    <3>1. ASSUME NEW t \in Thread, call[t] # None PROVE readers = 1 \/ writers = 1
      <4>1. In(t, "read") \/ In(t, "write") \/ In(t, "put_read") \/ In(t, "put_write")
        BY <3>1, FourCalls, Zenon DEF PipeInv
      <4> QED BY <4>1, Zenon DEF PipeInv, Calls, Ends, End, In
    <3>2. readers = 1 \/ writers = 1 => \E t \in Thread : t \in rfd \cup wfd \/ call[t] # None
      BY <2>0, Zenon DEF PipeInv, Ends, End, In
    <3>3. rfd \cup wfd # {} => readers = 1 \/ writers = 1
      BY Zenon DEF PipeInv, Ends, End
    <3>4. exists = TRUE <=> (readers = 1 \/ writers = 1)
      BY Zenon DEF PipeInv, Ends
    <3> QED BY <3>1, <3>2, <3>3, <3>4, Zenon
  <2>2. exists \in BOOLEAN
    BY Zenon DEF PipeInv, TypeOK
  <2>3. ASSUME NEW fd, NEW n \in 0..1, NEW op, End(fd, n, op)
        PROVE  n = Cardinality({t \in Thread : In(t, op)}) + (IF fd = {} THEN 0 ELSE 1)
    <3> DEFINE releasing == {t \in Thread : In(t, op)}
    <3>1. CASE \E t \in Thread : In(t, op)
      <4>1. PICK t \in Thread : releasing = {t}
        BY <2>3, <3>1, Zenon DEF End, In
      <4>2. Cardinality(releasing) = 1
        BY ONLY <4>1, SizeOne, Zenon
      <4>3. fd = {} /\ n = 1
        BY <2>3, <3>1, Zenon DEF End, In
      <4> QED BY ONLY <4>2, <4>3
    <3>2. CASE ~\E t \in Thread : In(t, op)
      <4>1. releasing = {}
        BY <3>2, Zenon DEF In
      <4>2. Cardinality(releasing) = 0
        BY ONLY <4>1, SizeOne, Zenon
      <4>3. n = 1 <=> fd # {}
        BY <2>3, <3>2, Zenon DEF End, In
      <4> QED BY ONLY <4>2, <4>3, n \in 0..1
    <3> QED BY <3>1, <3>2, Zenon
  <2>4. /\ readers = Cardinality({t \in Thread : In(t, "put_read")}) + (IF rfd = {} THEN 0 ELSE 1)
        /\ writers = Cardinality({t \in Thread : In(t, "put_write")}) + (IF wfd = {} THEN 0 ELSE 1)
    <3>1. End(rfd, readers, "put_read") /\ End(wfd, writers, "put_write")
      BY Zenon DEF PipeInv, Ends
    <3> QED BY ONLY <2>0, <2>3, <3>1, Zenon
  <2>5. exists <=> \E t \in Thread : t \in rfd \cup wfd \/ call[t] # None
    BY ONLY <2>1, <2>2, Zenon
  <2> QED BY ONLY <2>4, <2>5, Zenon DEF NoUseAfterFree
<1> QED BY <1>1, PipeInvariant, PTL

\* Writers never wait in vain, however many readers and writers there are.
THEOREM WritersNotStranded == Spec => []WriterNotStranded
<1>1. PipeInv => WriterNotStranded
  <2> SUFFICES ASSUME PipeInv, write_wait # <<>>
               PROVE  (core.count > 0 /\ readers > 0) \/ \E t \in Thread : Awake(t, "write")
    BY Zenon DEF WriterNotStranded
  <2>1. readers > 0
    <3>1. readers \in 0..1 /\ readers # 0
      BY Zenon DEF PipeInv, TypeOK, Queues
    <3> QED BY ONLY <3>1
  <2>2. ASSUME NEW t \in Thread, In(t, "write"), t \notin Range(write_wait)
        PROVE  Awake(t, "write")
    BY <2>2, Zenon DEF PipeInv, Queues, Waiting, Awake, In
  <2> QED BY <2>1, <2>2, Zenon DEF PipeInv, Flow, In
<1> QED BY <1>1, PipeInvariant, PTL

\* With one reader nobody at all waits in vain; with two a reader can
\* (pipe_read wakes no reader when it leaves bytes behind).
THEOREM OneReaderNotStranded ==
  ASSUME SingleReader
  PROVE  Spec => []NotStranded
<1>1. PipeInv => TypeOK /\ ReaderNotStranded
  BY DEF PipeInv, TypeOK, Queues, Flow, ReaderNotStranded
<1> QED BY <1>1, PipeInvariant, WritersNotStranded, PTL DEF NotStranded

\* Once a read has returned 0 the pipe is empty and nobody can write to it.
EndIsFinal == eof = TRUE => writers = 0 /\ wfd = {} /\ core.count = 0

\* The end of the stream, once reported by pipe_read, is never taken back.
THEOREM EndOfStreamIsFinal == Spec => []EndIsFinal
<1>1. PipeInv => EndIsFinal
  BY DEF PipeInv, Ends, End, Flow, EndIsFinal
<1> QED BY <1>1, PipeInvariant, PTL

-----------------------------------------------------------------------------
(* The stream                                                              *)

\* s holds, for each writer, its first q[t] bytes once each and in order.
Merged(s, q) ==
  /\ \A j \in 1..Len(s) : /\ s[j] \in Thread \X Nat
                          /\ s[j][2] \in 1..q[s[j][1]]
  /\ \A t \in Thread : \A i \in 1..q[t] : \E j \in 1..Len(s) : s[j] = <<t, i>>
  /\ \A j, k \in 1..Len(s) : j < k /\ s[j][1] = s[k][1] => s[j][2] < s[k][2]

\* p counts x, the next bytes of t, on top of q.
Continues(x, t, q, p) ==
  /\ \A i \in 1..Len(x) : x[i] = <<t, q[t] + i>>
  /\ p[t] = q[t] + Len(x)
  /\ \A u \in Thread : u # t => p[u] = q[u]

Counts == [t \in Thread |-> Queued(t)]

StreamInv == Counts \in [Thread -> Nat] /\ Merged(Stream, Counts)

\* The next bytes of one writer at the end of the stream.
LEMMA MergedAppend ==
  ASSUME NEW s \in Seq(Byte), NEW x \in Seq(Byte), NEW q \in [Thread -> Nat],
         NEW p \in [Thread -> Nat], NEW t \in Thread, Merged(s, q), Continues(x, t, q, p)
  PROVE  Merged(s \o x, p)
<1> USE DEF Continues
<1> DEFINE v == s \o x
<1>1. PICK m \in Nat, n \in Nat : m = Len(s) /\ n = Len(x)
  OBVIOUS
<1>2. /\ Len(v) = m + n
      /\ \A i \in 1..m : v[i] = s[i]
      /\ \A i \in 1..n : v[m + i] = <<t, q[t] + i>>
  <2>1. m = Len(s) /\ n = Len(x) /\ s \in Seq(Byte) /\ x \in Seq(Byte)
    BY <1>1, Zenon
  <2>2. Len(v) = m + n /\ (\A i \in 1..m : v[i] = s[i]) /\ \A i \in 1..n : v[m + i] = x[i]
    BY ONLY <2>1, m \in Nat, n \in Nat, ConcatAt DEF v
  <2> QED BY <1>1, <2>2, Zenon
<1> HIDE DEF v
<1>3. PICK c \in Nat : c = q[t] /\ p[t] = c + n
  BY <1>1, Zenon
<1>4. /\ \A j \in 1..m : s[j] \in Thread \X Nat /\ s[j][2] \in 1..q[s[j][1]]
      /\ \A u \in Thread : \A i \in 1..q[u] : \E j \in 1..m : s[j] = <<u, i>>
      /\ \A j, k \in 1..m : j < k /\ s[j][1] = s[k][1] => s[j][2] < s[k][2]
  BY <1>1, Zenon DEF Merged
<1>5. ASSUME NEW j \in 1..(m + n)
      PROVE  \/ /\ j \in 1..m /\ v[j] = s[j] /\ v[j] \in Thread \X Nat
                /\ v[j][2] \in 1..q[v[j][1]]
             \/ \E i \in 1..n : j = m + i /\ v[j] = <<t, c + i>>
  <2>1. CASE j \in 1..m
    BY <1>2, <1>4, <2>1, Zenon
  <2>2. CASE j \notin 1..m
    <3>1. PICK i \in 1..n : j = m + i
      <4>1. j - m \in 1..n /\ j = m + (j - m)
        BY ONLY <2>2, m \in Nat, n \in Nat, j \in 1..(m + n)
      <4> QED BY <4>1
    <3> QED BY <1>2, <1>3, <3>1, Zenon
  <2> QED BY <2>1, <2>2, Zenon
<1>6. ASSUME NEW u \in Thread PROVE q[u] \in Nat /\ p[u] \in Nat /\ q[u] <= p[u]
  <2>1. CASE u = t
    BY <1>3, <2>1
  <2>2. CASE u # t
    BY <2>2
  <2> QED BY <2>1, <2>2
<1>7. ASSUME NEW j \in 1..(m + n)
      PROVE  v[j] \in Thread \X Nat /\ v[j][2] \in 1..p[v[j][1]]
  <2>1. CASE v[j] \in Thread \X Nat /\ v[j][2] \in 1..q[v[j][1]]
    <3>1. v[j][1] \in Thread /\ v[j][2] \in Nat
      BY ONLY <2>1
    <3>2. PICK b \in Nat, c1 \in Nat, c2 \in Nat :
            v[j][2] = b /\ c1 = q[v[j][1]] /\ c2 = p[v[j][1]] /\ c1 <= c2 /\ b \in 1..c1
      BY ONLY <1>6, <2>1, <3>1, Zenon
    <3>3. b \in 1..c2
      <4>1. c1 <= c2 /\ b \in 1..c1
        BY <3>2, Zenon
      <4> QED BY ONLY <4>1, c1 \in Nat, c2 \in Nat
    <3> QED BY <2>1, <3>2, <3>3, Zenon
  <2>2. CASE \E i \in 1..n : v[j] = <<t, c + i>>
    <3>1. PICK i \in 1..n : v[j] = <<t, c + i>>
      BY <2>2, Zenon
    <3>2. c + i \in Nat /\ c + i \in 1..(c + n)
      BY ONLY c \in Nat, n \in Nat, i \in 1..n
    <3> QED BY <1>3, <3>1, <3>2
  <2> QED BY <1>5, <2>1, <2>2, Zenon
<1>8. ASSUME NEW u \in Thread, NEW i \in 1..p[u]
      PROVE  \E j \in 1..(m + n) : v[j] = <<u, i>>
  <2>1. CASE i \in 1..q[u]
    <3>1. PICK j \in 1..m : s[j] = <<u, i>>
      BY <1>4, <2>1, Zenon
    <3>2. j \in 1..(m + n)
      BY ONLY m \in Nat, n \in Nat, j \in 1..m
    <3> QED BY <1>2, <3>1, <3>2, Zenon
  <2>2. CASE i \notin 1..q[u]
    <3>1. u = t
      BY <1>8, <2>2, Zenon
    <3>2. i \in 1..(c + n) /\ i \notin 1..c
      BY <1>3, <1>8, <2>2, <3>1, Zenon
    <3>3. i - c \in 1..n /\ c + (i - c) = i /\ m + (i - c) \in 1..(m + n)
      BY ONLY <3>2, c \in Nat, n \in Nat, m \in Nat
    <3>4. v[m + (i - c)] = <<t, c + (i - c)>>
      BY <1>2, <1>3, <3>3, Zenon
    <3>5. v[m + (i - c)] = <<u, i>>
      BY ONLY <3>1, <3>3, <3>4
    <3> QED BY ONLY <3>3, <3>5, Zenon
  <2> QED BY <2>1, <2>2, Zenon
<1>9. ASSUME NEW j \in 1..(m + n), NEW k \in 1..(m + n), j < k, v[j][1] = v[k][1]
      PROVE  v[j][2] < v[k][2]
  <2>1. CASE k \in 1..m
    <3>1. j \in 1..m
      BY ONLY <1>9, <2>1, m \in Nat, j \in 1..(m + n), n \in Nat
    <3> QED BY <1>2, <1>4, <1>9, <2>1, <3>1, Zenon
  <2>2. CASE k \notin 1..m
    <3>1. PICK i \in 1..n : k = m + i /\ v[k] = <<t, c + i>>
      BY <1>5, <2>2, Zenon
    <3>2. CASE j \in 1..m
      <4>1. v[j] \in Thread \X Nat /\ v[j][2] \in 1..q[v[j][1]]
        BY <1>2, <1>4, <3>2, Zenon
      <4>2. v[j][1] = t /\ v[k][2] = c + i
        BY <1>9, <3>1
      <4>3. v[j][2] \in 1..c
        BY <1>3, <4>1, <4>2, Zenon
      <4>4. PICK b \in 1..c : b = v[j][2]
        BY <4>3, Zenon
      <4>5. b < c + i
        BY ONLY c \in Nat, n \in Nat, i \in 1..n, b \in 1..c
      <4> QED BY ONLY <4>2, <4>4, <4>5, Zenon
    <3>3. CASE j \notin 1..m
      <4>1. PICK l \in 1..n : j = m + l /\ v[j] = <<t, c + l>>
        BY <1>5, <3>3, Zenon
      <4>2. v[j][2] = c + l /\ v[k][2] = c + i
        BY <3>1, <4>1
      <4>3. l < i
        BY ONLY <1>9, <3>1, <4>1, m \in Nat, n \in Nat
      <4> QED BY ONLY <4>2, <4>3, c \in Nat, n \in Nat, i \in 1..n, l \in 1..n
    <3> QED BY <3>2, <3>3, Zenon
  <2> QED BY <2>1, <2>2, Zenon
<1> QED BY ONLY <1>2, <1>7, <1>8, <1>9, Zenon DEF Merged, v


\* Nothing is read or written, and no write begins or ends.
LEMMA SameStream ==
  ASSUME StreamInv, core' = core, received' = received,
         \A t \in Thread : Queued(t)' = Queued(t)
  PROVE  StreamInv'
<1>1. Counts' = Counts
  BY Zenon DEF Counts
<1>2. Stream' = Stream
  BY Zenon DEF Stream
<1> QED BY <1>1, <1>2, Zenon DEF StreamInv, Merged

\* A thread that a step does not concern.
LEMMA SameQueued ==
  ASSUME NEW u \in Thread, sent'[u] = sent[u], call'[u] = call[u]
  PROVE  Queued(u)' = Queued(u)
BY Zenon DEF Queued, In

\* One in no write before a step nor after it.
LEMMA NoneQueued ==
  ASSUME NEW u \in Thread, sent'[u] = sent[u], ~In(u, "write"), ~In(u, "write")'
  PROVE  Queued(u)' = Queued(u)
BY Zenon DEF Queued

\* The bytes before, within and after a transfer.
LEMMA ConcatBytes ==
  ASSUME NEW a \in Seq(Byte), NEW b \in Seq(Byte), NEW c \in Seq(Byte)
  PROVE  (a \o b) \o c = a \o (b \o c)
BY ConcatThree

\* An empty pipe nobody has written to.
LEMMA MergedFresh ==
  ASSUME NEW q \in [Thread -> Nat], \A t \in Thread : q[t] = 0
  PROVE  Merged(<<>> \o Contents(pipe_core_init), q)
<1>1. Contents(pipe_core_init) = <<>>
  <2>1. pipe_core_init.count = 0
    BY DEF pipe_core_init
  <2> QED BY <2>1 DEF Contents
<1>2. /\ <<>> \o Contents(pipe_core_init) = <<>>
      /\ Len(<<>>) = 0 /\ 1..0 = {}
  BY <1>1
<1> QED BY <1>2, Zenon DEF Merged

\* Nothing has been sent before the first pipe is opened.
LEMMA InitStream == Init => StreamInv
<1> SUFFICES ASSUME Init PROVE StreamInv
  BY Zenon
<1>1. Counts \in [Thread -> Nat] /\ \A t \in Thread : Counts[t] = 0
  BY DEF Init, Counts, Queued, In
<1>2. Stream = <<>> \o Contents(pipe_core_init)
  BY Zenon DEF Init, Stream
<1> QED BY <1>1, <1>2, MergedFresh, Zenon DEF StreamInv

\* pipe_open: nobody is left in a write on the old pipe.
LEMMA OpenStream ==
  ASSUME PipeInv, NEW t \in Thread, pipe_open(t)
  PROVE  StreamInv'
<1>1. /\ core' = pipe_core_init /\ received' = <<>> /\ call' = call /\ ~exists
      /\ \A u \in Thread : sent'[u] = 0
  BY Zenon DEF pipe_open
<1>2. ASSUME NEW u \in Thread PROVE ~In(u, "write")
  <2>1. wfd = {}
    BY <1>1 DEF PipeInv, TypeOK, Ends, End
  <2> QED BY <2>1, Zenon DEF PipeInv, Calls
<1>3. Counts' \in [Thread -> Nat] /\ \A u \in Thread : Counts'[u] = 0
  BY <1>1, <1>2 DEF Counts, Queued, In
<1>4. Stream' = <<>> \o Contents(pipe_core_init)
  BY <1>1, Zenon DEF Stream
<1> QED BY <1>3, <1>4, MergedFresh, Zenon DEF StreamInv

\* fork and close, before and after the release: no thread is in a write.
LEMMA QuietStream ==
  ASSUME PipeInv, StreamInv, NEW t \in Thread, NEW c \in Call \cup {None},
         ~In(t, "write"), c # None => c.op # "write",
         call' = [call EXCEPT ![t] = c], core' = core, received' = received, sent' = sent
  PROVE  StreamInv'
<1>1. /\ call'[t] = c /\ \A u \in Thread : u # t => call'[u] = call[u]
  BY SetCall, Zenon DEF PipeInv
<1>2. ASSUME NEW u \in Thread PROVE Queued(u)' = Queued(u)
  <2>1. CASE u = t
    BY <1>1, <2>1, NoneQueued, Zenon DEF In
  <2>2. CASE u # t
    BY <1>1, <2>2, SameQueued, Zenon
  <2> QED BY <2>1, <2>2, Zenon
<1> QED BY <1>2, SameStream, Zenon

\* A read moves bytes from the ring to the end of what was received.
LEMMA ReadStream ==
  ASSUME PipeInv, StreamInv, NEW t \in Thread, NEW len \in 1..MaxLen,
         call[t] # None => call[t].op = "read", read_pass(t, len)
  PROVE  StreamInv'
<1> DEFINE r == pipe_core_read(core, len)
<1>1. MaxLen \in Nat /\ len \in Nat /\ core \in Ring /\ received \in Seq(Byte)
  BY PipeAssumption DEF PipeInv, TypeOK
<1>2. /\ r.pc \in Ring /\ r.dst \in Seq(Byte) /\ Contents(core) = r.dst \o Contents(r.pc)
      /\ Contents(r.pc) \in Seq(Byte)
  BY ONLY <1>1, RingRead, ContentsWrap, Zenon
<1> HIDE DEF r
<1>3. Stream' = Stream
  <2>1. CASE core' = core /\ received' = received
    BY <2>1, Zenon DEF Stream
  <2>2. CASE core' = r.pc /\ received' = received \o r.dst
    <3>1. (received \o r.dst) \o Contents(r.pc) = received \o (r.dst \o Contents(r.pc))
      BY ONLY <1>1, <1>2, ConcatBytes, Zenon
    <3> QED BY <1>2, <2>2, <3>1, Zenon DEF Stream
  <2> QED BY <2>1, <2>2, Zenon DEF read_pass, r
<1>4. ASSUME NEW u \in Thread PROVE Queued(u)' = Queued(u)
  <2> DEFINE c == [op |-> "read", len |-> len, done |-> 0]
  <2>1. c \in Call \cup {None} /\ c.op = "read"
    BY <1>1 DEF Call
  <2>2. None \in Call \cup {None}
    OBVIOUS
  <2> HIDE DEF c
  <2>3. sent' = sent /\ \E d \in {None, c} : call' = [call EXCEPT ![t] = d]
    BY Zenon DEF read_pass, Return, c
  <2>4. PICK d \in Call \cup {None} :
          (d = None \/ d.op = "read") /\ call' = [call EXCEPT ![t] = d]
    BY <2>1, <2>2, <2>3, Zenon
  <2>5. call'[t] = d /\ \A y \in Thread : y # t => call'[y] = call[y]
    BY <2>4, SetCall, Zenon DEF PipeInv
  <2>6. ~In(t, "write") /\ ~In(t, "write")'
    BY <2>4, <2>5 DEF In
  <2> QED BY <2>3, <2>5, <2>6, SameQueued, NoneQueued, Zenon
<1>5. Counts' = Counts
  BY <1>4, Zenon DEF Counts
<1> QED BY <1>3, <1>5, Zenon DEF StreamInv, Merged

\* Part of the rest of a write goes into the ring, and the writer has queued
\* that much more.
LEMMA WriteStream ==
  ASSUME PipeInv, StreamInv, NEW t \in Thread, NEW len \in 1..MaxLen, NEW done \in Nat, done < len,
         sent[t] + len <= MaxBytes, Queued(t) = sent[t] + done,
         call[t] # None => call[t].op = "write",
         write_pass(t, len, done)
  PROVE  StreamInv'
<1> DEFINE src == Rest(t, len, done)
           w == pipe_core_write(core, src)
<1>1. /\ MaxLen \in Nat /\ len \in Nat /\ core \in Ring /\ received \in Seq(Byte) /\ len - done \in Nat
      /\ sent \in [Thread -> 0..MaxBytes] /\ MaxBytes \in Nat /\ sent[t] \in Nat
  BY PipeAssumption DEF PipeInv, TypeOK
<1>2. PICK a \in Nat, l \in Nat, s \in Nat : a = sent[t] /\ l = len - done /\ s = a + done
  <2>1. sent[t] + done \in Nat /\ len - done \in Nat /\ sent[t] \in Nat
    BY <1>1
  <2> QED BY ONLY <2>1, Zenon
<1>3. src \in Seq(Byte) /\ Len(src) = l /\ \A i \in 1..l : src[i] = <<t, s + i>>
  <2>1. /\ src \in Seq(Byte) /\ Len(src) = len - done
        /\ \A i \in 1..(len - done) : src[i] = <<t, sent[t] + done + i>>
    <3>1. /\ t \in Thread /\ len \in 1..MaxLen /\ done \in Nat /\ done < len
          /\ sent[t] \in Nat /\ sent[t] + len <= MaxBytes
      BY <1>1, Zenon
    <3> QED BY ONLY <3>1, RestBytes, Zenon
  <2> QED BY ONLY <1>2, <2>1, Zenon
<1> HIDE DEF src
<1>4. /\ w.pc \in Ring /\ w.n = Transfer(Len(src), Cap - core.count)
      /\ Contents(w.pc) = Contents(core) \o SubSeq(src, 1, w.n)
  BY ONLY <1>1, <1>3, RingWrite, Zenon
<1> HIDE DEF w
<1>5. PICK n \in Nat : n = w.n /\ n <= l
  <2>1. Cap \in Nat /\ core.count \in Nat /\ core.count <= Cap
    BY <1>1, PipeAssumption DEF Ring
  <2>2. Transfer(l, Cap - core.count) \in Nat /\ Transfer(l, Cap - core.count) <= l
    BY ONLY <2>1, l \in Nat DEF Transfer
  <2> QED BY <1>3, <1>4, <2>2, Zenon
<1>6. PICK x \in Seq(Byte) : /\ x = SubSeq(src, 1, n) /\ Len(x) = n
                             /\ \A i \in 1..n : x[i] = <<t, s + i>>
  <2>1. SubSeq(src, 1, n) \in Seq(Byte) /\ Len(SubSeq(src, 1, n)) = n
        /\ \A i \in 1..n : SubSeq(src, 1, n)[i] = src[i]
    BY ONLY <1>3, <1>5, l \in Nat, n \in Nat
  <2>2. \A i \in 1..n : i \in 1..l
    BY ONLY <1>5, l \in Nat, n \in Nat
  <2> QED BY <1>3, <2>1, <2>2, Zenon
<1> DEFINE more == [op |-> "write", len |-> len, done |-> done + n]
<1>a. more \in Call /\ more.op = "write" /\ more.done = done + n
  <2>1. l = len - done /\ n <= l /\ len \in 1..MaxLen /\ MaxLen \in Nat
    BY <1>1, <1>2, <1>5, Zenon
  <2>2. done + n \in 0..MaxLen
    BY ONLY <2>1, done \in Nat, n \in Nat, l \in Nat
  <2> QED BY <2>1, <2>2 DEF Call
<1> HIDE DEF more
<1>7. PICK c \in Call \cup {None}, k \in Nat :
        /\ call' = [call EXCEPT ![t] = c]
        /\ sent'[t] = sent[t] + k /\ \A u \in Thread : u # t => sent'[u] = sent[u]
        /\ \/ core' = core /\ c = None /\ k = done
           \/ core' = w.pc /\ c = None /\ k = len /\ done + n = len
           \/ core' = w.pc /\ c = more /\ k = 0
  <2>1. CASE readers = 0 /\ sent' = [sent EXCEPT ![t] = @ + done] /\ Return(t) /\ core' = core
    <3>1. sent'[t] = sent[t] + done /\ \A u \in Thread : u # t => sent'[u] = sent[u]
      BY ONLY <1>1, <2>1, t \in Thread
    <3> QED BY <2>1, <3>1, Zenon DEF Return
  <2>2. CASE /\ core' = w.pc /\ done + w.n = len /\ Return(t)
             /\ sent' = [sent EXCEPT ![t] = @ + len]
    <3>1. sent'[t] = sent[t] + len /\ \A u \in Thread : u # t => sent'[u] = sent[u]
      BY ONLY <1>1, <2>2, t \in Thread
    <3> QED BY <1>1, <1>5, <2>2, <3>1, Zenon DEF Return
  <2>3. CASE /\ core' = w.pc /\ UNCHANGED sent
             /\ call' = [call EXCEPT ![t] = [op |-> "write", len |-> len, done |-> done + w.n]]
    <3>1. more \in Call /\ call' = [call EXCEPT ![t] = more]
      BY <1>5, <1>a, <2>3, Zenon DEF more
    <3>2. sent'[t] = sent[t] + 0 /\ 0 \in Nat /\ \A u \in Thread : u # t => sent'[u] = sent[u]
      BY ONLY <1>1, <2>3
    <3> QED BY <2>3, <3>1, <3>2, Zenon
  <2> QED BY <2>1, <2>2, <2>3, Zenon DEF write_pass, w, src
<1>8. /\ call'[t] = c /\ \A u \in Thread : u # t => call'[u] = call[u]
      /\ sent'[t] = sent[t] + k /\ \A u \in Thread : u # t => sent'[u] = sent[u]
  <2>1. /\ call'[t] = c /\ \A u \in Thread : u # t => call'[u] = call[u]
    BY <1>7, SetCall, Zenon DEF PipeInv
  <2> QED BY <1>7, <2>1, Zenon
<1>9. \A u \in Thread : u # t => Queued(u)' = Queued(u)
  BY <1>8, SameQueued, Zenon
<1>10. received' = received
  BY Zenon DEF write_pass
<1>11. CASE core' = core /\ c = None /\ k = done
  <2>1. Queued(t)' = (a + done) + 0 /\ Queued(t) = a + done
    BY <1>2, <1>8, <1>11, Zenon DEF Queued, In
  <2>2. Queued(t)' = Queued(t)
    BY ONLY <2>1, done \in Nat, a \in Nat
  <2> QED BY <1>9, <1>10, <1>11, <2>2, SameStream, Zenon
<1>12. CASE core' = w.pc /\ Queued(t)' = s + n
  <2>1. PICK C \in Seq(Byte) : C = Contents(core)
    BY <1>1, ContentsWrap, Zenon
  <2>2. Stream \in Seq(Byte) /\ Stream' = Stream \o x
    <3>1. Stream = received \o C /\ Stream' = received \o (C \o x)
      BY <1>4, <1>5, <1>6, <1>10, <1>12, <2>1, Zenon DEF Stream
    <3>2. received \o C \in Seq(Byte)
      BY ONLY <1>1, C \in Seq(Byte)
    <3>3. (received \o C) \o x = received \o (C \o x)
      BY ONLY <1>1, C \in Seq(Byte), x \in Seq(Byte), ConcatBytes, Zenon
    <3> QED BY <3>1, <3>2, <3>3, Zenon
  <2>3. Counts[t] = s /\ Counts'[t] = s + n /\ \A u \in Thread : u # t => Counts'[u] = Counts[u]
    BY <1>2, <1>9, <1>12, Zenon DEF Counts
  <2>4. Counts \in [Thread -> Nat] /\ Merged(Stream, Counts)
    BY Zenon DEF StreamInv
  <2>5. Counts' \in [Thread -> Nat]
    <3>1. \A u \in Thread : Counts'[u] \in Nat
      BY ONLY <2>3, <2>4, s \in Nat, n \in Nat
    <3>2. Counts' = [u \in Thread |-> Counts'[u]]
      BY Zenon DEF Counts
    <3> QED BY ONLY <3>1, <3>2, Zenon
  <2> DEFINE p == Counts'
             q == Counts
             S == Stream
  <2>6. p \in [Thread -> Nat] /\ Continues(x, t, q, p)
    BY <1>6, <2>3, <2>5, Zenon DEF Continues
  <2>7. S \in Seq(Byte) /\ q \in [Thread -> Nat] /\ Merged(S, q)
    BY <2>2, <2>4, Zenon
  <2> HIDE DEF p, q, S
  <2>8. Merged(S \o x, p)
    BY ONLY <2>6, <2>7, t \in Thread, x \in Seq(Byte), MergedAppend, Zenon
  <2> QED BY <2>2, <2>5, <2>8, Zenon DEF StreamInv, p, S
<1>13. CASE core' = w.pc /\ c = None /\ k = len /\ done + n = len
  <2>1. Queued(t)' = (a + len) + 0 /\ s = a + done /\ done + n = len
    BY <1>2, <1>8, <1>13, Zenon DEF Queued, In
  <2>2. Queued(t)' = s + n
    BY ONLY <2>1, done \in Nat, n \in Nat, a \in Nat
  <2> QED BY <1>12, <1>13, <2>2, Zenon
<1>14. CASE core' = w.pc /\ c = more /\ k = 0
  <2>1. c # None /\ c.op = "write" /\ c.done = done + n
    BY <1>14, <1>a, PipeAssumption, Zenon
  <2>2. Queued(t)' = (a + 0) + (done + n) /\ s = a + done
    BY <1>2, <1>8, <1>14, <2>1, Zenon DEF Queued, In
  <2>3. Queued(t)' = s + n
    BY ONLY <2>2, done \in Nat, n \in Nat, a \in Nat
  <2> QED BY <1>12, <1>14, <2>3, Zenon
<1> QED BY <1>7, <1>11, <1>13, <1>14, Zenon

\* Every step keeps the stream.
LEMMA StepStream == PipeInv /\ StreamInv /\ [Next]_vars => StreamInv'
<1> SUFFICES ASSUME PipeInv, StreamInv, [Next]_vars PROVE StreamInv'
  BY Zenon
<1>1. ASSUME NEW t \in Thread PROVE ~(In(t, "write") /\ (In(t, "put_read") \/ In(t, "put_write")))
  BY DEF In
<1>2. ASSUME NEW t \in Thread, pipe_open(t) PROVE StreamInv'
  BY <1>2, OpenStream, Zenon
<1>3. ASSUME NEW t \in Thread, NEW u \in Thread, fork(t, u) PROVE StreamInv'
  <2>1. core' = core /\ received' = received /\ sent' = sent /\ call' = call
    BY <1>3, Zenon DEF fork, pipe
  <2> QED BY <2>1, SameQueued, SameStream, Zenon
<1>4. ASSUME NEW t \in Thread, close_read(t) PROVE StreamInv'
  <2>1. core' = core /\ received' = received /\ sent' = sent /\ ~In(t, "write")
    BY <1>4, Zenon DEF close_read, pipe, In
  <2>2. PICK c \in Call \cup {None} : (c # None => c.op # "write") /\ call' = [call EXCEPT ![t] = c]
    <3>1. [op |-> "put_read"] \in Call /\ [op |-> "put_read"].op # "write"
      BY DEF Call
    <3> QED BY <1>4, <3>1, Zenon DEF close_read
  <2> QED BY <2>1, <2>2, QuietStream, Zenon
<1>5. ASSUME NEW t \in Thread, close_write(t) PROVE StreamInv'
  <2>1. core' = core /\ received' = received /\ sent' = sent /\ ~In(t, "write")
    BY <1>5, Zenon DEF close_write, pipe, In
  <2>2. PICK c \in Call \cup {None} : (c # None => c.op # "write") /\ call' = [call EXCEPT ![t] = c]
    <3>1. [op |-> "put_write"] \in Call /\ [op |-> "put_write"].op # "write"
      BY DEF Call
    <3> QED BY <1>5, <3>1, Zenon DEF close_write
  <2> QED BY <2>1, <2>2, QuietStream, Zenon
<1>6. ASSUME NEW t \in Thread, pipe_release_read(t) \/ pipe_release_write(t) PROVE StreamInv'
  <2>1. core' = core /\ received' = received /\ sent' = sent /\ call' = [call EXCEPT ![t] = None]
    BY <1>6, Zenon DEF pipe_release_read, pipe_release_write, Return
  <2>2. ~In(t, "write")
    BY <1>1, <1>6, Zenon DEF pipe_release_read, pipe_release_write
  <2>3. None \in Call \cup {None}
    BY Zenon
  <2> QED BY <2>1, <2>2, <2>3, QuietStream, Zenon
<1>7. ASSUME NEW t \in Thread, NEW len \in 1..MaxLen, pipe_read(t, len) PROVE StreamInv'
  <2>1. call[t] = None /\ read_pass(t, len)
    BY <1>7, Zenon DEF pipe_read
  <2> QED BY <2>1, ReadStream, Zenon
<1>8. ASSUME NEW t \in Thread, NEW len \in 1..MaxLen, pipe_write(t, len) PROVE StreamInv'
  <2>1. call[t] = None /\ write_pass(t, len, 0) /\ sent[t] + len <= MaxBytes
    BY <1>8, Zenon DEF pipe_write
  <2>2. 0 \in Nat /\ 0 < len
    BY PipeAssumption
  <2>3. Queued(t) = sent[t] + 0
    BY <2>1, Zenon DEF Queued, In
  <2> QED BY <2>1, <2>2, <2>3, WriteStream, Zenon
<1>9. ASSUME NEW t \in Thread, pipe_read_again(t) PROVE StreamInv'
  <2>1. In(t, "read") /\ call[t].op = "read" /\ read_pass(t, call[t].len)
    BY <1>9, Zenon DEF pipe_read_again, Awake, In
  <2>2. call[t].len \in 1..MaxLen
    BY <2>1, Zenon DEF PipeInv, Calls
  <2> QED BY <2>1, <2>2, ReadStream, Zenon
<1>10. ASSUME NEW t \in Thread, pipe_write_again(t) PROVE StreamInv'
  <2>1. In(t, "write") /\ call[t].op = "write" /\ write_pass(t, call[t].len, call[t].done)
    BY <1>10, Zenon DEF pipe_write_again, Awake, In
  <2>2. /\ call[t].len \in 1..MaxLen /\ call[t].done \in Nat
        /\ call[t].done < call[t].len /\ sent[t] + call[t].len <= MaxBytes
    BY <2>1, Zenon DEF PipeInv, Calls
  <2>3. Queued(t) = sent[t] + call[t].done
    BY <2>1, Zenon DEF Queued
  <2> QED BY <2>1, <2>2, <2>3, WriteStream, Zenon
<1>11. CASE UNCHANGED vars
  <2>1. core' = core /\ call' = call /\ sent' = sent /\ received' = received
    BY <1>11 DEF vars, pipe
  <2> QED BY <2>1, SameQueued, SameStream, Zenon
<1> QED BY <1>2, <1>3, <1>4, <1>5, <1>6, <1>7, <1>8, <1>9, <1>10, <1>11, Zenon DEF Next

\* What readers receive and the ring still holds is every writer's stream,
\* whole and in order, for any number of readers and writers, any capacity
\* and any lengths (pipe_read, pipe_write, pipe_core_read, pipe_core_write).
THEOREM StreamsIntact == Spec => []StreamIntact
<1>1. PipeInv /\ StreamInv => StreamIntact
  <2> SUFFICES ASSUME PipeInv, StreamInv PROVE StreamIntact
    BY Zenon
  <2>1. eof => writers = 0 /\ core.count = 0
    BY Zenon DEF PipeInv, TypeOK, Flow
  <2>2. Stream \in Seq(Byte) /\ DOMAIN Stream = 1..Len(Stream)
    <3>1. received \in Seq(Byte) /\ Contents(core) \in Seq(Byte)
      BY ContentsWrap, Zenon DEF PipeInv, TypeOK
    <3> QED BY <3>1 DEF Stream
  <2>3. \A t \in Thread : Counts[t] = Queued(t)
    BY Zenon DEF Counts
  <2>4. ASSUME NEW b \in Range(Stream)
        PROVE  \E t \in Thread : b \in {t} \X (1..Queued(t))
    <3>1. PICK j \in 1..Len(Stream) : b = Stream[j]
      BY <2>2, Zenon DEF Range
    <3>2. b \in Thread \X Nat /\ b[2] \in 1..Counts[b[1]]
      BY <3>1, Zenon DEF StreamInv, Merged
    <3>3. b[1] \in Thread /\ b = <<b[1], b[2]>>
      BY ONLY <3>2
    <3>4. b[2] \in 1..Queued(b[1])
      BY <2>3, <3>2, <3>3, Zenon
    <3>5. b \in {b[1]} \X (1..Queued(b[1]))
      BY ONLY <3>3, <3>4
    <3> QED BY ONLY <3>3, <3>5, Zenon
  <2>5. ASSUME NEW t \in Thread, NEW b \in {t} \X (1..Queued(t))
        PROVE  b \in Range(Stream)
    <3>1. b = <<t, b[2]>> /\ b[2] \in 1..Queued(t)
      OBVIOUS
    <3>2. b[2] \in 1..Counts[t]
      BY <2>3, <3>1, Zenon
    <3>3. PICK j \in 1..Len(Stream) : Stream[j] = <<t, b[2]>>
      BY <3>2, Zenon DEF StreamInv, Merged
    <3> QED BY <2>2, <3>1, <3>3, Zenon DEF Range
  <2>6. Range(Stream) = UNION {{t} \X (1..Queued(t)) : t \in Thread}
    BY <2>4, <2>5, Zenon
  <2>7. \A j, k \in DOMAIN Stream :
          j < k /\ Stream[j][1] = Stream[k][1] => Stream[j][2] < Stream[k][2]
    BY <2>2, Zenon DEF StreamInv, Merged
  <2> QED BY ONLY <2>1, <2>6, <2>7, Zenon DEF StreamIntact
<1> QED BY <1>1, PipeInvariant, InitStream, StepStream, PTL DEF Spec
=============================================================================
