--------------------------- MODULE SchedulerProofs ---------------------------
(***************************************************************************)
(* Proofs about Scheduler, for any threads, mutexes and sleep bound.       *)
(*                                                                         *)
(* The inductive invariant says where each thread is, by its state and by  *)
(* the call it is inside; the properties of Scheduler follow from it, and  *)
(* the refinement of FifoLock.                                             *)
(***************************************************************************)
EXTENDS Scheduler, QueueTheorems, TLAPS

\* Each thread state has its place: the ready queue holds exactly the READY
\* threads (idle apart), the sleep list the SLEEPING ones.
QueueInv(st, rq) ==
  /\ IsInjective(rq)
  /\ \A t \in Thread : t \in Range(rq) <=> st[t] = "READY" /\ t # Idle

SleepInv ==
  /\ IsInjective(sleepers)
  /\ \A t \in Thread : t \in Range(sleepers) <=> state[t] = "SLEEPING"
  /\ \A i, j \in 1..Len(sleepers) :
       i < j => wake_in[sleepers[i]] <= wake_in[sleepers[j]]
  /\ \A i \in 1..Len(sleepers) : wake_in[sleepers[i]] > 0

\* A BLOCKED thread is published at the mutex or the thread its call names.
BlockInv ==
  /\ \A m \in Mutex :
       /\ IsInjective(waiters[m])
       /\ \A t \in Thread :
            t \in Range(waiters[m]) <=> state[t] = "BLOCKED" /\ call[t] = m
  /\ \A t, u \in Thread : joiner[u] = t <=> state[t] = "BLOCKED" /\ call[t] = u
  /\ \A t \in Thread : state[t] = "BLOCKED" => call[t] # None

\* One thread runs; idle is left RUNNING when it is preempted.
RunInv ==
  /\ state[current] = "RUNNING"
  /\ \A t \in Thread \ {Idle} : state[t] = "RUNNING" => t = current
  /\ current = Idle => ready = <<>>

IdleInv ==
  /\ state[Idle] \in {"READY", "RUNNING"}
  /\ state[Boot] \notin {"ZOMBIE", "UNUSED"}
  /\ call[Idle] = None
  /\ \A m \in Mutex : owner[m] # Idle

DeadInv ==
  \A t \in Thread : state[t] \in {"ZOMBIE", "UNUSED"} =>
    call[t] = None /\ \A m \in Mutex : owner[m] # t

MutexInv ==
  \A m \in Mutex :
    /\ owner[m] = None => waiters[m] = <<>>
    /\ \A t \in Thread : call[t] = m => (state[t] = "BLOCKED" <=> owner[m] # t)

JoinInv ==
  \A t, u \in Thread : call[t] = u =>
    /\ u \notin {t, Idle, Boot}
    /\ state[u] # "UNUSED"
    /\ state[t] = "BLOCKED" <=> state[u] # "ZOMBIE"
    /\ \A v \in Thread : call[v] = u => v = t

Inv ==
  /\ TypeOK
  /\ QueueInv(state, ready)
  /\ SleepInv /\ BlockInv /\ RunInv /\ IdleInv /\ DeadInv /\ MutexInv /\ JoinInv

-----------------------------------------------------------------------------
(* The ready queue and the context switch                                  *)

\* The caller of schedule() has put itself where it belongs in st and rq.
Placed(st, rq) ==
  /\ st \in [Thread -> ThreadState]
  /\ rq \in Seq(Thread)
  /\ QueueInv(st, rq)
  /\ st[Idle] \in {"READY", "RUNNING"}
  /\ \A t \in Thread \ {Idle} : st[t] = "RUNNING" => t = current
  /\ rq # <<>> => current = Idle \/ st[current] # "RUNNING"

\* The states in which a thread is neither running nor about to run.
Parked == {"SLEEPING", "BLOCKED", "ZOMBIE", "UNUSED"}

\* What every step that moves threads between READY and RUNNING ensures.
Dispatched(st) ==
  /\ state' \in [Thread -> ThreadState]
  /\ current' \in Thread
  /\ ready' \in Seq(Thread)
  /\ QueueInv(state', ready')
  /\ RunInv'
  /\ state'[Idle] \in {"READY", "RUNNING"}
  /\ \A t \in Thread : st[t] \in Parked \/ state'[t] \in Parked => state'[t] = st[t]

\* schedule() runs the head of the queue, or the caller, or idle, and parks
\* or unparks nobody.
LEMMA ScheduleDispatches ==
  ASSUME NEW st, NEW rq, current \in Thread, Placed(st, rq), schedule(st, rq)
  PROVE  Dispatched(st)
<1> DEFINE next == IF rq # <<>> THEN Head(rq)
                   ELSE IF st[current] = "RUNNING" THEN current ELSE Idle
<1>1. /\ current' = next
      /\ state' = [st EXCEPT ![next] = "RUNNING"]
      /\ ready' = IF rq # <<>> THEN Tail(rq) ELSE rq
  BY DEF schedule
<1>2. /\ st \in [Thread -> ThreadState] /\ rq \in Seq(Thread)
      /\ IsInjective(rq)
      /\ \A t \in Thread : t \in Range(rq) <=> st[t] = "READY" /\ t # Idle
      /\ st[Idle] \in {"READY", "RUNNING"}
      /\ \A t \in Thread \ {Idle} : st[t] = "RUNNING" => t = current
      /\ rq # <<>> => current = Idle \/ st[current] # "RUNNING"
      /\ Idle \in Thread
  BY SchedAssumption DEF Placed, QueueInv
<1>3. CASE rq # <<>>
  <2>1. /\ Head(rq) \in Thread /\ Head(rq) \in Range(rq) /\ Tail(rq) \in Seq(Thread)
        /\ IsInjective(Tail(rq))
        /\ \A y : y \in Range(Tail(rq)) <=> y \in Range(rq) /\ y # Head(rq)
    BY <1>2, <1>3, TailQueue
  <2>2. current' = Head(rq) /\ ready' = Tail(rq) /\ next = Head(rq)
    BY <1>1, <1>3, Zenon
  <2>3. st[next] = "READY" /\ next # Idle /\ next \in Thread
    BY <1>2, <2>1, <2>2, Zenon
  <2> HIDE DEF next
  <2>4. /\ state' \in [Thread -> ThreadState]
        /\ state'[next] = "RUNNING"
        /\ \A t \in Thread : t # next => state'[t] = st[t]
    BY <1>1, <1>2, <2>3 DEF ThreadState
  <2>5. \A t \in Thread \ {Idle} : t # next => st[t] # "RUNNING"
    BY <1>2, <1>3, <2>3, Zenon
  <2>6. QueueInv(state', ready')
    BY <1>2, <2>1, <2>2, <2>3, <2>4, Zenon DEF QueueInv
  <2>7. RunInv'
    BY <2>2, <2>3, <2>4, <2>5, Zenon DEF RunInv
  <2> QED
    BY <1>2, <2>1, <2>2, <2>3, <2>4, <2>6, <2>7, Zenon DEF Dispatched, Parked
<1>4. CASE rq = <<>>
  <2>1. next \in Thread /\ current' = next /\ ready' = <<>>
    BY <1>1, <1>2, <1>4, Zenon
  <2>2. \A t \in Thread : ~(st[t] = "READY" /\ t # Idle)
    <3>1. \A t : t \notin Range(rq)
      BY <1>4 DEF Range
    <3> QED BY <1>2, <3>1, Zenon
  <2>3. next = Idle \/ st[next] = "RUNNING"
    BY <1>4, Zenon
  <2>4. \A t \in Thread \ {Idle} : st[t] = "RUNNING" => t = next
    BY <1>2, <1>4, Zenon
  <2> HIDE DEF next
  <2>5. /\ state' \in [Thread -> ThreadState]
        /\ state'[next] = "RUNNING"
        /\ \A t \in Thread : t # next => state'[t] = st[t]
    BY <1>1, <1>2, <2>1, Zenon DEF ThreadState
  <2>6. QueueInv(state', ready')
    BY <1>2, <1>4, <2>1, <2>2, <2>3, <2>5, Zenon DEF QueueInv
  <2>7. RunInv'
    BY <2>1, <2>4, <2>5 DEF RunInv
  <2> QED
    BY <1>2, <1>4, <2>1, <2>3, <2>5, <2>6, <2>7, Zenon DEF Dispatched, Parked
<1> QED BY <1>3, <1>4

\* Making a thread ready appends it to the queue.
LEMMA EnqueueQueue ==
  ASSUME NEW st \in [Thread -> ThreadState], NEW rq \in Seq(Thread),
         QueueInv(st, rq), NEW t \in Thread, t # Idle, st[t] # "READY"
  PROVE  /\ enqueued(st, t) \in [Thread -> ThreadState]
         /\ enqueued(st, t)[t] = "READY"
         /\ \A u \in Thread : u # t => enqueued(st, t)[u] = st[u]
         /\ Append(rq, t) \in Seq(Thread) /\ Append(rq, t) # <<>>
         /\ QueueInv(enqueued(st, t), Append(rq, t))
<1>1. IsInjective(rq) /\ t \notin Range(rq)
  BY DEF QueueInv
<1>2. /\ Append(rq, t) \in Seq(Thread) /\ Append(rq, t) # <<>>
      /\ IsInjective(Append(rq, t))
      /\ \A y : y \in Range(Append(rq, t)) <=> y \in Range(rq) \/ y = t
  BY <1>1, AppendQueue, Zenon
<1>3. /\ enqueued(st, t) \in [Thread -> ThreadState]
      /\ enqueued(st, t)[t] = "READY"
      /\ \A u \in Thread : u # t => enqueued(st, t)[u] = st[u]
  BY DEF enqueued, ThreadState
<1>4. QueueInv(enqueued(st, t), Append(rq, t))
  BY <1>2, <1>3 DEF QueueInv
<1> QED BY <1>2, <1>3, <1>4

\* A caller that puts itself back on the queue has placed itself.
LEMMA RequeueDispatches ==
  ASSUME NEW st \in [Thread -> ThreadState], NEW rq \in Seq(Thread), current \in Thread,
         QueueInv(st, rq), st[Idle] \in {"READY", "RUNNING"}, st[current] = "RUNNING",
         \A t \in Thread \ {Idle} : st[t] = "RUNNING" => t = current,
         requeue_and_schedule(st, rq)
  PROVE  Dispatched(st)
<1>0. Idle \in Thread
  BY SchedAssumption
<1>1. CASE current = Idle
  <2>1. Placed(st, rq)
    BY <1>1 DEF Placed
  <2>2. schedule(st, rq)
    BY <1>1 DEF requeue_and_schedule
  <2> QED BY <2>1, <2>2, ScheduleDispatches
<1>2. CASE current # Idle
  <2> DEFINE st2 == enqueued(st, current)
             rq2 == Append(rq, current)
  <2>1. /\ st2 \in [Thread -> ThreadState]
        /\ st2[current] = "READY"
        /\ \A u \in Thread : u # current => st2[u] = st[u]
        /\ rq2 \in Seq(Thread) /\ rq2 # <<>> /\ QueueInv(st2, rq2)
    BY <1>2, EnqueueQueue
  <2>2. schedule(st2, rq2)
    BY <1>2 DEF requeue_and_schedule
  <2> HIDE DEF st2, rq2
  <2>3. Placed(st2, rq2)
    BY <1>0, <1>2, <2>1 DEF Placed
  <2>4. Dispatched(st2)
    BY <2>2, <2>3, ScheduleDispatches
  <2> QED BY <2>1, <2>4, Zenon DEF Dispatched, Parked
<1> QED BY <1>1, <1>2

\* A step that leaves the sleep list alone and changes who is READY or
\* RUNNING only.
LEMMA SleepKept ==
  ASSUME SleepInv, UNCHANGED <<sleepers, wake_in>>,
         \A t \in Thread : state'[t] = "SLEEPING" <=> state[t] = "SLEEPING"
  PROVE  SleepInv'
BY DEF SleepInv

\* The parts of the invariant that tie calls to waiting places.
CallInv == BlockInv /\ DeadInv /\ MutexInv /\ JoinInv

\* A step that blocks, unblocks, creates and frees nobody keeps the part of
\* the invariant about calls.
LEMMA CallKept ==
  ASSUME CallInv, UNCHANGED <<joiner, owner, waiters, call>>,
         \A t \in Thread : /\ state'[t] = "BLOCKED" <=> state[t] = "BLOCKED"
                           /\ state'[t] = "ZOMBIE" <=> state[t] = "ZOMBIE"
                           /\ state'[t] = "UNUSED" <=> state[t] = "UNUSED"
  PROVE  CallInv'
<1>1. BlockInv'
  BY DEF BlockInv, CallInv
<1>2. DeadInv'
  BY DEF DeadInv, CallInv
<1>3. MutexInv'
  BY DEF MutexInv, CallInv
<1>4. JoinInv'
  BY DEF JoinInv, CallInv
<1> QED BY <1>1, <1>2, <1>3, <1>4, Zenon DEF CallInv

\* The invariant of the next state, from its parts.
LEMMA InvParts ==
  ASSUME TypeOK', QueueInv(state', ready'), SleepInv', CallInv', RunInv', IdleInv'
  PROVE  Inv'
BY DEF Inv, CallInv

-----------------------------------------------------------------------------
(* Inv is inductive: one lemma per action                                  *)

\* The state sched_init leaves satisfies the invariant.
LEMMA InitInv == Init => Inv
<1> SUFFICES ASSUME Init PROVE Inv
  OBVIOUS
<1> USE SchedAssumption DEF Init
<1>1. TypeOK
  BY SeqEmpty DEF TypeOK, ThreadState
<1>2. QueueInv(state, ready)
  BY DEF QueueInv, Range, IsInjective
<1>3. SleepInv
  BY SeqEmpty DEF SleepInv, Range, IsInjective
<1>4. BlockInv
  <2>1. \A t \in Thread : state[t] # "BLOCKED"
    BY Zenon
  <2>2. \A m \in Mutex : waiters[m] = <<>> /\ IsInjective(waiters[m]) /\ Range(waiters[m]) = {}
    BY DEF IsInjective, Range
  <2>3. \A t, u \in Thread : joiner[u] # t
    OBVIOUS
  <2> QED BY <2>1, <2>2, <2>3, Zenon DEF BlockInv
<1>5. RunInv /\ IdleInv /\ DeadInv
  BY DEF RunInv, IdleInv, DeadInv
<1>6. MutexInv /\ JoinInv
  BY DEF MutexInv, JoinInv
<1> QED BY <1>1, <1>2, <1>3, <1>4, <1>5, <1>6, Zenon DEF Inv

\* sched_yield keeps the invariant: the caller goes to the back of the queue.
LEMMA YieldInv == ASSUME Inv, sched_yield PROVE Inv'
<1>1. Dispatched(state)
  <2>1. /\ state \in [Thread -> ThreadState] /\ ready \in Seq(Thread) /\ current \in Thread
        /\ QueueInv(state, ready)
    BY DEF Inv, TypeOK
  <2>2. /\ state[Idle] \in {"READY", "RUNNING"} /\ state[current] = "RUNNING"
        /\ \A t \in Thread \ {Idle} : state[t] = "RUNNING" => t = current
    BY DEF Inv, RunInv, IdleInv
  <2>3. requeue_and_schedule(state, ready)
    BY DEF sched_yield
  <2> QED BY <2>1, <2>2, <2>3, RequeueDispatches, Zenon
<1>2. UNCHANGED <<sleepers, wake_in, joiner, owner, waiters, call>>
  BY DEF sched_yield
<1>3. TypeOK'
  BY <1>1, <1>2, Zenon DEF Inv, TypeOK, Dispatched
<1>4. SleepInv'
  BY <1>1, <1>2, SleepKept DEF Inv, Dispatched, Parked
<1>5. CallInv'
  BY <1>1, <1>2, CallKept, Zenon DEF Inv, CallInv, Dispatched, Parked
<1>6. IdleInv'
  BY <1>1, <1>2, SchedAssumption DEF Inv, IdleInv, Dispatched, Parked
<1> QED BY <1>1, <1>3, <1>4, <1>5, <1>6, InvParts, Zenon DEF Dispatched

\* thread_create keeps the invariant: the new thread is queued once.
LEMMA CreateInv ==
  ASSUME Inv, NEW t \in Thread, thread_create(t)
  PROVE  Inv'
<1>1. /\ current # Idle /\ state[t] = "UNUSED" /\ state' = enqueued(state, t)
      /\ ready' = Append(ready, t)
      /\ UNCHANGED <<current, sleepers, wake_in, joiner, owner, waiters, call>>
  BY DEF thread_create, Calling
<1>2. t # Idle /\ t # Boot /\ t # current
  BY <1>1, Zenon DEF Inv, IdleInv, RunInv
<1>3. /\ state' \in [Thread -> ThreadState]
      /\ state'[t] = "READY"
      /\ \A u \in Thread : u # t => state'[u] = state[u]
      /\ ready' \in Seq(Thread) /\ QueueInv(state', ready')
  BY <1>1, <1>2, EnqueueQueue, Zenon DEF Inv, TypeOK
<1>4. TypeOK'
  BY <1>1, <1>3, Zenon DEF Inv, TypeOK
<1>5. SleepInv'
  BY <1>1, <1>3, SleepKept DEF Inv
<1>6. CallInv'
  <2>1. call[t] = None /\ \A u \in Thread : call[u] # t
    BY <1>1 DEF Inv, DeadInv, JoinInv
  <2>2. BlockInv'
    BY <1>1, <1>3 DEF Inv, BlockInv
  <2>3. DeadInv'
    BY <1>1, <1>3 DEF Inv, DeadInv
  <2>4. MutexInv'
    BY <1>1, <1>3, <2>1, SchedAssumption DEF Inv, MutexInv
  <2>5. JoinInv'
    BY <1>1, <1>3, <2>1, SchedAssumption DEF Inv, JoinInv
  <2> QED BY <2>2, <2>3, <2>4, <2>5 DEF CallInv
<1>7. RunInv'
  BY <1>1, <1>2, <1>3, Zenon DEF Inv, RunInv, TypeOK
<1>8. IdleInv'
  BY <1>1, <1>2, <1>3, SchedAssumption, Zenon DEF Inv, IdleInv
<1> QED BY <1>3, <1>4, <1>5, <1>6, <1>7, <1>8, InvParts, Zenon

\* thread_exit keeps the invariant: the zombie is on no list and the joiner it
\* wakes is queued.
LEMMA ExitInv == ASSUME Inv, thread_exit PROVE Inv'
<1> DEFINE zombie == [state EXCEPT ![current] = "ZOMBIE"]
           j == joiner[current]
           st == IF j # None THEN enqueued(zombie, j) ELSE zombie
           rq == IF j # None THEN Append(ready, j) ELSE ready
<1>1. /\ current # Idle /\ current # Boot /\ call[current] = None
      /\ \A m \in Mutex : owner[m] # current
      /\ joiner' = [joiner EXCEPT ![current] = None]
      /\ schedule(st, rq)
      /\ UNCHANGED <<sleepers, wake_in, owner, waiters, call>>
  BY Zenon DEF thread_exit, Calling, HoldsNoMutex
<1>2. /\ current \in Thread /\ state \in [Thread -> ThreadState] /\ ready \in Seq(Thread)
      /\ joiner \in [Thread -> Thread \cup {None}]
      /\ Idle \in Thread /\ Boot \in Thread /\ None \notin Thread /\ None \notin Mutex
  BY SchedAssumption, Zenon DEF Inv, TypeOK
<1>3. /\ zombie \in [Thread -> ThreadState]
      /\ zombie[current] = "ZOMBIE"
      /\ \A t \in Thread : t # current => zombie[t] = state[t]
  BY <1>2, Zenon DEF ThreadState
<1>4. QueueInv(zombie, ready)
  <2>1. state[current] = "RUNNING"
    BY Zenon DEF Inv, RunInv
  <2> HIDE DEF zombie
  <2> QED BY <1>2, <1>3, <2>1, Zenon DEF Inv, QueueInv
<1>5. ASSUME j # None
      PROVE  j \in Thread /\ j # current /\ j # Idle /\ state[j] = "BLOCKED" /\ call[j] = current
  BY <1>1, <1>2, <1>5 DEF Inv, BlockInv, IdleInv, JoinInv
<1>6. /\ st \in [Thread -> ThreadState] /\ rq \in Seq(Thread) /\ QueueInv(st, rq)
      /\ st[current] = "ZOMBIE"
      /\ \A t \in Thread : t # current /\ t # j => st[t] = state[t]
      /\ j # None => st[j] = "READY"
  <2> HIDE DEF zombie, j
  <2>1. CASE j # None
    BY <1>2, <1>3, <1>4, <1>5, <2>1, EnqueueQueue
  <2>2. CASE j = None
    BY <1>2, <1>3, <1>4, <2>2, Zenon
  <2> QED BY <2>1, <2>2, Zenon
<1> HIDE DEF zombie, j, st, rq
<1>7. Placed(st, rq)
  BY <1>1, <1>2, <1>5, <1>6, Zenon DEF Placed, Inv, RunInv, IdleInv
<1>8. Dispatched(st)
  BY <1>1, <1>2, <1>7, ScheduleDispatches, Zenon
<1>9. /\ state'[current] = "ZOMBIE"
      /\ j # None => state'[j] \in {"READY", "RUNNING"}
      /\ \A t \in Thread : t # current /\ t # j /\ (state[t] \in Parked \/ state'[t] \in Parked)
           => state'[t] = state[t]
      /\ state' \in [Thread -> ThreadState]
  BY <1>2, <1>5, <1>6, <1>8, Zenon DEF Dispatched, Parked, ThreadState
<1>10. TypeOK'
  BY <1>1, <1>2, <1>8, Zenon DEF Inv, TypeOK, Dispatched
<1>11. SleepInv'
  <2>1. \A t \in Thread : state'[t] = "SLEEPING" <=> state[t] = "SLEEPING"
    BY <1>2, <1>5, <1>9, Zenon DEF Inv, RunInv, Parked
  <2> QED BY <1>1, <2>1, SleepKept, Zenon DEF Inv
<1>12. CallInv'
  <2>0. /\ state[current] = "RUNNING"
        /\ \A t \in Thread : t # j =>
             (state'[t] = "BLOCKED" <=> state[t] = "BLOCKED")
        /\ \A t \in Thread : t # current =>
             /\ state'[t] = "ZOMBIE" <=> state[t] = "ZOMBIE"
             /\ state'[t] = "UNUSED" <=> state[t] = "UNUSED"
        /\ j # None => state'[j] # "BLOCKED"
    BY <1>2, <1>5, <1>9, Zenon DEF Inv, RunInv, Parked
  <2>1. BlockInv'
    <3>1. \A m \in Mutex : j # None => call[j] # m
      BY <1>2, <1>5, SchedAssumption, Zenon
    <3>2. \A m \in Mutex, t \in Thread :
             t \in Range(waiters[m]) <=> state'[t] = "BLOCKED" /\ call[t] = m
      BY <1>2, <2>0, <3>1, <1>5 DEF Inv, BlockInv
    <3>3. ASSUME NEW t \in Thread, NEW u \in Thread
          PROVE  joiner'[u] = t <=> state'[t] = "BLOCKED" /\ call[t] = u
      <4>1. CASE u = current
        <5>1. joiner'[u] = None
          BY <1>1, <1>2, <4>1, Zenon
        <5>2. ~(state'[t] = "BLOCKED" /\ call[t] = u)
          BY <1>2, <1>5, <2>0, <4>1 DEF Inv, BlockInv, j
        <5> QED BY <1>2, <5>1, <5>2, Zenon
      <4>2. CASE u # current
        BY <1>1, <1>2, <1>5, <2>0, <4>2 DEF Inv, BlockInv
      <4> QED BY <4>1, <4>2, Zenon
    <3> QED BY <1>1, <1>2, <2>0, <3>2, <3>3 DEF Inv, BlockInv
  <2>2. DeadInv'
    BY <1>1, <1>2, <2>0 DEF Inv, DeadInv
  <2>3. MutexInv'
    BY <1>1, <1>2, <1>5, <2>0, SchedAssumption DEF Inv, MutexInv
  <2>4. JoinInv'
    <3> SUFFICES ASSUME NEW t \in Thread, NEW u \in Thread, call[t] = u
                 PROVE  /\ u \notin {t, Idle, Boot}
                        /\ state'[u] # "UNUSED"
                        /\ state'[t] = "BLOCKED" <=> state'[u] # "ZOMBIE"
                        /\ \A v \in Thread : call[v] = u => v = t
      BY <1>1, Zenon DEF JoinInv
    <3>1. /\ u \notin {t, Idle, Boot} /\ state[u] # "UNUSED"
          /\ state[t] = "BLOCKED" <=> state[u] # "ZOMBIE"
          /\ \A v \in Thread : call[v] = u => v = t
      BY DEF Inv, JoinInv
    <3>2. t = j <=> u = current
      <4>1. CASE u = current
        BY <1>2, <2>0, <3>1, <4>1 DEF Inv, BlockInv, j
      <4>2. CASE t = j
        BY <1>2, <1>5, <4>2, Zenon
      <4> QED BY <4>1, <4>2, Zenon
    <3> QED BY <1>2, <1>9, <2>0, <3>1, <3>2, Zenon
  <2> QED BY <2>1, <2>2, <2>3, <2>4, Zenon DEF CallInv
<1>13. IdleInv'
  BY <1>1, <1>2, <1>5, <1>8, <1>9, Zenon DEF Inv, IdleInv, Dispatched, Parked
<1> QED BY <1>8, <1>10, <1>11, <1>12, <1>13, InvParts, Zenon DEF Dispatched

\* A caller that parks itself and switches away.
LEMMA ParkDispatches ==
  ASSUME Inv, current # Idle, NEW how \in Parked,
         schedule([state EXCEPT ![current] = how], ready)
  PROVE  /\ Dispatched([state EXCEPT ![current] = how])
         /\ state'[current] = how
         /\ \A t \in Thread : t # current /\ (state[t] \in Parked \/ state'[t] \in Parked)
              => state'[t] = state[t]
<1> DEFINE st == [state EXCEPT ![current] = how]
<1>1. /\ current \in Thread /\ state \in [Thread -> ThreadState] /\ ready \in Seq(Thread)
      /\ Idle \in Thread /\ Boot \in Thread /\ state[current] = "RUNNING"
      /\ how \in ThreadState /\ how # "READY" /\ how # "RUNNING"
  BY SchedAssumption, Zenon DEF Inv, TypeOK, RunInv, Parked, ThreadState
<1>2. /\ st \in [Thread -> ThreadState] /\ st[current] = how
      /\ \A t \in Thread : t # current => st[t] = state[t]
  BY <1>1
<1>3. schedule(st, ready)
  BY Zenon
<1> HIDE DEF st
<1>4. Placed(st, ready)
  BY <1>1, <1>2, Zenon DEF Placed, Inv, QueueInv, RunInv, IdleInv
<1>5. Dispatched(st)
  BY <1>1, <1>3, <1>4, ScheduleDispatches, Zenon
<1>6. /\ state'[current] = how
      /\ \A t \in Thread : t # current /\ (state[t] \in Parked \/ state'[t] \in Parked)
           => state'[t] = state[t]
  BY <1>1, <1>2, <1>5 DEF Dispatched
<1> QED BY <1>5, <1>6, Zenon DEF st

\* The end of thread_join keeps the invariant: what it frees is a zombie that
\* nothing refers to.
LEMMA JoinReturnInv ==
  ASSUME Inv, NEW t \in Thread, thread_join_return(t)
  PROVE  Inv'
<1>1. /\ call[current] = t /\ call' = [call EXCEPT ![current] = None]
      /\ state' = [state EXCEPT ![t] = "UNUSED"]
      /\ UNCHANGED <<current, ready, sleepers, wake_in, joiner, owner, waiters>>
  BY DEF thread_join_return
<1>2. /\ current \in Thread /\ state \in [Thread -> ThreadState]
      /\ call \in [Thread -> Thread \cup Mutex \cup {None}]
      /\ None \notin Thread /\ None \notin Mutex /\ Thread \cap Mutex = {}
      /\ Idle \in Thread /\ Boot \in Thread
  BY SchedAssumption DEF Inv, TypeOK
<1>3. /\ state[current] = "RUNNING" /\ state[t] = "ZOMBIE" /\ t \notin {current, Idle, Boot}
      /\ \A v \in Thread : call[v] = t => v = current
  BY <1>1, <1>2 DEF Inv, RunInv, JoinInv
<1>4. /\ state' \in [Thread -> ThreadState] /\ state'[t] = "UNUSED"
      /\ \A u \in Thread : u # t => state'[u] = state[u]
      /\ call' \in [Thread -> Thread \cup Mutex \cup {None}] /\ call'[current] = None
      /\ \A u \in Thread : u # current => call'[u] = call[u]
  BY <1>1, <1>2, Zenon DEF ThreadState
<1>5. TypeOK'
  BY <1>1, <1>4, Zenon DEF Inv, TypeOK
<1>6. QueueInv(state', ready')
  BY <1>1, <1>3, <1>4, Zenon DEF Inv, QueueInv
<1>7. SleepInv'
  BY <1>1, <1>3, <1>4, SleepKept, Zenon DEF Inv
<1>8. CallInv'
  <2>1. BlockInv'
    BY <1>1, <1>2, <1>3, <1>4 DEF Inv, BlockInv
  <2>2. DeadInv'
    BY <1>1, <1>2, <1>3, <1>4 DEF Inv, DeadInv
  <2>3. MutexInv'
    BY <1>1, <1>2, <1>3, <1>4 DEF Inv, MutexInv
  <2>4. JoinInv'
    BY <1>1, <1>2, <1>3, <1>4 DEF Inv, JoinInv
  <2> QED BY <2>1, <2>2, <2>3, <2>4, Zenon DEF CallInv
<1>9. RunInv' /\ IdleInv'
  BY <1>1, <1>2, <1>3, <1>4, Zenon DEF Inv, RunInv, IdleInv
<1> QED BY <1>5, <1>6, <1>7, <1>8, <1>9, InvParts, Zenon

\* thread_join keeps the invariant: the caller is published in the joined
\* thread before it blocks.
LEMMA JoinCallInv ==
  ASSUME Inv, NEW t \in Thread, thread_join(t)
  PROVE  Inv'
<1>1. /\ current # Idle /\ call[current] = None
      /\ \A m \in Mutex : owner[m] # current
      /\ t \notin {current, Idle, Boot} /\ state[t] # "UNUSED"
      /\ \A u \in Thread : call[u] # t
      /\ call' = [call EXCEPT ![current] = t]
      /\ UNCHANGED <<sleepers, wake_in, owner, waiters>>
  BY DEF thread_join, Calling, HoldsNoMutex
<1>2. /\ current \in Thread /\ state \in [Thread -> ThreadState]
      /\ call \in [Thread -> Thread \cup Mutex \cup {None}]
      /\ joiner \in [Thread -> Thread \cup {None}]
      /\ None \notin Thread /\ None \notin Mutex /\ Thread \cap Mutex = {}
      /\ Idle \in Thread /\ Boot \in Thread /\ state[current] = "RUNNING"
  BY SchedAssumption, Zenon DEF Inv, TypeOK, RunInv
<1>3. /\ call' \in [Thread -> Thread \cup Mutex \cup {None}] /\ call'[current] = t
      /\ \A u \in Thread : u # current => call'[u] = call[u]
  BY <1>1, <1>2
<1>4. CASE state[t] = "ZOMBIE" /\ UNCHANGED <<state, current, ready, joiner>>
  <2>1. TypeOK' /\ QueueInv(state', ready') /\ SleepInv'
    BY <1>1, <1>3, <1>4, SleepKept, Zenon DEF Inv, TypeOK
  <2>2. BlockInv'
    BY <1>1, <1>2, <1>3, <1>4 DEF Inv, BlockInv
  <2>3. DeadInv'
    BY <1>1, <1>2, <1>3, <1>4 DEF Inv, DeadInv
  <2>4. MutexInv'
    BY <1>1, <1>2, <1>3, <1>4 DEF Inv, MutexInv
  <2>5. JoinInv'
    BY <1>1, <1>2, <1>3, <1>4 DEF Inv, JoinInv
  <2>6. RunInv' /\ IdleInv'
    BY <1>1, <1>2, <1>3, <1>4, Zenon DEF Inv, RunInv, IdleInv
  <2> QED BY <2>1, <2>2, <2>3, <2>4, <2>5, <2>6, InvParts, Zenon DEF CallInv
<1>5. CASE /\ state[t] # "ZOMBIE" /\ joiner' = [joiner EXCEPT ![t] = current]
           /\ sched_block
  <2>1. /\ Dispatched([state EXCEPT ![current] = "BLOCKED"])
        /\ state'[current] = "BLOCKED"
        /\ \A u \in Thread : u # current /\ (state[u] \in Parked \/ state'[u] \in Parked)
             => state'[u] = state[u]
    BY <1>1, <1>5, ParkDispatches, Zenon DEF sched_block, Parked
  <2>2. /\ \A u \in Thread : u # current =>
             /\ state'[u] = "BLOCKED" <=> state[u] = "BLOCKED"
             /\ state'[u] = "SLEEPING" <=> state[u] = "SLEEPING"
             /\ state'[u] = "ZOMBIE" <=> state[u] = "ZOMBIE"
             /\ state'[u] = "UNUSED" <=> state[u] = "UNUSED"
        /\ joiner' \in [Thread -> Thread \cup {None}] /\ joiner'[t] = current
        /\ \A u \in Thread : u # t => joiner'[u] = joiner[u]
    BY <1>2, <1>5, <2>1, Zenon DEF Parked
  <2>3. TypeOK' /\ QueueInv(state', ready') /\ RunInv'
    BY <1>1, <1>3, <2>1, <2>2, Zenon DEF Inv, TypeOK, Dispatched
  <2>4. SleepInv'
    BY <1>1, <1>2, <2>1, <2>2, SleepKept, Zenon DEF Inv
  <2>5. BlockInv'
    <3>1. \A u \in Thread : joiner[t] # u
      BY <1>1, Zenon DEF Inv, BlockInv
    <3>2. \A m \in Mutex, u \in Thread :
            u \in Range(waiters[m]) <=> state'[u] = "BLOCKED" /\ call'[u] = m
      BY <1>1, <1>2, <1>3, <2>1, <2>2 DEF Inv, BlockInv
    <3>3. \A u, v \in Thread : joiner'[v] = u <=> state'[u] = "BLOCKED" /\ call'[u] = v
      BY <1>1, <1>2, <1>3, <2>1, <2>2, <3>1 DEF Inv, BlockInv
    <3> QED BY <1>1, <1>2, <1>3, <2>2, <3>2, <3>3 DEF Inv, BlockInv
  <2>6. DeadInv'
    BY <1>1, <1>2, <1>3, <2>1, <2>2 DEF Inv, DeadInv
  <2>7. MutexInv'
    BY <1>1, <1>2, <1>3, <2>1, <2>2 DEF Inv, MutexInv
  <2>8. JoinInv'
    BY <1>1, <1>2, <1>3, <1>5, <2>1, <2>2 DEF Inv, JoinInv
  <2>9. IdleInv'
    BY <1>1, <1>2, <1>3, <2>1, <2>2, Zenon DEF Inv, IdleInv, Dispatched
  <2> QED BY <2>3, <2>4, <2>5, <2>6, <2>7, <2>8, <2>9, InvParts, Zenon DEF CallInv
<1> QED BY <1>4, <1>5 DEF thread_join

\* mutex_lock keeps the invariant: the caller owns the lock or waits in line.
LEMMA LockInv ==
  ASSUME Inv, NEW m \in Mutex, mutex_lock(m)
  PROVE  Inv'
<1>1. /\ current # Idle /\ call[current] = None
      /\ \A k \in Mutex : owner[k] # current
      /\ UNCHANGED <<sleepers, wake_in, joiner>>
  BY DEF mutex_lock, Calling, HoldsNoMutex
<1>2. /\ current \in Thread /\ state \in [Thread -> ThreadState]
      /\ call \in [Thread -> Thread \cup Mutex \cup {None}]
      /\ owner \in [Mutex -> Thread \cup {None}] /\ waiters \in [Mutex -> Seq(Thread)]
      /\ None \notin Thread /\ None \notin Mutex /\ Thread \cap Mutex = {}
      /\ Idle \in Thread /\ Boot \in Thread /\ state[current] = "RUNNING"
  BY SchedAssumption, Zenon DEF Inv, TypeOK, RunInv
<1>3. CASE /\ owner[m] = None /\ owner' = [owner EXCEPT ![m] = current]
           /\ UNCHANGED <<state, current, ready, waiters, call>>
  <2>1. /\ owner' \in [Mutex -> Thread \cup {None}] /\ owner'[m] = current
        /\ \A k \in Mutex : k # m => owner'[k] = owner[k]
    BY <1>2, <1>3, Zenon
  <2>2. TypeOK' /\ QueueInv(state', ready') /\ SleepInv'
    BY <1>1, <1>3, <2>1, SleepKept, Zenon DEF Inv, TypeOK
  <2>3. BlockInv' /\ JoinInv' /\ RunInv'
    BY <1>1, <1>3 DEF Inv, BlockInv, JoinInv, RunInv
  <2>4. DeadInv'
    BY <1>1, <1>2, <1>3, <2>1, Zenon DEF Inv, DeadInv
  <2>5. MutexInv'
    <3>1. \A t \in Thread : ~(call[t] = m)
      <4> SUFFICES ASSUME NEW t \in Thread, call[t] = m PROVE FALSE
        OBVIOUS
      <4>1. owner[m] # t /\ state[t] = "BLOCKED" /\ waiters[m] = <<>>
        BY <1>2, <1>3, Zenon DEF Inv, MutexInv
      <4>2. t \in Range(waiters[m])
        BY <4>1, Zenon DEF Inv, BlockInv
      <4> QED BY <4>1, <4>2 DEF Range
    <3> QED BY <1>1, <1>2, <1>3, <2>1, <3>1 DEF Inv, MutexInv
  <2>6. IdleInv'
    BY <1>1, <1>2, <1>3, <2>1, Zenon DEF Inv, IdleInv
  <2> QED BY <2>2, <2>3, <2>4, <2>5, <2>6, InvParts DEF CallInv
<1>4. CASE /\ owner[m] # None /\ waiters' = [waiters EXCEPT ![m] = Append(@, current)]
           /\ call' = [call EXCEPT ![current] = m] /\ sched_block /\ UNCHANGED owner
  <2>1. /\ Dispatched([state EXCEPT ![current] = "BLOCKED"])
        /\ state'[current] = "BLOCKED"
        /\ \A u \in Thread : u # current /\ (state[u] \in Parked \/ state'[u] \in Parked)
             => state'[u] = state[u]
    BY <1>1, <1>4, ParkDispatches, Zenon DEF sched_block, Parked
  <2>2. \A u \in Thread : u # current =>
          /\ state'[u] = "BLOCKED" <=> state[u] = "BLOCKED"
          /\ state'[u] = "SLEEPING" <=> state[u] = "SLEEPING"
          /\ state'[u] = "ZOMBIE" <=> state[u] = "ZOMBIE"
          /\ state'[u] = "UNUSED" <=> state[u] = "UNUSED"
    BY <2>1 DEF Parked
  <2>3. /\ call' \in [Thread -> Thread \cup Mutex \cup {None}] /\ call'[current] = m
        /\ \A u \in Thread : u # current => call'[u] = call[u]
    BY <1>2, <1>4, Zenon
  <2>4. /\ waiters[m] \in Seq(Thread) /\ IsInjective(waiters[m])
        /\ current \notin Range(waiters[m])
    BY <1>2 DEF Inv, BlockInv
  <2>5. /\ waiters' \in [Mutex -> Seq(Thread)]
        /\ IsInjective(waiters'[m])
        /\ \A y : y \in Range(waiters'[m]) <=> y \in Range(waiters[m]) \/ y = current
        /\ \A k \in Mutex : k # m => waiters'[k] = waiters[k]
    <3>1. waiters'[m] = Append(waiters[m], current)
      BY <1>2, <1>4, Zenon
    <3>2. /\ Append(waiters[m], current) \in Seq(Thread)
          /\ IsInjective(Append(waiters[m], current))
          /\ \A y : y \in Range(Append(waiters[m], current))
                      <=> y \in Range(waiters[m]) \/ y = current
      BY <1>2, <2>4, AppendQueue, Zenon
    <3> QED BY <1>2, <1>4, <3>1, <3>2, Zenon
  <2>6. TypeOK' /\ QueueInv(state', ready') /\ RunInv'
    BY <1>1, <1>4, <2>1, <2>3, <2>5, Zenon DEF Inv, TypeOK, Dispatched
  <2>7. SleepInv'
    BY <1>1, <1>2, <2>1, <2>2, SleepKept, Zenon DEF Inv
  <2>8. BlockInv'
    <3>1. ASSUME NEW k \in Mutex
          PROVE  /\ IsInjective(waiters'[k])
                 /\ \A u \in Thread :
                      u \in Range(waiters'[k]) <=> state'[u] = "BLOCKED" /\ call'[u] = k
      <4>1. /\ IsInjective(waiters[k])
            /\ \A u \in Thread :
                 u \in Range(waiters[k]) <=> state[u] = "BLOCKED" /\ call[u] = k
        BY Zenon DEF Inv, BlockInv
      <4>2. CASE k = m
        <5>1. ASSUME NEW u \in Thread
              PROVE  u \in Range(waiters'[m]) <=> state'[u] = "BLOCKED" /\ call'[u] = m
          <6>1. CASE u = current
            BY <2>1, <2>3, <2>5, <6>1, Zenon
          <6>2. CASE u # current
            BY <2>2, <2>3, <2>5, <4>1, <4>2, <6>2, Zenon
          <6> QED BY <6>1, <6>2, Zenon
        <5> QED BY <2>5, <4>2, <5>1, Zenon
      <4>3. CASE k # m
        <5>1. waiters'[k] = waiters[k]
          BY <2>5, <4>3, Zenon
        <5>2. ASSUME NEW u \in Thread
              PROVE  u \in Range(waiters[k]) <=> state'[u] = "BLOCKED" /\ call'[u] = k
          <6>1. CASE u = current
            BY <1>2, <2>3, <4>1, <4>3, <6>1, Zenon
          <6>2. CASE u # current
            BY <2>2, <2>3, <4>1, <6>2, Zenon
          <6> QED BY <6>1, <6>2, Zenon
        <5> QED BY <4>1, <5>1, <5>2, Zenon
      <4> QED BY <4>2, <4>3, Zenon
    <3>2. \A u, v \in Thread : joiner'[v] = u <=> state'[u] = "BLOCKED" /\ call'[u] = v
      BY <1>1, <1>2, <2>1, <2>2, <2>3 DEF Inv, BlockInv
    <3> QED BY <1>2, <2>1, <2>2, <2>3, <3>1, <3>2 DEF Inv, BlockInv
  <2>9. DeadInv'
    BY <1>1, <1>2, <1>4, <2>1, <2>2, <2>3 DEF Inv, DeadInv
  <2>10. MutexInv'
    BY <1>1, <1>2, <1>4, <2>1, <2>2, <2>3, <2>5 DEF Inv, MutexInv
  <2>11. JoinInv'
    BY <1>1, <1>2, <1>4, <2>1, <2>2, <2>3 DEF Inv, JoinInv
  <2>12. IdleInv'
    BY <1>1, <1>2, <1>4, <2>1, <2>2, <2>3, Zenon DEF Inv, IdleInv, Dispatched
  <2> QED BY <2>6, <2>7, <2>8, <2>9, <2>10, <2>11, <2>12, InvParts, Zenon DEF CallInv
<1> QED BY <1>3, <1>4, Zenon DEF mutex_lock

\* Returning from a contended mutex_lock keeps the invariant.
LEMMA LockReturnInv ==
  ASSUME Inv, NEW m \in Mutex, mutex_lock_return(m)
  PROVE  Inv'
<1>1. /\ call[current] = m /\ call' = [call EXCEPT ![current] = None]
      /\ UNCHANGED <<state, current, ready, sleepers, wake_in, joiner, owner, waiters>>
  BY DEF mutex_lock_return
<1>2. /\ current \in Thread /\ state[current] = "RUNNING"
      /\ call \in [Thread -> Thread \cup Mutex \cup {None}]
      /\ None \notin Thread /\ None \notin Mutex /\ Thread \cap Mutex = {}
  BY SchedAssumption, Zenon DEF Inv, TypeOK, RunInv
<1>3. /\ call' \in [Thread -> Thread \cup Mutex \cup {None}] /\ call'[current] = None
      /\ \A u \in Thread : u # current => call'[u] = call[u]
  BY <1>1, <1>2
<1>4. TypeOK' /\ QueueInv(state', ready') /\ SleepInv'
  BY <1>1, <1>3, SleepKept, Zenon DEF Inv, TypeOK
<1>5. BlockInv'
  BY <1>1, <1>2, <1>3 DEF Inv, BlockInv
<1>6. DeadInv' /\ RunInv' /\ IdleInv'
  BY <1>1, <1>2, <1>3, SchedAssumption DEF Inv, DeadInv, RunInv, IdleInv
<1>7. MutexInv'
  BY <1>1, <1>2, <1>3 DEF Inv, MutexInv
<1>8. JoinInv'
  BY <1>1, <1>2, <1>3 DEF Inv, JoinInv
<1> QED BY <1>4, <1>5, <1>6, <1>7, <1>8, InvParts, Zenon DEF CallInv

\* mutex_unlock keeps the invariant: the lock is free only if nobody waits,
\* and the waiter that is woken owns it already.
LEMMA UnlockInv ==
  ASSUME Inv, NEW m \in Mutex, mutex_unlock(m)
  PROVE  Inv'
<1>1. /\ current # Idle /\ call[current] = None /\ owner[m] = current
      /\ UNCHANGED <<sleepers, wake_in, joiner, call>>
  BY DEF mutex_unlock, Calling
<1>2. /\ current \in Thread /\ state \in [Thread -> ThreadState] /\ ready \in Seq(Thread)
      /\ call \in [Thread -> Thread \cup Mutex \cup {None}]
      /\ owner \in [Mutex -> Thread \cup {None}] /\ waiters \in [Mutex -> Seq(Thread)]
      /\ None \notin Thread /\ None \notin Mutex /\ Thread \cap Mutex = {}
      /\ Idle \in Thread /\ Boot \in Thread /\ state[current] = "RUNNING"
  BY SchedAssumption, Zenon DEF Inv, TypeOK, RunInv
<1>3. CASE /\ waiters[m] = <<>> /\ owner' = [owner EXCEPT ![m] = None]
           /\ UNCHANGED <<state, current, ready, waiters>>
  <2>1. /\ owner' \in [Mutex -> Thread \cup {None}] /\ owner'[m] = None
        /\ \A k \in Mutex : k # m => owner'[k] = owner[k]
    BY <1>2, <1>3, Zenon
  <2>2. TypeOK' /\ QueueInv(state', ready') /\ SleepInv'
    BY <1>1, <1>3, <2>1, SleepKept, Zenon DEF Inv, TypeOK
  <2>3. BlockInv' /\ JoinInv' /\ RunInv'
    BY <1>1, <1>3 DEF Inv, BlockInv, JoinInv, RunInv
  <2>4. DeadInv' /\ IdleInv'
    BY <1>1, <1>2, <1>3, <2>1, Zenon DEF Inv, DeadInv, IdleInv
  <2>5. MutexInv'
    <3>1. \A t \in Thread : call[t] # m
      <4> SUFFICES ASSUME NEW t \in Thread, call[t] = m PROVE FALSE
        OBVIOUS
      <4>1. t # current
        BY <1>1, <1>2, Zenon
      <4>2. state[t] = "BLOCKED"
        BY <1>1, <4>1, Zenon DEF Inv, MutexInv
      <4>3. t \in Range(waiters[m])
        BY <4>2 DEF Inv, BlockInv
      <4> QED BY <1>3, <4>3 DEF Range
    <3> QED BY <1>1, <1>2, <1>3, <2>1, <3>1 DEF Inv, MutexInv
  <2> QED BY <2>2, <2>3, <2>4, <2>5, InvParts DEF CallInv
<1>4. CASE /\ waiters[m] # <<>> /\ owner' = [owner EXCEPT ![m] = Head(waiters[m])]
           /\ waiters' = [waiters EXCEPT ![m] = Tail(@)]
           /\ sched_wake(Head(waiters[m]))
  <2> DEFINE w == Head(waiters[m])
  <2>1. /\ w \in Thread /\ w \in Range(waiters[m])
        /\ Tail(waiters[m]) \in Seq(Thread) /\ IsInjective(Tail(waiters[m]))
        /\ \A y : y \in Range(Tail(waiters[m])) <=> y \in Range(waiters[m]) /\ y # w
    <3>1. waiters[m] \in Seq(Thread) /\ IsInjective(waiters[m])
      BY <1>2 DEF Inv, BlockInv
    <3> QED BY <1>4, <3>1, TailQueue, Zenon
  <2>2. /\ owner' \in [Mutex -> Thread \cup {None}] /\ owner'[m] = w
        /\ \A k \in Mutex : k # m => owner'[k] = owner[k]
        /\ waiters' \in [Mutex -> Seq(Thread)] /\ waiters'[m] = Tail(waiters[m])
        /\ \A k \in Mutex : k # m => waiters'[k] = waiters[k]
    BY <1>2, <1>4, <2>1, Zenon
  <2>3. state' = enqueued(state, w) /\ ready' = Append(ready, w) /\ current' = current
    BY <1>4, Zenon DEF sched_wake
  <2> HIDE DEF w
  <2>4. state[w] = "BLOCKED" /\ call[w] = m /\ w # Idle /\ w # current
    BY <1>1, <1>2, <2>1 DEF Inv, BlockInv, IdleInv
  <2>5. /\ state' \in [Thread -> ThreadState] /\ state'[w] = "READY"
        /\ \A u \in Thread : u # w => state'[u] = state[u]
        /\ ready' \in Seq(Thread) /\ QueueInv(state', ready')
    <3>1. /\ state \in [Thread -> ThreadState] /\ ready \in Seq(Thread) /\ w \in Thread
          /\ QueueInv(state, ready) /\ w # Idle /\ state[w] # "READY"
      BY <1>2, <2>1, <2>4 DEF Inv
    <3> QED BY ONLY <2>3, <3>1, EnqueueQueue, Zenon
  <2>6. TypeOK'
    BY <1>1, <2>2, <2>3, <2>5, Zenon DEF Inv, TypeOK
  <2>7. SleepInv'
    BY <1>1, <2>4, <2>5, SleepKept DEF Inv
  <2>8. BlockInv'
    <3>1. ASSUME NEW k \in Mutex
          PROVE  /\ IsInjective(waiters'[k])
                 /\ \A u \in Thread :
                      u \in Range(waiters'[k]) <=> state'[u] = "BLOCKED" /\ call'[u] = k
      <4>1. CASE k = m
        <5>1. IsInjective(waiters'[m])
          BY <2>1, <2>2
        <5>2. ASSUME NEW u \in Thread
              PROVE  u \in Range(waiters'[m]) <=> state'[u] = "BLOCKED" /\ call'[u] = m
          <6>1. u \in Range(waiters[m]) <=> state[u] = "BLOCKED" /\ call[u] = m
            BY DEF Inv, BlockInv
          <6>2. u \in Range(waiters'[m]) <=> u \in Range(waiters[m]) /\ u # w
            BY <2>1, <2>2
          <6> QED BY <1>1, <2>5, <6>1, <6>2
        <5> QED BY <4>1, <5>1, <5>2
      <4>2. CASE k # m
        <5>1. waiters'[k] = waiters[k]
          BY <2>2, <4>2, Zenon
        <5>2. /\ IsInjective(waiters[k])
              /\ \A u \in Thread :
                   u \in Range(waiters[k]) <=> state[u] = "BLOCKED" /\ call[u] = k
          BY Zenon DEF Inv, BlockInv
        <5> QED BY <1>1, <2>1, <2>4, <2>5, <4>2, <5>1, <5>2, Zenon
      <4> QED BY <4>1, <4>2
    <3>2. \A u, v \in Thread : joiner'[v] = u <=> state'[u] = "BLOCKED" /\ call'[u] = v
      BY <1>1, <1>2, <2>1, <2>4, <2>5 DEF Inv, BlockInv
    <3> QED BY <1>1, <2>4, <2>5, <3>1, <3>2 DEF Inv, BlockInv
  <2>9. DeadInv'
    BY <1>1, <1>2, <2>1, <2>2, <2>4, <2>5 DEF Inv, DeadInv
  <2>10. MutexInv'
    <3> SUFFICES ASSUME NEW k \in Mutex
                 PROVE  /\ owner'[k] = None => waiters'[k] = <<>>
                        /\ \A t \in Thread : call[t] = k =>
                             (state'[t] = "BLOCKED" <=> owner'[k] # t)
      BY <1>1, Zenon DEF MutexInv
    <3>1. CASE k = m
      <4>1. \A t \in Thread : call[t] = m /\ t # current => (state[t] = "BLOCKED")
        BY <1>1, Zenon DEF Inv, MutexInv
      <4> QED BY <1>1, <1>2, <2>1, <2>2, <2>4, <2>5, <3>1, <4>1
    <3>2. CASE k # m
      BY <1>1, <1>2, <2>1, <2>2, <2>4, <2>5, <3>2 DEF Inv, MutexInv
    <3> QED BY <3>1, <3>2, Zenon
  <2>11. JoinInv'
    BY <1>1, <1>2, <2>1, <2>4, <2>5 DEF Inv, JoinInv
  <2>12. RunInv' /\ IdleInv'
    BY <1>1, <1>2, <2>1, <2>2, <2>3, <2>4, <2>5 DEF Inv, RunInv, IdleInv
  <2> QED BY <2>5, <2>6, <2>7, <2>8, <2>9, <2>10, <2>11, <2>12, InvParts, Zenon DEF CallInv
<1> QED BY <1>3, <1>4, Zenon DEF mutex_unlock

\* sched_sleep_ticks keeps the list sorted: the caller goes in behind the
\* sleepers that wake no later and before the ones that wake later.
LEMMA SleepInsert ==
  ASSUME Inv, NEW n \in 1..MaxSleep, sched_core_sleep(current, n),
         \A t \in Thread : state'[t] = "SLEEPING" <=> state[t] = "SLEEPING" \/ t = current
  PROVE  SleepInv' /\ sleepers' \in Seq(Thread) /\ wake_in' \in [Thread -> 0..MaxSleep]
<1>1. /\ current \in Thread /\ sleepers \in Seq(Thread)
      /\ wake_in \in [Thread -> 0..MaxSleep] /\ MaxSleep \in Nat /\ n \in Nat /\ n > 0
      /\ state[current] = "RUNNING" /\ n \in 0..MaxSleep
  BY SchedAssumption DEF Inv, TypeOK, RunInv
<1>2. PICK k \in 0..Len(sleepers) :
        /\ \A i \in 1..k : wake_in[sleepers[i]] <= n
        /\ k < Len(sleepers) => wake_in[sleepers[k + 1]] > n
        /\ sleepers' = Append(SubSeq(sleepers, 1, k), current)
                         \o SubSeq(sleepers, k + 1, Len(sleepers))
        /\ wake_in' = [wake_in EXCEPT ![current] = n]
  BY Zenon DEF sched_core_sleep
<1>3. /\ IsInjective(sleepers) /\ current \notin Range(sleepers)
      /\ \A t \in Thread : t \in Range(sleepers) <=> state[t] = "SLEEPING"
      /\ \A i, j \in 1..Len(sleepers) :
           i < j => wake_in[sleepers[i]] <= wake_in[sleepers[j]]
      /\ \A i \in 1..Len(sleepers) : wake_in[sleepers[i]] > 0
  BY <1>1 DEF Inv, SleepInv
<1>4. /\ sleepers' \in Seq(Thread) /\ IsInjective(sleepers')
      /\ Len(sleepers') = Len(sleepers) + 1
      /\ \A y : y \in Range(sleepers') <=> y \in Range(sleepers) \/ y = current
      /\ sleepers'[k + 1] = current
      /\ \A i \in 1..k : sleepers'[i] = sleepers[i]
      /\ \A i \in (k + 2)..Len(sleepers') : sleepers'[i] = sleepers[i - 1]
  <2> DEFINE p == SubSeq(sleepers, 1, k)
             r == SubSeq(sleepers, k + 1, Len(sleepers))
  <2>1. Cut(Thread, sleepers, k, p, r)
    BY <1>1, SubSeqHalves
  <2>2. sleepers' = Append(p, current) \o r
    BY <1>2
  <2> HIDE DEF p, r
  <2>3. Inserted(Thread, sleepers, k, current, sleepers')
    BY ONLY k \in 0..Len(sleepers), <1>1, <1>3, <2>1, <2>2, InsertQueue, Zenon
  <2> QED BY ONLY <2>3 DEF Inserted
<1>5. k \in Nat /\ Len(sleepers) \in Nat /\ k <= Len(sleepers)
  BY ONLY <1>1, <1>2, RangeAt
<1>6. \A i \in 1..Len(sleepers) : sleepers[i] \in Thread /\ sleepers[i] # current
  BY ONLY <1>1, <1>3, RangeAt, Zenon
<1>7. /\ wake_in' \in [Thread -> 0..MaxSleep]
      /\ wake_in'[current] = n
      /\ \A i \in 1..Len(sleepers) : /\ wake_in'[sleepers[i]] = wake_in[sleepers[i]]
                                     /\ wake_in[sleepers[i]] \in Nat
  BY ONLY <1>1, <1>2, <1>6
<1>8. \A i \in 1..Len(sleepers) : i > k => wake_in[sleepers[i]] > n
  <2> SUFFICES ASSUME NEW i \in 1..Len(sleepers), i > k
               PROVE  wake_in[sleepers[i]] > n
    OBVIOUS
  <2>1. k + 1 \in 1..Len(sleepers) /\ k < Len(sleepers) /\ (i = k + 1 \/ k + 1 < i)
    BY <1>5
  <2>2. wake_in[sleepers[k + 1]] <= wake_in[sleepers[i]]
    BY <1>3, <1>7, <2>1
  <2>3. wake_in[sleepers[k + 1]] > n
    BY <1>2, <2>1
  <2>4. PICK x \in Nat, y \in Nat : x = wake_in[sleepers[k + 1]] /\ y = wake_in[sleepers[i]]
    BY <1>7, <2>1, Zenon
  <2>5. n \in Int
    BY <1>1
  <2> QED BY ONLY <2>2, <2>3, <2>4, <2>5
<1>9. \A i \in 1..Len(sleepers') :
        \/ /\ i <= k /\ i \in 1..Len(sleepers)
           /\ sleepers'[i] = sleepers[i]
           /\ wake_in'[sleepers'[i]] = wake_in[sleepers[i]]
           /\ wake_in[sleepers[i]] <= n
        \/ i = k + 1 /\ wake_in'[sleepers'[i]] = n
        \/ /\ i > k + 1 /\ i - 1 \in 1..Len(sleepers)
           /\ wake_in'[sleepers'[i]] = wake_in[sleepers[i - 1]]
           /\ wake_in[sleepers[i - 1]] > n
  <2> SUFFICES ASSUME NEW i \in 1..Len(sleepers')
               PROVE  \/ /\ i <= k /\ i \in 1..Len(sleepers)
                         /\ sleepers'[i] = sleepers[i]
                         /\ wake_in'[sleepers'[i]] = wake_in[sleepers[i]]
                         /\ wake_in[sleepers[i]] <= n
                      \/ i = k + 1 /\ wake_in'[sleepers'[i]] = n
                      \/ /\ i > k + 1 /\ i - 1 \in 1..Len(sleepers)
                         /\ wake_in'[sleepers'[i]] = wake_in[sleepers[i - 1]]
                         /\ wake_in[sleepers[i - 1]] > n
    BY Zenon
  <2>1. CASE i <= k
    <3>1. i \in 1..k /\ i \in 1..Len(sleepers)
      BY <1>5, <2>1
    <3>2. wake_in[sleepers[i]] <= n
      BY <1>2, <2>1, <3>1
    <3> QED BY <1>4, <1>7, <2>1, <3>1, <3>2, Zenon
  <2>2. CASE i = k + 1
    BY <1>4, <1>7, <2>2
  <2>3. CASE i > k + 1
    <3>1. i \in (k + 2)..Len(sleepers') /\ i - 1 \in 1..Len(sleepers) /\ i - 1 > k
      BY <1>4, <1>5, <2>3
    <3> QED BY <1>4, <1>7, <1>8, <2>3, <3>1, Zenon
  <2>4. i <= k \/ i = k + 1 \/ i > k + 1
    BY ONLY i \in 1..Len(sleepers'), <1>4, <1>5
  <2> QED BY ONLY <2>1, <2>2, <2>3, <2>4
<1>10. \A i, j \in 1..Len(sleepers') :
         i < j => wake_in'[sleepers'[i]] <= wake_in'[sleepers'[j]]
  <2> SUFFICES ASSUME NEW i \in 1..Len(sleepers'), NEW j \in 1..Len(sleepers'), i < j
               PROVE  wake_in'[sleepers'[i]] <= wake_in'[sleepers'[j]]
    OBVIOUS
  <2>1. i \in Nat /\ j \in Nat
    BY ONLY i \in 1..Len(sleepers'), j \in 1..Len(sleepers'), <1>4, <1>5
  <2>2. CASE j <= k
    <3>1. i <= k /\ i # k + 1 /\ ~(i > k + 1) /\ j # k + 1 /\ ~(j > k + 1)
      BY ONLY i < j, <1>5, <2>1, <2>2
    <3> QED BY <1>3, <1>9, <3>1, Zenon
  <2>3. CASE j = k + 1
    <3>1. i # k + 1 /\ ~(i > k + 1) /\ ~(j <= k) /\ ~(j > k + 1)
      BY ONLY i < j, <1>5, <2>1, <2>3
    <3> QED BY <1>9, <3>1, Zenon
  <2>4. CASE j > k + 1
    <3>1. /\ j - 1 \in 1..Len(sleepers)
          /\ wake_in'[sleepers'[j]] = wake_in[sleepers[j - 1]]
          /\ wake_in[sleepers[j - 1]] > n /\ wake_in[sleepers[j - 1]] \in Nat
      <4>1. ~(j <= k) /\ j # k + 1
        BY ONLY <1>5, <2>1, <2>4
      <4> QED BY <1>7, <1>9, <4>1, Zenon
    <3>2. CASE i <= k
      <4>1. /\ wake_in'[sleepers'[i]] <= n /\ wake_in'[sleepers'[i]] \in Nat
        <5>1. i # k + 1 /\ ~(i > k + 1)
          BY ONLY <1>5, <2>1, <3>2
        <5> QED BY <1>7, <1>9, <5>1, Zenon
      <4>2. PICK x \in Nat, y \in Nat :
              x = wake_in'[sleepers'[i]] /\ y = wake_in'[sleepers'[j]] /\ x <= n /\ y > n
        BY <1>1, <3>1, <4>1, Zenon
      <4>3. n \in Nat
        BY <1>1
      <4> QED BY ONLY <4>2, <4>3
    <3>3. CASE i = k + 1
      <4>1. wake_in'[sleepers'[i]] = n
        BY <1>4, <1>7, <3>3, Zenon
      <4>2. PICK x \in Nat, y \in Nat :
              x = wake_in'[sleepers'[i]] /\ y = wake_in'[sleepers'[j]] /\ x = n /\ y > n
        BY <1>1, <3>1, <4>1, Zenon
      <4>3. n \in Nat
        BY <1>1
      <4> QED BY ONLY <4>2, <4>3
    <3>4. CASE i > k + 1
      <4>1. /\ i - 1 \in 1..Len(sleepers) /\ i - 1 < j - 1
            /\ wake_in'[sleepers'[i]] = wake_in[sleepers[i - 1]]
        <5>1. ~(i <= k) /\ i # k + 1 /\ i - 1 < j - 1
          BY ONLY i < j, <1>5, <2>1, <3>4
        <5> QED BY <1>9, <5>1, Zenon
      <4> QED BY <1>3, <3>1, <4>1, Zenon
    <3> QED BY ONLY <1>5, <2>1, <3>2, <3>3, <3>4
  <2> QED BY ONLY <1>5, <2>1, <2>2, <2>3, <2>4
<1>11. \A i \in 1..Len(sleepers') : wake_in'[sleepers'[i]] > 0
  BY <1>1, <1>3, <1>7, <1>9, Zenon
<1>12. \A t \in Thread : t \in Range(sleepers') <=> state'[t] = "SLEEPING"
  BY <1>3, <1>4
<1> QED BY <1>4, <1>7, <1>10, <1>11, <1>12, Zenon DEF SleepInv

\* sched_sleep_ticks keeps the invariant.
LEMMA SleepTicksInv ==
  ASSUME Inv, NEW n \in 1..MaxSleep, sched_sleep_ticks(n)
  PROVE  Inv'
<1>1. /\ current # Idle /\ call[current] = None
      /\ sched_core_sleep(current, n)
      /\ schedule([state EXCEPT ![current] = "SLEEPING"], ready)
      /\ UNCHANGED <<joiner, owner, waiters, call>>
  BY DEF sched_sleep_ticks, Calling
<1>2. /\ current \in Thread /\ state[current] = "RUNNING"
      /\ Idle \in Thread /\ Boot \in Thread
  BY SchedAssumption, Zenon DEF Inv, TypeOK, RunInv
<1>3. /\ Dispatched([state EXCEPT ![current] = "SLEEPING"])
      /\ state'[current] = "SLEEPING"
      /\ \A u \in Thread : u # current /\ (state[u] \in Parked \/ state'[u] \in Parked)
           => state'[u] = state[u]
  BY <1>1, ParkDispatches, Zenon DEF Parked
<1>4. \A u \in Thread :
        /\ state'[u] = "SLEEPING" <=> state[u] = "SLEEPING" \/ u = current
        /\ state'[u] = "BLOCKED" <=> state[u] = "BLOCKED"
        /\ state'[u] = "ZOMBIE" <=> state[u] = "ZOMBIE"
        /\ state'[u] = "UNUSED" <=> state[u] = "UNUSED"
  BY <1>2, <1>3, Zenon DEF Parked
<1>5. SleepInv' /\ sleepers' \in Seq(Thread) /\ wake_in' \in [Thread -> 0..MaxSleep]
  BY <1>1, <1>4, SleepInsert, Zenon
<1>6. TypeOK'
  BY <1>1, <1>3, <1>5, Zenon DEF Inv, TypeOK, Dispatched
<1>7. CallInv'
  BY <1>1, <1>4, CallKept DEF Inv, CallInv
<1>8. IdleInv'
  BY <1>1, <1>2, <1>3, <1>4 DEF Inv, IdleInv, Dispatched
<1> QED BY <1>3, <1>5, <1>6, <1>7, <1>8, InvParts, Zenon DEF Dispatched

\* One timer interrupt keeps the invariant: the due sleepers are a prefix of
\* the sorted list, and they join the ready queue behind everyone in it.
LEMMA TimerInv ==
  ASSUME Inv, timer_irq
  PROVE  Inv'
<1> DEFINE due(k)   == {sleepers[i] : i \in 1..k}
           woken(k) == [t \in Thread |-> IF t \in due(k) THEN "READY" ELSE state[t]]
           half(k)  == SubSeq(sleepers, 1, k)
           rest(k)  == SubSeq(sleepers, k + 1, Len(sleepers))
<1>1. PICK k \in 0..Len(sleepers) :
        /\ \A i \in 1..k : wake_in[sleepers[i]] <= 1
        /\ k < Len(sleepers) => wake_in[sleepers[k + 1]] > 1
        /\ sleepers' = rest(k)
        /\ wake_in' = [t \in Thread |-> IF state[t] = "SLEEPING"
                                        THEN wake_in[t] - 1 ELSE wake_in[t]]
        /\ \/ ready \o half(k) = <<>> /\ UNCHANGED <<state, current, ready>>
           \/ requeue_and_schedule(woken(k), ready \o half(k))
        /\ UNCHANGED <<joiner, owner, waiters, call>>
  BY Zenon DEF timer_irq, sched_preempt
<1> DEFINE p == half(k)
           r == rest(k)
           st == woken(k)
<1>2. /\ state \in [Thread -> ThreadState] /\ current \in Thread
      /\ ready \in Seq(Thread) /\ sleepers \in Seq(Thread)
      /\ wake_in \in [Thread -> 0..MaxSleep] /\ MaxSleep \in Nat
      /\ Idle \in Thread /\ Boot \in Thread
  BY SchedAssumption, Zenon DEF Inv, TypeOK
<1>3. /\ IsInjective(sleepers)
      /\ \A t \in Thread : t \in Range(sleepers) <=> state[t] = "SLEEPING"
      /\ \A i, j \in 1..Len(sleepers) :
           i < j => wake_in[sleepers[i]] <= wake_in[sleepers[j]]
      /\ \A i \in 1..Len(sleepers) : wake_in[sleepers[i]] > 0
  BY DEF Inv, SleepInv
<1>4. Cut(Thread, sleepers, k, p, r)
  BY <1>2, SubSeqHalves
<1>5. st = [t \in Thread |-> IF t \in due(k) THEN "READY" ELSE state[t]]
  OBVIOUS
<1> HIDE DEF p, r, st
<1>6. /\ IsInjective(p) /\ IsInjective(r)
      /\ \A x : ~(x \in Range(p) /\ x \in Range(r))
      /\ \A x : x \in Range(sleepers) <=> x \in Range(p) \/ x \in Range(r)
  BY ONLY k \in 0..Len(sleepers), <1>2, <1>3, <1>4, SplitQueue, Zenon
<1>7. /\ p \in Seq(Thread) /\ Len(p) = k /\ \A i \in 1..k : p[i] = sleepers[i]
      /\ r \in Seq(Thread) /\ Len(r) = Len(sleepers) - k
      /\ \A i \in 1..(Len(sleepers) - k) : r[i] = sleepers[i + k]
  BY <1>4, Zenon DEF Cut
<1>8. k \in Nat /\ Len(sleepers) \in Nat /\ k <= Len(sleepers)
  BY ONLY k \in 0..Len(sleepers), <1>2, RangeAt
<1>9. \A t : t \in due(k) <=> t \in Range(p)
  <2>1. \A t : t \in Range(p) <=> \E i \in 1..Len(p) : p[i] = t
    <3>1. p \in Seq(Thread)
      BY <1>7, Zenon
    <3> QED BY ONLY <3>1, RangeAt, Zenon
  <2> QED BY <1>7, <2>1
<1> HIDE DEF due
<1>10. /\ st \in [Thread -> ThreadState]
       /\ \A t \in Thread : t \in Range(p) => st[t] = "READY" /\ state[t] = "SLEEPING"
       /\ \A t \in Thread : t \notin Range(p) => st[t] = state[t]
  BY <1>2, <1>3, <1>5, <1>6, <1>9, Zenon DEF ThreadState
<1>11. /\ IsInjective(ready)
       /\ \A t \in Thread : t \in Range(ready) <=> state[t] = "READY" /\ t # Idle
       /\ state[Idle] \in {"READY", "RUNNING"} /\ state[current] = "RUNNING"
       /\ \A t \in Thread \ {Idle} : state[t] = "RUNNING" => t = current
  BY DEF Inv, QueueInv, IdleInv, RunInv
<1>12. /\ \A x : x \in Range(ready) => x \in Thread
       /\ \A x : x \in Range(p) => x \in Thread
  <2>0. ready \in Seq(Thread) /\ p \in Seq(Thread)
    BY <1>2, <1>7, Zenon
  <2>1. \A x : x \in Range(ready) => x \in Thread
    BY ONLY <2>0, RangeAt
  <2>2. \A x : x \in Range(p) => x \in Thread
    BY ONLY <2>0, RangeAt
  <2> QED BY <2>1, <2>2, Zenon
<1>13. Dispatched(st)
  <2>1. /\ ready \o p \in Seq(Thread) /\ IsInjective(ready \o p)
        /\ \A y : y \in Range(ready \o p) <=> y \in Range(ready) \/ y \in Range(p)
    <3>1. \A x : ~(x \in Range(ready) /\ x \in Range(p))
      BY <1>10, <1>11, <1>12, Zenon
    <3> QED BY ONLY <1>2, <1>6, <1>7, <1>11, <3>1, ConcatQueue, Zenon
  <2>2. CASE ready \o p = <<>> /\ UNCHANGED <<state, current, ready>>
    <3>1. \A t \in Thread : t \notin Range(p)
      BY <2>1, <2>2 DEF Range
    <3>2. \A t \in Thread : st[t] = state[t]
      BY <1>10, <3>1, Zenon
    <3> QED BY <1>2, <2>2, <3>2, Zenon DEF Dispatched, Inv, IdleInv, RunInv
  <2>3. CASE requeue_and_schedule(st, ready \o p)
    <3>1. QueueInv(st, ready \o p)
      <4>1. \A t \in Thread : t \in Range(ready \o p) <=> st[t] = "READY" /\ t # Idle
        BY <1>10, <1>11, <2>1
      <4> QED BY <2>1, <4>1 DEF QueueInv
    <3>2. /\ st[Idle] \in {"READY", "RUNNING"} /\ st[current] = "RUNNING"
          /\ \A t \in Thread \ {Idle} : st[t] = "RUNNING" => t = current
      BY <1>2, <1>10, <1>11, Zenon
    <3> QED BY <1>2, <1>10, <2>1, <2>3, <3>1, <3>2, RequeueDispatches, Zenon
  <2> QED BY <1>1, <2>2, <2>3, Zenon DEF p, st
<1>14. \A t \in Thread :
         /\ state'[t] = "SLEEPING" <=> t \in Range(r)
         /\ state'[t] = "BLOCKED" <=> state[t] = "BLOCKED"
         /\ state'[t] = "ZOMBIE" <=> state[t] = "ZOMBIE"
         /\ state'[t] = "UNUSED" <=> state[t] = "UNUSED"
  <2> SUFFICES ASSUME NEW t \in Thread
               PROVE  /\ state'[t] = "SLEEPING" <=> t \in Range(r)
                      /\ state'[t] = "BLOCKED" <=> state[t] = "BLOCKED"
                      /\ state'[t] = "ZOMBIE" <=> state[t] = "ZOMBIE"
                      /\ state'[t] = "UNUSED" <=> state[t] = "UNUSED"
    OBVIOUS
  <2>1. st[t] \in Parked \/ state'[t] \in Parked => state'[t] = st[t]
    BY <1>13, Zenon DEF Dispatched
  <2>2. CASE t \in Range(p)
    BY <1>6, <1>10, <2>1, <2>2, Zenon DEF Parked
  <2>3. CASE t \notin Range(p)
    BY <1>3, <1>6, <1>10, <2>1, <2>3, Zenon DEF Parked
  <2> QED BY <2>2, <2>3
<1>15. sleepers' = r
  BY <1>1, Zenon DEF r
<1>16. \A t \in Thread : state[t] = "SLEEPING" =>
         wake_in'[t] = wake_in[t] - 1 /\ wake_in[t] \in 0..MaxSleep
  BY <1>1, <1>2, Zenon
<1>17. wake_in' \in [Thread -> 0..MaxSleep]
  <2>1. \A t \in Thread : state[t] = "SLEEPING" => wake_in[t] > 0
    BY ONLY <1>2, <1>3, RangeAt, Zenon
  <2>2. \A t \in Thread : wake_in[t] \in 0..MaxSleep
    BY <1>2
  <2>3. \A t \in Thread :
          (IF state[t] = "SLEEPING" THEN wake_in[t] - 1 ELSE wake_in[t]) \in 0..MaxSleep
    BY ONLY <1>2, <2>1, <2>2
  <2> QED BY <1>1, <2>3, Zenon
<1>18. \A i \in 1..Len(r) :
         /\ i + k \in 1..Len(sleepers) /\ r[i] = sleepers[i + k]
         /\ wake_in'[r[i]] = wake_in[sleepers[i + k]] - 1
         /\ wake_in[sleepers[i + k]] > 1 /\ wake_in[sleepers[i + k]] \in 0..MaxSleep
  <2> SUFFICES ASSUME NEW i \in 1..Len(r)
               PROVE  /\ i + k \in 1..Len(sleepers) /\ r[i] = sleepers[i + k]
                      /\ wake_in'[r[i]] = wake_in[sleepers[i + k]] - 1
                      /\ wake_in[sleepers[i + k]] > 1
                      /\ wake_in[sleepers[i + k]] \in 0..MaxSleep
    BY Zenon
  <2>1. /\ i + k \in 1..Len(sleepers) /\ r[i] = sleepers[i + k]
        /\ k + 1 \in 1..Len(sleepers) /\ k < Len(sleepers)
        /\ i + k = k + 1 \/ k + 1 < i + k
    BY ONLY i \in 1..Len(r), <1>7, <1>8
  <2>2. sleepers[i + k] \in Thread /\ sleepers[k + 1] \in Thread
    BY ONLY <1>2, <2>1, RangeAt, Zenon
  <2>3. state[sleepers[i + k]] = "SLEEPING"
    <3>1. sleepers[i + k] \in Range(sleepers)
      BY ONLY <1>2, <2>1, RangeAt, Zenon
    <3> QED BY <1>3, <2>2, <3>1, Zenon
  <2>4. wake_in[sleepers[k + 1]] > 1 /\ wake_in[sleepers[k + 1]] \in 0..MaxSleep
    BY <1>1, <1>2, <2>1, <2>2, Zenon
  <2>5. wake_in[sleepers[k + 1]] <= wake_in[sleepers[i + k]]
    <3>1. CASE i + k = k + 1
      <4>1. wake_in[sleepers[i + k]] = wake_in[sleepers[k + 1]]
        BY <3>1
      <4> QED BY ONLY <1>2, <2>4, <4>1
    <3>2. CASE k + 1 < i + k
      BY ONLY <1>3, <2>1, <3>2, Zenon
    <3> QED BY <2>1, <3>1, <3>2
  <2>6. /\ wake_in'[sleepers[i + k]] = wake_in[sleepers[i + k]] - 1
        /\ wake_in[sleepers[i + k]] \in 0..MaxSleep
    BY <1>16, <2>2, <2>3, Zenon
  <2>7. wake_in[sleepers[i + k]] > 1
    <3>1. PICK a, b : a = wake_in[sleepers[k + 1]] /\ b = wake_in[sleepers[i + k]]
      BY Zenon
    <3>2. a > 1 /\ a <= b /\ a \in 0..MaxSleep /\ b \in 0..MaxSleep /\ MaxSleep \in Nat
      BY ONLY <1>2, <2>4, <2>5, <2>6, <3>1, Zenon
    <3>3. b > 1
      BY ONLY <3>2
    <3> QED BY ONLY <3>1, <3>3, Zenon
  <2> QED BY ONLY <2>1, <2>6, <2>7
<1>19. SleepInv'
  <2>1. \A i, j \in 1..Len(r) : i < j => wake_in'[r[i]] <= wake_in'[r[j]]
    <3> SUFFICES ASSUME NEW i \in 1..Len(r), NEW j \in 1..Len(r), i < j
                 PROVE  wake_in'[r[i]] <= wake_in'[r[j]]
      OBVIOUS
    <3>1. i + k < j + k
      BY ONLY i \in 1..Len(r), j \in 1..Len(r), i < j, <1>7, <1>8
    <3>2. wake_in[sleepers[i + k]] <= wake_in[sleepers[j + k]]
      BY <1>3, <1>18, <3>1, Zenon
    <3>3. /\ wake_in'[r[i]] = wake_in[sleepers[i + k]] - 1
          /\ wake_in'[r[j]] = wake_in[sleepers[j + k]] - 1
          /\ wake_in[sleepers[i + k]] \in 0..MaxSleep /\ wake_in[sleepers[j + k]] \in 0..MaxSleep
      BY <1>18, Zenon
    <3>4. PICK a, b : a = wake_in[sleepers[i + k]] /\ b = wake_in[sleepers[j + k]]
      OBVIOUS
    <3>5. a <= b /\ a \in 0..MaxSleep /\ b \in 0..MaxSleep /\ MaxSleep \in Nat
      BY ONLY <1>2, <3>2, <3>3, <3>4, Zenon
    <3>6. a - 1 <= b - 1
      BY ONLY <3>5
    <3> QED BY ONLY <3>3, <3>4, <3>6, Zenon
  <2>2. \A i \in 1..Len(r) : wake_in'[r[i]] > 0
    <3> SUFFICES ASSUME NEW i \in 1..Len(r) PROVE wake_in'[r[i]] > 0
      OBVIOUS
    <3>1. /\ wake_in'[r[i]] = wake_in[sleepers[i + k]] - 1
          /\ wake_in[sleepers[i + k]] \in 0..MaxSleep /\ wake_in[sleepers[i + k]] > 1
      BY <1>18
    <3> QED BY ONLY <1>2, <3>1
  <2> QED BY <1>6, <1>14, <1>15, <2>1, <2>2, Zenon DEF SleepInv
<1>20. TypeOK'
  <2>1. sleepers' \in Seq(Thread)
    BY <1>7, <1>15
  <2>2. state' \in [Thread -> ThreadState] /\ current' \in Thread /\ ready' \in Seq(Thread)
    BY <1>13 DEF Dispatched
  <2> QED BY <1>1, <1>17, <2>1, <2>2, Zenon DEF Inv, TypeOK
<1>21. CallInv'
  BY <1>1, <1>14, CallKept DEF Inv, CallInv
<1>22. IdleInv'
  BY <1>1, <1>2, <1>13, <1>14 DEF Inv, IdleInv, Dispatched
<1> QED BY <1>13, <1>19, <1>20, <1>21, <1>22, InvParts, Zenon DEF Dispatched

\* Every step of the scheduler keeps the invariant.
LEMMA NextInv == ASSUME Inv, [Next]_vars PROVE Inv'
<1>1. CASE timer_irq
  BY <1>1, TimerInv, Zenon
<1>2. CASE sched_yield
  BY <1>2, YieldInv, Zenon
<1>3. CASE thread_exit
  BY <1>3, ExitInv
<1>4. CASE \E n \in 1..MaxSleep : sched_sleep_ticks(n)
  BY <1>4, SleepTicksInv, Zenon
<1>5. CASE \E t \in Thread : thread_create(t)
  BY <1>5, CreateInv, Zenon
<1>6. CASE \E t \in Thread : thread_join(t)
  BY <1>6, JoinCallInv, Zenon
<1>7. CASE \E t \in Thread : thread_join_return(t)
  BY <1>7, JoinReturnInv
<1>8. CASE \E m \in Mutex : mutex_lock(m)
  BY <1>8, LockInv
<1>9. CASE \E m \in Mutex : mutex_lock_return(m)
  BY <1>9, LockReturnInv
<1>10. CASE \E m \in Mutex : mutex_unlock(m)
  BY <1>10, UnlockInv
<1>11. CASE UNCHANGED vars
  <2>1. UNCHANGED <<state, current, ready, sleepers, wake_in, joiner, owner, waiters, call>>
    BY <1>11, Zenon DEF vars
  <2>2. TypeOK' /\ QueueInv(state', ready') /\ RunInv' /\ IdleInv'
    BY <2>1, Zenon DEF Inv, TypeOK, RunInv, IdleInv
  <2>3. SleepInv' /\ CallInv'
    BY <2>1, SleepKept, CallKept DEF Inv, CallInv
  <2> QED BY <2>2, <2>3, InvParts, Zenon
<1> QED BY <1>1, <1>2, <1>3, <1>4, <1>5, <1>6, <1>7, <1>8, <1>9, <1>10, <1>11, Zenon DEF Next

\* The invariant holds in every reachable state.
THEOREM SchedulerInv == Spec => []Inv
<1>1. Init => Inv
  BY InitInv
<1>2. Inv /\ [Next]_vars => Inv'
  BY NextInv
<1> QED BY <1>1, <1>2, PTL DEF Spec

-----------------------------------------------------------------------------
(* The properties                                                          *)

\* Every variable of the scheduler keeps its type; in particular no sleeper's
\* countdown runs below zero.
THEOREM TypeCorrect == Spec => []TypeOK
<1>1. Inv => TypeOK
  BY DEF Inv
<1> QED BY <1>1, SchedulerInv, PTL

\* A thread is on at most one of the lists that share thread->next.
THEOREM ListsDisjoint == Spec => []OnOneList
<1>1. Inv => OnOneList
  <2> SUFFICES ASSUME Inv PROVE OnOneList
    BY Zenon
  <2>1. /\ ready \in Seq(Thread) /\ sleepers \in Seq(Thread)
        /\ waiters \in [Mutex -> Seq(Thread)] /\ current \in Thread
        /\ Thread \cap Mutex = {}
    BY SchedAssumption, Zenon DEF Inv, TypeOK
  <2>2. /\ \A x : x \in Range(ready) => x \in Thread
        /\ \A x : x \in Range(sleepers) => x \in Thread
        /\ \A m \in Mutex : \A x : x \in Range(waiters[m]) => x \in Thread
    <3>0. ready \in Seq(Thread) /\ sleepers \in Seq(Thread)
      BY <2>1
    <3>1. \A x : x \in Range(ready) => x \in Thread
      BY ONLY <3>0, RangeAt
    <3>2. \A x : x \in Range(sleepers) => x \in Thread
      BY ONLY <3>0, RangeAt
    <3>3. ASSUME NEW m \in Mutex PROVE \A x : x \in Range(waiters[m]) => x \in Thread
      <4>1. waiters[m] \in Seq(Thread)
        BY <2>1, Zenon
      <4> QED BY ONLY <4>1, RangeAt
    <3> QED BY <3>1, <3>2, <3>3, Zenon
  <2>3. /\ IsInjective(ready) /\ IsInjective(sleepers)
        /\ \A m \in Mutex : IsInjective(waiters[m])
    BY Zenon DEF Inv, QueueInv, SleepInv, BlockInv
  <2>4. /\ \A t \in Thread : t \in Range(ready) => state[t] = "READY"
        /\ \A t \in Thread : t \in Range(sleepers) => state[t] = "SLEEPING"
        /\ \A m \in Mutex : \A t \in Thread :
             t \in Range(waiters[m]) => state[t] = "BLOCKED" /\ call[t] = m
        /\ state[current] = "RUNNING"
    BY DEF Inv, QueueInv, SleepInv, BlockInv, RunInv
  <2>5. Range(ready) \cap Range(sleepers) = {}
    BY <2>2, <2>4, Zenon
  <2>6. \A m \in Mutex : Range(waiters[m]) \cap (Range(ready) \cup Range(sleepers)) = {}
    BY <2>2, <2>4
  <2>7. \A m, k \in Mutex : m # k => Range(waiters[m]) \cap Range(waiters[k]) = {}
    BY <2>2, <2>4
  <2>8. /\ current \notin Range(ready) \cup Range(sleepers)
        /\ \A m \in Mutex : current \notin Range(waiters[m])
    BY <2>1, <2>4
  <2> QED BY <2>3, <2>5, <2>6, <2>7, <2>8, Zenon DEF OnOneList
<1> QED BY <1>1, SchedulerInv, PTL

\* The due sleepers are a prefix of the list, and each tick removes them all.
LEMMA SleepersOnTimeInv ==
  ASSUME Inv
  PROVE  NoOversleep
<1>1. sleepers \in Seq(Thread) /\ \A i \in 1..Len(sleepers) : wake_in[sleepers[i]] > 0
  BY DEF Inv, TypeOK, SleepInv
<1>2. \A t : t \in Range(sleepers) => \E i \in 1..Len(sleepers) : sleepers[i] = t
  BY ONLY <1>1, RangeAt
<1> QED BY <1>1, <1>2 DEF NoOversleep

\* A thread that waits is where its waker looks, the waker is alive, and a
\* sleeper is not overdue.
THEOREM NobodyLost == Spec => []NoLostThread
<1>1. Inv => NoLostThread
  <2> SUFFICES ASSUME Inv PROVE NoLostThread
    OBVIOUS
  <2> SUFFICES ASSUME NEW t \in Thread \ {Idle}
               PROVE  /\ state[t] = "READY" => t \in Range(ready)
                      /\ state[t] = "SLEEPING" => t \in Range(sleepers) /\ wake_in[t] > 0
                      /\ state[t] = "BLOCKED" =>
                           \/ \E m \in Mutex : /\ t \in Range(waiters[m])
                                               /\ owner[m] \notin {None, t}
                           \/ \E u \in Thread : /\ joiner[u] = t
                                                /\ state[u] \notin {"ZOMBIE", "UNUSED"}
    BY DEF NoLostThread
  <2>1. /\ state[t] = "READY" => t \in Range(ready)
        /\ state[t] = "SLEEPING" => t \in Range(sleepers) /\ wake_in[t] > 0
    BY SleepersOnTimeInv, Zenon DEF Inv, QueueInv, SleepInv, NoOversleep
  <2>2. ASSUME state[t] = "BLOCKED"
        PROVE  \/ \E m \in Mutex : t \in Range(waiters[m]) /\ owner[m] \notin {None, t}
               \/ \E u \in Thread : joiner[u] = t /\ state[u] \notin {"ZOMBIE", "UNUSED"}
    <3>1. call[t] \in Thread \cup Mutex
      BY <2>2 DEF Inv, TypeOK, BlockInv
    <3>2. CASE call[t] \in Mutex
      <4>1. t \in Range(waiters[call[t]]) /\ owner[call[t]] # t
        BY <2>2, <3>2, Zenon DEF Inv, BlockInv, MutexInv
      <4>2. waiters[call[t]] # <<>>
        BY <4>1 DEF Range
      <4>3. owner[call[t]] # None
        BY <3>2, <4>2, Zenon DEF Inv, MutexInv
      <4> QED BY <3>2, <4>1, <4>3, Zenon
    <3>3. CASE call[t] \in Thread
      BY <2>2, <3>3 DEF Inv, BlockInv, JoinInv
    <3> QED BY <3>1, <3>2, <3>3, Zenon
  <2> QED BY <2>1, <2>2, Zenon
<1> QED BY <1>1, SchedulerInv, PTL

\* No sleeper outstays its tick: sched_core_wake_due may stop at the first
\* thread that is not due.
THEOREM SleepersOnTime == Spec => []NoOversleep
<1>1. Inv => NoOversleep
  BY SleepersOnTimeInv, Zenon
<1> QED BY <1>1, SchedulerInv, PTL

\* The assertion after sched_block in mutex_lock holds: the waiter that comes
\* back owns the lock.
THEOREM HandoffSound == Spec => []LockHandoff
<1>1. Inv => LockHandoff
  BY DEF Inv, MutexInv, LockHandoff
<1> QED BY <1>1, SchedulerInv, PTL

\* thread_join never frees the stack of a thread that may still run.
THEOREM JoinSound == Spec => []JoinFreesZombie
<1>1. Inv => JoinFreesZombie
  BY DEF Inv, JoinInv, JoinFreesZombie
<1> QED BY <1>1, SchedulerInv, PTL

\* Nothing refers to a thread that has exited or been freed.
THEOREM NothingDangles == Spec => []NoDanglingThread
<1>1. Inv => NoDanglingThread
  <2> SUFFICES ASSUME Inv PROVE NoDanglingThread
    OBVIOUS
  <2> SUFFICES ASSUME NEW t \in Thread, state[t] \in {"ZOMBIE", "UNUSED"}
               PROVE  /\ t # current
                      /\ t \notin Range(ready) \cup Range(sleepers)
                      /\ \A m \in Mutex : owner[m] # t /\ t \notin Range(waiters[m])
                      /\ joiner[t] = None
                      /\ \A u \in Thread : joiner[u] # t
    BY DEF NoDanglingThread
  <2>1. t # current
    BY Zenon DEF Inv, RunInv
  <2>2. t \notin Range(ready) \cup Range(sleepers)
    BY DEF Inv, QueueInv, SleepInv
  <2>3. \A m \in Mutex : owner[m] # t /\ t \notin Range(waiters[m])
    BY Zenon DEF Inv, DeadInv, BlockInv
  <2>4. joiner[t] = None
    BY DEF Inv, TypeOK, BlockInv, JoinInv
  <2>5. \A u \in Thread : joiner[u] # t
    BY DEF Inv, BlockInv
  <2> QED BY <2>1, <2>2, <2>3, <2>4, <2>5, Zenon
<1> QED BY <1>1, SchedulerInv, PTL

\* Idle has the CPU only while the ready queue is empty.
THEOREM IdleOnlyWhenEmpty == Spec => []IdleIsFallback
<1>1. Inv => IdleIsFallback
  BY SchedAssumption DEF Inv, IdleInv, RunInv, QueueInv, IdleIsFallback
<1> QED BY <1>1, SchedulerInv, PTL

\* schedule() on a queue that has the old one in front is a round-robin step.
LEMMA ScheduleRoundRobin ==
  ASSUME NEW st, NEW rq \in Seq(Thread), ready \in Seq(Thread), schedule(st, rq),
         Len(rq) >= Len(ready), \A i \in 1..Len(ready) : rq[i] = ready[i]
  PROVE  RoundRobinStep
<1>1. Len(ready) \in Nat /\ Len(rq) \in Nat
  BY SeqLen, Zenon
<1>2. CASE rq = <<>>
  <2>1. Len(ready) = 0 /\ ready' = rq /\ Len(ready') = 0
    BY <1>1, <1>2 DEF schedule
  <2> QED BY <2>1 DEF RoundRobinStep
<1>3. CASE rq # <<>>
  <2>1. /\ current' = rq[1] /\ ready' = Tail(rq) /\ Len(rq) >= 1
        /\ Len(ready') = Len(rq) - 1
        /\ \A i \in 1..(Len(rq) - 1) : ready'[i] = rq[i + 1]
    BY <1>1, <1>3, SeqTail, SeqEmpty DEF schedule
  <2>2. CASE ready = <<>>
    <3>1. Len(ready) = 0 /\ Len(ready') >= 0
      BY <1>1, <2>1, <2>2
    <3> QED BY <3>1 DEF RoundRobinStep
  <2>3. CASE ready # <<>>
    <3>1. Len(ready) >= 1 /\ Head(ready) = ready[1]
      BY <1>1, <2>3, SeqTail, SeqEmpty
    <3>2. current' = Head(ready)
      BY <1>1, <2>1, <3>1
    <3>3. Len(ready') >= Len(ready) - 1
      BY <1>1, <2>1
    <3>4. \A i \in 1..(Len(ready) - 1) : ready'[i] = ready[i + 1]
      BY <1>1, <2>1
    <3> QED BY <1>1, <3>1, <3>2, <3>3, <3>4 DEF RoundRobinStep
  <2> QED BY <2>2, <2>3, Zenon
<1> QED BY <1>2, <1>3, Zenon

\* So is a step that leaves the queue as it is, or appends to it.
LEMMA GrowRoundRobin ==
  ASSUME ready \in Seq(Thread), ready' \in Seq(Thread),
         Len(ready') >= Len(ready), \A i \in 1..Len(ready) : ready'[i] = ready[i]
  PROVE  RoundRobinStep
<1>1. Len(ready) \in Nat /\ Len(ready') \in Nat
  BY SeqLen
<1> QED BY <1>1 DEF RoundRobinStep

\* Appending a thread keeps the old queue in front.
LEMMA AppendKeeps ==
  ASSUME NEW q \in Seq(Thread), NEW t \in Thread
  PROVE  /\ Append(q, t) \in Seq(Thread) /\ Len(Append(q, t)) >= Len(q)
         /\ \A i \in 1..Len(q) : Append(q, t)[i] = q[i]
BY SeqAppend, SeqLen

\* The ready queue is served in order of arrival, for any threads and
\* whatever mix of yields, sleeps, wakeups, exits and ticks.
THEOREM RoundRobinScheduling == Spec => RoundRobin
<1>1. ASSUME Inv, Next PROVE RoundRobinStep
  <2>0. ready \in Seq(Thread) /\ current \in Thread /\ sleepers \in Seq(Thread)
    BY <1>1, Zenon DEF Inv, TypeOK
  <2>1. CASE timer_irq
    <3>1. PICK k \in 0..Len(sleepers) : \E st :
            \/ UNCHANGED ready
            \/ requeue_and_schedule(st, ready \o SubSeq(sleepers, 1, k))
      BY <2>1 DEF timer_irq, sched_preempt
    <3>6. PICK st : \/ UNCHANGED ready
                    \/ requeue_and_schedule(st, ready \o SubSeq(sleepers, 1, k))
      BY <3>1
    <3> DEFINE rq == ready \o SubSeq(sleepers, 1, k)
    <3>2. /\ rq \in Seq(Thread) /\ Len(rq) >= Len(ready)
          /\ \A i \in 1..Len(ready) : rq[i] = ready[i]
      <4>1. SubSeq(sleepers, 1, k) \in Seq(Thread)
        BY <2>0, SubSeqHalves, Zenon DEF Cut
      <4>2. PICK p \in Seq(Thread) : p = SubSeq(sleepers, 1, k)
        BY <4>1, Zenon
      <4>3. /\ ready \o p \in Seq(Thread) /\ Len(ready \o p) = Len(ready) + Len(p)
            /\ \A i \in 1..(Len(ready) + Len(p)) :
                 (ready \o p)[i] = IF i <= Len(ready) THEN ready[i] ELSE p[i - Len(ready)]
        BY <2>0, SeqConcat
      <4>4. Len(ready) \in Nat /\ Len(p) \in Nat
        BY <2>0, SeqLen
      <4> QED BY <4>2, <4>3, <4>4
    <3> HIDE DEF rq
    <3>3. CASE UNCHANGED ready
      BY <2>0, <3>3, SeqLen, GrowRoundRobin
    <3>4. CASE schedule(st, rq)
      BY <2>0, <3>2, <3>4, ScheduleRoundRobin
    <3>5. CASE schedule(enqueued(st, current), Append(rq, current))
      <4>1. /\ Append(rq, current) \in Seq(Thread) /\ Len(Append(rq, current)) >= Len(rq)
            /\ \A i \in 1..Len(rq) : Append(rq, current)[i] = rq[i]
        BY <2>0, <3>2, AppendKeeps
      <4>2. /\ Len(Append(rq, current)) >= Len(ready)
            /\ \A i \in 1..Len(ready) : Append(rq, current)[i] = ready[i]
        <5>1. Len(rq) \in Nat /\ Len(ready) \in Nat /\ Len(Append(rq, current)) \in Nat
          BY <2>0, <3>2, <4>1, SeqLen
        <5> QED BY <3>2, <4>1, <5>1
      <4> QED BY <2>0, <3>5, <4>1, <4>2, ScheduleRoundRobin, Zenon
    <3> QED BY <3>6, <3>3, <3>4, <3>5, Zenon DEF requeue_and_schedule, rq
  <2>2. CASE sched_yield
    <3>1. /\ Append(ready, current) \in Seq(Thread)
          /\ Len(Append(ready, current)) >= Len(ready)
          /\ \A i \in 1..Len(ready) : Append(ready, current)[i] = ready[i]
      BY <2>0, AppendKeeps
    <3>2. schedule(enqueued(state, current), Append(ready, current))
      BY <2>2 DEF sched_yield, Calling, requeue_and_schedule
    <3> QED BY <2>0, <3>1, <3>2, ScheduleRoundRobin, Zenon
  <2>3. ASSUME NEW st, schedule(st, ready) PROVE RoundRobinStep
    <3>1. Len(ready) >= Len(ready)
      BY <2>0, SeqLen
    <3> QED BY <2>0, <2>3, <3>1, ScheduleRoundRobin
  <2>4. ASSUME UNCHANGED ready PROVE RoundRobinStep
    BY <2>0, <2>4, SeqLen, GrowRoundRobin
  <2>5. ASSUME NEW t \in Thread, ready' = Append(ready, t) PROVE RoundRobinStep
    BY <2>0, <2>5, AppendKeeps, GrowRoundRobin
  <2>6. CASE thread_exit
    <3>1. CASE joiner[current] # None
      <4>1. joiner[current] \in Thread
        BY <1>1, <2>0, <3>1 DEF Inv, TypeOK
      <4>2. PICK j \in Thread : \E st : schedule(st, Append(ready, j))
        BY <2>6, <3>1, <4>1 DEF thread_exit
      <4>3. /\ Append(ready, j) \in Seq(Thread) /\ Len(Append(ready, j)) >= Len(ready)
            /\ \A i \in 1..Len(ready) : Append(ready, j)[i] = ready[i]
        BY <2>0, AppendKeeps
      <4> QED BY <2>0, <4>2, <4>3, ScheduleRoundRobin, Zenon
    <3>2. CASE joiner[current] = None
      BY <2>3, <2>6, <3>2 DEF thread_exit
    <3> QED BY <3>1, <3>2
  <2>7. CASE \E n \in 1..MaxSleep : sched_sleep_ticks(n)
    BY <2>3, <2>7 DEF sched_sleep_ticks
  <2>8. CASE \E t \in Thread : thread_create(t)
    BY <2>5, <2>8 DEF thread_create
  <2>9. CASE \E t \in Thread : thread_join(t)
    BY <2>3, <2>4, <2>9 DEF thread_join, sched_block
  <2>10. CASE \E t \in Thread : thread_join_return(t)
    BY <2>4, <2>10, Zenon DEF thread_join_return
  <2>11. CASE \E m \in Mutex : mutex_lock(m)
    <3>1. PICK m \in Mutex : mutex_lock(m)
      BY <2>11
    <3>2. UNCHANGED ready \/ sched_block
      BY <3>1 DEF mutex_lock
    <3> QED BY <2>3, <2>4, <3>2, Zenon DEF sched_block
  <2>12. CASE \E m \in Mutex : mutex_lock_return(m)
    BY <2>4, <2>12, Zenon DEF mutex_lock_return
  <2>13. CASE \E m \in Mutex : mutex_unlock(m)
    <3>1. PICK m \in Mutex : mutex_unlock(m)
      BY <2>13
    <3>2. CASE UNCHANGED ready
      BY <2>4, <3>2, Zenon
    <3>3. CASE waiters[m] # <<>> /\ ready' = Append(ready, Head(waiters[m]))
      <4>1. waiters[m] \in Seq(Thread)
        BY <1>1 DEF Inv, TypeOK
      <4>2. Head(waiters[m]) \in Thread
        BY <3>3, <4>1, SeqTail, Zenon
      <4> QED BY <2>5, <3>3, <4>2, Zenon
    <3> QED BY <3>1, <3>2, <3>3, Zenon DEF mutex_unlock, sched_wake
  <2> QED BY <1>1, <2>1, <2>2, <2>6, <2>7, <2>8, <2>9, <2>10, <2>11, <2>12, <2>13, Zenon DEF Next
<1>2. Inv /\ [Next]_vars => [RoundRobinStep]_vars
  BY <1>1
<1> QED BY <1>2, SchedulerInv, PTL DEF Spec, RoundRobin

-----------------------------------------------------------------------------
(* The mutex of kernel/sched/mutex.c, run by the scheduler, is a first-    *)
(* come-first-served lock: every step of Scheduler is a step of FifoLock   *)
(* or none                                                                 *)

\* The lock that the mutex m stands for.
LockOf(m) == INSTANCE FifoLock WITH holder <- Holder(m), queue <- Queue(m)

-----------------------------------------------------------------------------
(* Sequences                                                               *)

\* Putting an element in front of a queue, and taking it off again.
LEMMA Fronted ==
  ASSUME NEW S, NEW x \in S, NEW q \in Seq(S)
  PROVE  /\ <<x>> \o q \in Seq(S) /\ <<x>> \o q # <<>>
         /\ Head(<<x>> \o q) = x /\ Tail(<<x>> \o q) = q
  OBVIOUS

\* A queue that is not empty is its head in front of its tail.
LEMMA HeadInFront ==
  ASSUME NEW S, NEW q \in Seq(S), q # <<>>
  PROVE  <<Head(q)>> \o Tail(q) = q
  OBVIOUS

\* Joining behind commutes with putting in front.
LEMMA FrontThenAppend ==
  ASSUME NEW S, NEW x \in S, NEW y \in S, NEW q \in Seq(S)
  PROVE  <<x>> \o Append(q, y) = Append(<<x>> \o q, y)
  OBVIOUS

\* What a fronted queue holds.
LEMMA FrontedRange ==
  ASSUME NEW S, NEW x \in S, NEW y \in S, NEW q \in Seq(S), y # x, y \notin Range(q)
  PROVE  y \notin Range(<<x>> \o q)
  BY DEF Range

-----------------------------------------------------------------------------
(* The lock of one mutex                                                   *)

\* The owner and the wait queue have their types, and nothing is both a
\* thread and a mutex.
LEMMA LockTypes ==
  ASSUME NEW m \in Mutex, TypeOK
  PROVE  /\ owner[m] \in Thread \cup {None} /\ waiters[m] \in Seq(Thread)
         /\ current \in Thread /\ m \notin Thread /\ m # None /\ None \notin Thread
  BY SchedAssumption DEF TypeOK

\* A step leaves the lock alone when it leaves the owner, the wait queue and
\* the owner's place in mutex_lock alone.
LEMMA LockUnmoved ==
  ASSUME NEW m \in Mutex, owner'[m] = owner[m], waiters'[m] = waiters[m],
         owner[m] # None => (call'[owner[m]] = m <=> call[owner[m]] = m)
  PROVE  UNCHANGED LockOf(m)!lockVars
  BY DEF Holder, Queue, Entering, LockOf!lockVars

\* Locking a free mutex is entering at once; locking a held one is joining
\* the queue, also behind an owner that has not come back from its own call.
LEMMA LockTaken ==
  ASSUME NEW m \in Mutex, Inv, mutex_lock(m)
  PROVE  LockOf(m)!EnterAtOnce(current) \/ LockOf(m)!Arrive(current)
<1>1. /\ owner[m] \in Thread \cup {None} /\ waiters[m] \in Seq(Thread)
      /\ current \in Thread /\ m \notin Thread /\ m # None /\ None \notin Thread
  BY LockTypes, Zenon DEF Inv
<1>2. /\ owner \in [Mutex -> Thread \cup {None}] /\ waiters \in [Mutex -> Seq(Thread)]
      /\ call \in [Thread -> Thread \cup Mutex \cup {None}]
  BY DEF Inv, TypeOK
<1>3. call[current] = None /\ owner[m] # current
  BY DEF mutex_lock, Calling, HoldsNoMutex
<1>4. CASE owner[m] = None
  <2>1. owner'[m] = current /\ waiters'[m] = waiters[m] /\ call' = call
    BY <1>2, <1>4, Zenon DEF mutex_lock
  <2>2. waiters[m] = <<>>
    BY <1>4 DEF Inv, MutexInv
  <2> QED BY <1>1, <1>3, <1>4, <2>1, <2>2, Zenon DEF LockOf!EnterAtOnce, Holder, Queue, Entering
<1>5. CASE owner[m] # None
  <2>1. /\ owner' = owner /\ waiters'[m] = Append(waiters[m], current)
        /\ call'[owner[m]] = call[owner[m]]
    BY <1>1, <1>2, <1>3, <1>5, Zenon DEF mutex_lock
  <2>2. current \notin Range(waiters[m])
    BY <1>1, Zenon DEF Inv, BlockInv, RunInv
  <2>3. CASE Entering(m)
    <3>1. owner[m] \in Thread
      BY <1>1, <1>5, Zenon
    <3>2. current \notin Range(<<owner[m]>> \o waiters[m])
      BY <1>1, <1>3, <2>2, <3>1, FrontedRange, Zenon
    <3>3. /\ <<owner[m]>> \o Append(waiters[m], current)
               = Append(<<owner[m]>> \o waiters[m], current)
          /\ <<owner[m]>> \o waiters[m] # <<>>
      BY <1>1, <3>1, FrontThenAppend, Fronted, Zenon
    <3>4. /\ Holder(m) = None /\ Holder(m)' = None
          /\ Queue(m) = <<owner[m]>> \o waiters[m]
          /\ Queue(m)' = <<owner[m]>> \o Append(waiters[m], current)
      BY <2>1, <2>3, Zenon DEF Holder, Queue, Entering
    <3> QED BY <1>1, <3>2, <3>3, <3>4, Zenon DEF LockOf!Arrive, LockOf!Range, Range
  <2>4. CASE ~Entering(m)
    <3>1. /\ Holder(m) = owner[m] /\ Holder(m)' = owner[m]
          /\ Queue(m) = waiters[m] /\ Queue(m)' = Append(waiters[m], current)
      BY <2>1, <2>4 DEF Holder, Queue, Entering
    <3> QED BY <1>3, <1>5, <2>2, <3>1 DEF LockOf!Arrive, LockOf!Range, Range
  <2> QED BY <2>3, <2>4, Zenon
<1> QED BY <1>4, <1>5, Zenon

\* A waiter that comes back from mutex_lock enters from the head of the
\* queue: unlock made it the owner before it woke.
LEMMA LockEntered ==
  ASSUME NEW m \in Mutex, Inv, mutex_lock_return(m)
  PROVE  LockOf(m)!Enter
<1>1. /\ waiters[m] \in Seq(Thread) /\ current \in Thread
      /\ m # None /\ None \notin Thread
  BY LockTypes, Zenon DEF Inv
<1>2. call[current] = m /\ state[current] = "RUNNING"
  BY DEF mutex_lock_return, Inv, RunInv
<1>3. owner[m] = current
  BY <1>1, <1>2, Zenon DEF Inv, MutexInv
<1>4. /\ owner' = owner /\ waiters' = waiters /\ call'[current] = None
  BY <1>1, Zenon DEF mutex_lock_return, Inv, TypeOK
<1>5. /\ Holder(m) = None /\ Queue(m) = <<current>> \o waiters[m]
      /\ Holder(m)' = current /\ Queue(m)' = waiters[m]
  BY <1>1, <1>2, <1>3, <1>4, Zenon DEF Holder, Queue, Entering
<1>6. /\ <<current>> \o waiters[m] # <<>>
      /\ Head(<<current>> \o waiters[m]) = current
      /\ Tail(<<current>> \o waiters[m]) = waiters[m]
  BY <1>1, Fronted, Zenon
<1> QED BY <1>5, <1>6, Zenon DEF LockOf!Enter

\* Unlocking leaves the lock, whether it is freed or handed over: the new
\* owner is still the head of the queue until its call returns.
LEMMA LockLeft ==
  ASSUME NEW m \in Mutex, Inv, mutex_unlock(m)
  PROVE  LockOf(m)!Leave
<1>1. /\ waiters[m] \in Seq(Thread) /\ current \in Thread
      /\ m # None /\ None \notin Thread
  BY LockTypes, Zenon DEF Inv
<1>2. call[current] = None /\ owner[m] = current /\ call' = call
  BY DEF mutex_unlock, Calling
<1>3. owner \in [Mutex -> Thread \cup {None}] /\ waiters \in [Mutex -> Seq(Thread)]
  BY DEF Inv, TypeOK
<1>4. Holder(m) = current /\ Queue(m) = waiters[m]
  BY <1>1, <1>2, Zenon DEF Holder, Queue, Entering
<1>5. CASE waiters[m] = <<>>
  <2>1. owner'[m] = None /\ waiters'[m] = waiters[m]
    BY <1>3, <1>5, Zenon DEF mutex_unlock
  <2> QED BY <1>1, <1>4, <2>1, Zenon DEF LockOf!Leave, Holder, Queue, Entering
<1>6. CASE waiters[m] # <<>>
  <2>1. owner'[m] = Head(waiters[m]) /\ waiters'[m] = Tail(waiters[m])
    BY <1>3, <1>6, Zenon DEF mutex_unlock
  <2>2. Head(waiters[m]) \in Thread /\ Head(waiters[m]) \in Range(waiters[m])
    <3>1. IsInjective(waiters[m])
      BY Zenon DEF Inv, BlockInv
    <3> QED BY <1>1, <1>6, <3>1, TailQueue, Zenon
  <2>3. call[Head(waiters[m])] = m
    BY <2>2, Zenon DEF Inv, BlockInv
  <2>4. <<Head(waiters[m])>> \o Tail(waiters[m]) = waiters[m]
    BY <1>1, <1>6, HeadInFront, Zenon
  <2>5. Entering(m)' /\ Holder(m)' = None /\ Queue(m)' = waiters[m]
    BY <1>1, <1>2, <2>1, <2>2, <2>3, <2>4, Zenon DEF Holder, Queue, Entering
  <2> QED BY <1>1, <1>4, <2>5, Zenon DEF LockOf!Leave
<1> QED BY <1>5, <1>6, Zenon

\* The calls on another mutex leave this one alone.
LEMMA OtherMutex ==
  ASSUME NEW m \in Mutex, NEW k \in Mutex, k # m, Inv,
         mutex_lock(k) \/ mutex_lock_return(k) \/ mutex_unlock(k)
  PROVE  UNCHANGED LockOf(m)!lockVars
<1>1. /\ owner \in [Mutex -> Thread \cup {None}] /\ waiters \in [Mutex -> Seq(Thread)]
      /\ call \in [Thread -> Thread \cup Mutex \cup {None}] /\ current \in Thread
      /\ m # None
  BY SchedAssumption, Zenon DEF Inv, TypeOK
<1>2. owner'[m] = owner[m] /\ waiters'[m] = waiters[m]
  BY <1>1, Zenon DEF mutex_lock, mutex_lock_return, mutex_unlock
<1>3. owner[m] # None => (call'[owner[m]] = m <=> call[owner[m]] = m)
  <2>1. CASE mutex_lock(k)
    <3>1. owner[m] # current
      BY <2>1, Zenon DEF mutex_lock, HoldsNoMutex
    <3> QED BY <1>1, <2>1, <3>1, Zenon DEF mutex_lock
  <2>2. CASE mutex_lock_return(k)
    BY <1>1, <2>2, Zenon DEF mutex_lock_return
  <2>3. CASE mutex_unlock(k)
    BY <2>3 DEF mutex_unlock
  <2> QED BY <2>1, <2>2, <2>3, Zenon
<1> QED BY <1>2, <1>3, LockUnmoved, Zenon

\* No call of the scheduler moves a lock: a thread never joins another while
\* it owns a mutex.
LEMMA SchedulerCalls ==
  ASSUME NEW m \in Mutex, Inv,
         \/ timer_irq \/ sched_yield \/ thread_exit
         \/ \E n \in 1..MaxSleep : sched_sleep_ticks(n)
         \/ \E t \in Thread : thread_create(t) \/ thread_join(t) \/ thread_join_return(t)
  PROVE  UNCHANGED LockOf(m)!lockVars
<1>1. /\ owner \in [Mutex -> Thread \cup {None}]
      /\ call \in [Thread -> Thread \cup Mutex \cup {None}] /\ current \in Thread
      /\ m # None /\ m \notin Thread
  BY SchedAssumption, Zenon DEF Inv, TypeOK
<1>2. owner' = owner /\ waiters' = waiters
  BY Zenon DEF timer_irq, sched_yield, thread_exit, sched_sleep_ticks, thread_create,
         thread_join, thread_join_return
<1>3. ASSUME NEW t \in Thread, thread_join(t)
      PROVE  owner[m] # None => (call'[owner[m]] = m <=> call[owner[m]] = m)
  BY <1>1, <1>3 DEF thread_join, HoldsNoMutex
<1>4. ASSUME NEW t \in Thread, thread_join_return(t)
      PROVE  owner[m] # None => (call'[owner[m]] = m <=> call[owner[m]] = m)
  BY <1>1, <1>4 DEF thread_join_return
<1>5. \/ call' = call
      \/ \E t \in Thread : thread_join(t) \/ thread_join_return(t)
  BY Zenon DEF timer_irq, sched_yield, thread_exit, sched_sleep_ticks, thread_create
<1>6. owner[m] # None => (call'[owner[m]] = m <=> call[owner[m]] = m)
  BY <1>3, <1>4, <1>5
<1> QED BY <1>2, <1>6, LockUnmoved, Zenon

-----------------------------------------------------------------------------
(* The refinement                                                          *)

\* At boot every lock is free and nobody waits.
LEMMA LockStart ==
  ASSUME NEW m \in Mutex, Init
  PROVE  LockOf(m)!LockInit
  BY SchedAssumption DEF Init, LockOf!LockInit, Holder, Queue, Entering

\* Every step is a step of the lock, or leaves it alone.
LEMMA LockStep ==
  ASSUME NEW m \in Mutex, Inv, [Next]_vars
  PROVE  [LockOf(m)!LockNext]_(LockOf(m)!lockVars)
<1>0. current \in Thread
  BY Zenon DEF Inv, TypeOK
<1>1. CASE \E k \in Mutex : mutex_lock(k) \/ mutex_lock_return(k) \/ mutex_unlock(k)
  <2>1. PICK k \in Mutex : mutex_lock(k) \/ mutex_lock_return(k) \/ mutex_unlock(k)
    BY <1>1, Zenon
  <2>2. CASE k # m
    BY <2>1, <2>2, OtherMutex, Zenon
  <2>3. CASE k = m
    <3>1. CASE mutex_lock(m)
      BY <1>0, <3>1, LockTaken, Zenon DEF LockOf!LockNext
    <3>2. CASE mutex_lock_return(m)
      BY <3>2, LockEntered, Zenon DEF LockOf!LockNext
    <3>3. CASE mutex_unlock(m)
      BY <3>3, LockLeft, Zenon DEF LockOf!LockNext
    <3> QED BY <2>1, <2>3, <3>1, <3>2, <3>3, Zenon
  <2> QED BY <2>2, <2>3, Zenon
<1>2. CASE UNCHANGED vars
  BY <1>2, LockUnmoved, Zenon DEF vars
<1>3. CASE \/ timer_irq \/ sched_yield \/ thread_exit
           \/ \E n \in 1..MaxSleep : sched_sleep_ticks(n)
           \/ \E t \in Thread : thread_create(t) \/ thread_join(t) \/ thread_join_return(t)
  BY <1>3, SchedulerCalls
<1> QED BY <1>1, <1>2, <1>3, Zenon DEF Next

\* Every mutex of the kernel implements the safety of a first-come-first-
\* served lock: one thread at a time is between mutex_lock and mutex_unlock,
\* and threads enter in the order in which they called mutex_lock.
THEOREM MutexRefinesLock ==
  ASSUME NEW CONSTANT m \in Mutex
  PROVE  Spec => LockOf(m)!LockSafety
<1>1. Init => LockOf(m)!LockInit
  BY LockStart
<1>2. Inv /\ [Next]_vars => [LockOf(m)!LockNext]_(LockOf(m)!lockVars)
  BY LockStep
<1> QED BY <1>1, <1>2, SchedulerInv, PTL DEF Spec, LockOf!LockSafety
=============================================================================
