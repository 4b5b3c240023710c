------------------------------ MODULE Scheduler ------------------------------
(***************************************************************************)
(* Kernel threads on one CPU: the ready queue and the sleep list of        *)
(* kernel/sched/sched_core.c, the operations of kernel/sched/sched.c, the  *)
(* timer interrupt that drives them (drivers/pit.c, arch/x86_64/irq.c) and *)
(* the sleeping mutex of kernel/sched/mutex.c.                             *)
(*                                                                         *)
(* Disabling interrupts is the kernel's only lock, so an action is one     *)
(* interrupts-off section: it runs up to and including the context switch  *)
(* made by schedule(), and whatever the thread does once it is switched    *)
(* back in is a later action.  call[t] records the blocking call thread t  *)
(* is inside: the mutex it is locking or the thread it is joining.         *)
(*                                                                         *)
(* wake_in[t] is thread->wake_tick minus timer_ticks(): the code compares  *)
(* the absolute value with the clock only, so the difference is all that   *)
(* any branch can see, and it keeps the state space finite without a bound *)
(* on the clock.  need_resched is raised and consumed inside one timer     *)
(* interrupt and has no value between actions.                             *)
(***************************************************************************)
EXTENDS Naturals, Sequences, Functions

CONSTANTS Thread,    \* thread control blocks
          Boot,      \* boot_thread: adopts the boot context, never exits
          Idle,      \* idle_thread
          Mutex,     \* the sleeping locks
          None,      \* NULL
          MaxSleep   \* longest sleep, in ticks, that a caller asks for

ASSUME SchedAssumption ==
  /\ Boot \in Thread /\ Idle \in Thread /\ Boot # Idle
  /\ Thread \cap Mutex = {} /\ None \notin Thread \cup Mutex
  /\ MaxSleep \in Nat \ {0}

VARIABLES state,     \* thread->state; "UNUSED" when no TCB is allocated
          current,   \* the thread on the CPU
          ready,     \* the ready queue, head first
          sleepers,  \* the sleep list, soonest first
          wake_in,   \* thread->wake_tick - timer_ticks()
          joiner,    \* thread->joiner
          owner,     \* mutex->owner
          waiters,   \* the mutex's wait queue, oldest first
          call       \* the blocking call a thread is inside, or None

vars == <<state, current, ready, sleepers, wake_in, joiner, owner, waiters, call>>

ThreadState == {"UNUSED", "READY", "RUNNING", "SLEEPING", "BLOCKED", "ZOMBIE"}

\* Threads are on the lists and in the fields that hold threads, and no sleep
\* outlasts what its caller asked for (struct thread, sched_sleep_ticks).
TypeOK ==
  /\ state \in [Thread -> ThreadState]
  /\ current \in Thread
  /\ ready \in Seq(Thread)
  /\ sleepers \in Seq(Thread)
  /\ wake_in \in [Thread -> 0..MaxSleep]
  /\ joiner \in [Thread -> Thread \cup {None}]
  /\ owner \in [Mutex -> Thread \cup {None}]
  /\ waiters \in [Mutex -> Seq(Thread)]
  /\ call \in [Thread -> Thread \cup Mutex \cup {None}]

-----------------------------------------------------------------------------
(* sched_core.c and schedule()                                             *)

\* sched_core_enqueue, as the effect on the thread states: t becomes READY
\* (every use appends t to the ready queue as well).
enqueued(st, t) == [st EXCEPT ![t] = "READY"]

\* Switch to the head of the ready queue rq.  With nobody ready a caller that
\* is still RUNNING keeps the CPU, any other caller gives it to idle.  st and
\* rq are the states and the queue once the caller has put itself where it
\* belongs.
schedule(st, rq) ==
  LET next == IF rq # <<>> THEN Head(rq)
              ELSE IF st[current] = "RUNNING" THEN current ELSE Idle
  IN  /\ current' = next
      /\ state' = [st EXCEPT ![next] = "RUNNING"]
      /\ ready' = IF rq # <<>> THEN Tail(rq) ELSE rq

\* Insert t behind every sleeper that wakes no later than it does.
sched_core_sleep(t, n) ==
  \E k \in 0..Len(sleepers) :
    /\ \A i \in 1..k : wake_in[sleepers[i]] <= n
    /\ k < Len(sleepers) => wake_in[sleepers[k + 1]] > n
    /\ sleepers' = Append(SubSeq(sleepers, 1, k), t)
                     \o SubSeq(sleepers, k + 1, Len(sleepers))
    /\ wake_in' = [wake_in EXCEPT ![t] = n]

\* Put the caller on the ready queue and switch; idle is never queued.
requeue_and_schedule(st, rq) ==
  IF current = Idle THEN schedule(st, rq)
  ELSE schedule(enqueued(st, current), Append(rq, current))

\* sched_block: the caller has published itself where its waker looks.
sched_block == schedule([state EXCEPT ![current] = "BLOCKED"], ready)

\* Faulty: the woken thread jumps the queue.
Bug_wake_front(t) == /\ state' = enqueued(state, t)
                     /\ ready' = <<t>> \o ready
                     /\ UNCHANGED current

\* sched_wake makes t ready; it asks for no reschedule.
sched_wake(t) == /\ state' = enqueued(state, t)
                 /\ ready' = Append(ready, t)
                 /\ UNCHANGED current

-----------------------------------------------------------------------------
(* The initial state and the operations a running thread calls             *)

\* sched_init: main runs, idle has been created and pulled off the queue.
Init ==
  /\ state = [t \in Thread |-> IF t = Boot THEN "RUNNING"
                               ELSE IF t = Idle THEN "READY" ELSE "UNUSED"]
  /\ current = Boot
  /\ ready = <<>>
  /\ sleepers = <<>>
  /\ wake_in = [t \in Thread |-> 0]
  /\ joiner = [t \in Thread |-> None]
  /\ owner = [m \in Mutex |-> None]
  /\ waiters = [m \in Mutex |-> <<>>]
  /\ call = [t \in Thread |-> None]

\* The CPU runs a thread that is in no blocking call.  idle_loop makes none
\* of the calls below.
Calling == current # Idle /\ call[current] = None

\* No path of the kernel exits, joins or takes a second mutex while it
\* holds one: fs_lock and the console's read_lock never nest.
HoldsNoMutex == \A m \in Mutex : owner[m] # current

thread_create(t) ==
  /\ Calling
  /\ state[t] = "UNUSED"
  /\ state' = enqueued(state, t)
  /\ ready' = Append(ready, t)
  /\ UNCHANGED <<current, sleepers, wake_in, joiner, owner, waiters, call>>

sched_yield ==
  /\ Calling
  /\ requeue_and_schedule(state, ready)
  /\ UNCHANGED <<sleepers, wake_in, joiner, owner, waiters, call>>

\* n > 0: a sleep of no ticks is sched_yield.
sched_sleep_ticks(n) ==
  /\ Calling
  /\ sched_core_sleep(current, n)
  /\ schedule([state EXCEPT ![current] = "SLEEPING"], ready)
  /\ UNCHANGED <<joiner, owner, waiters, call>>

\* Faulty: leaves the joiner slot set.
Bug_exit_keeps_joiner ==
  /\ Calling
  /\ current # Boot
  /\ HoldsNoMutex
  /\ LET j == joiner[current]
         zombie == [state EXCEPT ![current] = "ZOMBIE"]
     IN IF j # None THEN schedule(enqueued(zombie, j), Append(ready, j))
                    ELSE schedule(zombie, ready)
  /\ UNCHANGED <<sleepers, wake_in, joiner, owner, waiters, call>>

\* Wakes the joiner, if there is one, and never runs again.
thread_exit ==
  /\ Calling
  /\ current # Boot
  /\ HoldsNoMutex
  /\ LET j == joiner[current]
         zombie == [state EXCEPT ![current] = "ZOMBIE"]
     IN IF j # None THEN schedule(enqueued(zombie, j), Append(ready, j))
                    ELSE schedule(zombie, ready)
  /\ joiner' = [joiner EXCEPT ![current] = None]
  /\ UNCHANGED <<sleepers, wake_in, owner, waiters, call>>

\* Faulty: waits for a thread that has exited already.
Bug_join_always_blocks(t) ==
  /\ Calling
  /\ HoldsNoMutex
  /\ t \notin {current, Idle, Boot}
  /\ state[t] # "UNUSED"
  /\ \A u \in Thread : call[u] # t
  /\ call' = [call EXCEPT ![current] = t]
  /\ joiner' = [joiner EXCEPT ![t] = current]
  /\ sched_block
  /\ UNCHANGED <<sleepers, wake_in, owner, waiters>>

\* Every created thread is joined exactly once, so no other thread is
\* joining t.  A thread that has not exited is waited for.
thread_join(t) ==
  /\ Calling
  /\ HoldsNoMutex
  /\ t \notin {current, Idle, Boot}
  /\ state[t] # "UNUSED"
  /\ \A u \in Thread : call[u] # t
  /\ call' = [call EXCEPT ![current] = t]
  /\ \/ /\ state[t] = "ZOMBIE"
        /\ UNCHANGED <<state, current, ready, joiner>>
     \/ /\ state[t] # "ZOMBIE"
        /\ joiner' = [joiner EXCEPT ![t] = current]
        /\ sched_block
  /\ UNCHANGED <<sleepers, wake_in, owner, waiters>>

\* The end of thread_join, back on the joiner's stack: free the stack and
\* the control block.
thread_join_return(t) ==
  /\ call[current] = t
  /\ call' = [call EXCEPT ![current] = None]
  /\ state' = [state EXCEPT ![t] = "UNUSED"]
  /\ UNCHANGED <<current, ready, sleepers, wake_in, joiner, owner, waiters>>

-----------------------------------------------------------------------------
(* mutex.c                                                                 *)

mutex_lock(m) ==
  /\ Calling
  /\ HoldsNoMutex
  /\ \/ /\ owner[m] = None
        /\ owner' = [owner EXCEPT ![m] = current]
        /\ UNCHANGED <<state, current, ready, waiters, call>>
     \/ /\ owner[m] # None
        /\ waiters' = [waiters EXCEPT ![m] = Append(@, current)]
        /\ call' = [call EXCEPT ![current] = m]
        /\ sched_block
        /\ UNCHANGED owner
  /\ UNCHANGED <<sleepers, wake_in, joiner>>

\* The end of a contended mutex_lock, when the waiter runs again.
mutex_lock_return(m) ==
  /\ call[current] = m
  /\ call' = [call EXCEPT ![current] = None]
  /\ UNCHANGED <<state, current, ready, sleepers, wake_in, joiner, owner, waiters>>

\* Faulty: leaves the woken thread on the wait queue.
Bug_unlock_keeps_waiter(m) ==
  /\ Calling
  /\ owner[m] = current
  /\ \/ /\ waiters[m] = <<>>
        /\ owner' = [owner EXCEPT ![m] = None]
        /\ UNCHANGED <<state, current, ready>>
     \/ /\ waiters[m] # <<>>
        /\ owner' = [owner EXCEPT ![m] = Head(waiters[m])]
        /\ sched_wake(Head(waiters[m]))
  /\ UNCHANGED <<sleepers, wake_in, joiner, waiters, call>>

\* Faulty: serves the youngest waiter first.
Bug_unlock_lifo(m) ==
  /\ Calling
  /\ owner[m] = current
  /\ \/ /\ waiters[m] = <<>>
        /\ owner' = [owner EXCEPT ![m] = None]
        /\ UNCHANGED <<state, current, ready, waiters>>
     \/ /\ waiters[m] # <<>>
        /\ LET n == Len(waiters[m]) IN
             /\ owner' = [owner EXCEPT ![m] = waiters[m][n]]
             /\ waiters' = [waiters EXCEPT ![m] = SubSeq(@, 1, n - 1)]
             /\ sched_wake(waiters[m][n])
  /\ UNCHANGED <<sleepers, wake_in, joiner, call>>

\* Hands the lock to the oldest waiter, which owns it before it wakes.
mutex_unlock(m) ==
  /\ Calling
  /\ owner[m] = current
  /\ \/ /\ waiters[m] = <<>>
        /\ owner' = [owner EXCEPT ![m] = None]
        /\ UNCHANGED <<state, current, ready, waiters>>
     \/ /\ waiters[m] # <<>>
        /\ owner' = [owner EXCEPT ![m] = Head(waiters[m])]
        /\ waiters' = [waiters EXCEPT ![m] = Tail(@)]
        /\ sched_wake(Head(waiters[m]))
  /\ UNCHANGED <<sleepers, wake_in, joiner, call>>

-----------------------------------------------------------------------------
(* The timer interrupt                                                     *)

\* Faulty: only idle is preempted.
Bug_preempt_only_idle(st, rq) ==
  \/ /\ rq = <<>>
     /\ UNCHANGED <<state, current, ready>>
  \/ /\ rq # <<>> /\ current # Idle
     /\ state' = st /\ ready' = rq /\ UNCHANGED current
  \/ /\ rq # <<>> /\ current = Idle
     /\ requeue_and_schedule(st, rq)

\* need_resched is set when the tick finds anyone ready, and the dispatcher
\* acts on it before the interrupt returns: a timeslice is one tick.
sched_preempt(st, rq) ==
  \/ /\ rq = <<>>
     /\ UNCHANGED <<state, current, ready>>
  \/ /\ rq # <<>>
     /\ requeue_and_schedule(st, rq)

\* One PIT interrupt: the clock advances, the k sleepers that are due move to
\* the ready queue in wake order, and the running thread is preempted if anyone
\* is ready.
timer_irq ==
  \E k \in 0..Len(sleepers) :
    LET due   == {sleepers[i] : i \in 1..k}
        woken == [t \in Thread |-> IF t \in due THEN "READY" ELSE state[t]]
        queue == ready \o SubSeq(sleepers, 1, k)
    IN  /\ \A i \in 1..k : wake_in[sleepers[i]] <= 1
        /\ k < Len(sleepers) => wake_in[sleepers[k + 1]] > 1
        /\ sleepers' = SubSeq(sleepers, k + 1, Len(sleepers))
        /\ wake_in' = [t \in Thread |-> IF state[t] = "SLEEPING"
                                        THEN wake_in[t] - 1 ELSE wake_in[t]]
        /\ sched_preempt(woken, queue)
        /\ UNCHANGED <<joiner, owner, waiters, call>>

Next ==
  \/ timer_irq
  \/ sched_yield
  \/ thread_exit
  \/ \E n \in 1..MaxSleep : sched_sleep_ticks(n)
  \/ \E t \in Thread : thread_create(t) \/ thread_join(t) \/ thread_join_return(t)
  \/ \E m \in Mutex : mutex_lock(m) \/ mutex_lock_return(m) \/ mutex_unlock(m)

Spec == Init /\ [][Next]_vars

\* The PIT keeps interrupting.  A thread that is given the CPU again and
\* again goes on with its kernel code: a lock holder reaches its unlock, a
\* woken waiter returns from mutex_lock.
Fairness ==
  /\ WF_vars(timer_irq)
  /\ \A t \in Thread, m \in Mutex :
       /\ SF_vars(current = t /\ mutex_unlock(m))
       /\ SF_vars(current = t /\ mutex_lock_return(m))

FairSpec == Spec /\ Fairness

-----------------------------------------------------------------------------
(* Safety                                                                  *)

\* thread->next is the only link: no thread is on two lists or twice on one,
\* and the running thread is on none.
OnOneList ==
  /\ IsInjective(ready) /\ IsInjective(sleepers)
  /\ \A m \in Mutex : IsInjective(waiters[m])
  /\ Range(ready) \cap Range(sleepers) = {}
  /\ \A m \in Mutex : Range(waiters[m]) \cap (Range(ready) \cup Range(sleepers)) = {}
  /\ \A m, k \in Mutex : m # k => Range(waiters[m]) \cap Range(waiters[k]) = {}
  /\ current \notin Range(ready) \cup Range(sleepers)
  /\ \A m \in Mutex : current \notin Range(waiters[m])

\* No thread is lost: one that waits is where the code that must make it run
\* will look, and that code can still run.  A mutex with waiters has an
\* owner, a joined thread that is waited for has not exited yet, and the tick
\* that ends a sleep is still to come: none was left behind a later one when
\* sched_core_wake_due stopped at the first that is not due.
NoLostThread ==
  \A t \in Thread \ {Idle} :
    /\ state[t] = "READY" => t \in Range(ready)
    /\ state[t] = "SLEEPING" => t \in Range(sleepers) /\ wake_in[t] > 0
    /\ state[t] = "BLOCKED" =>
         \/ \E m \in Mutex : t \in Range(waiters[m]) /\ owner[m] \notin {None, t}
         \/ \E u \in Thread : joiner[u] = t /\ state[u] \notin {"ZOMBIE", "UNUSED"}

\* The due prefix is all there is to wake: no sleeper outstays its tick,
\* whatever order the sleeps were requested in.
NoOversleep == \A t \in Range(sleepers) : wake_in[t] > 0

\* A thread that comes back from blocking in mutex_lock owns the lock (the
\* assertion after sched_block), and a lock with waiters is never free.
LockHandoff ==
  \A m \in Mutex :
    /\ owner[m] = None => waiters[m] = <<>>
    /\ \A t \in Thread : call[t] = m /\ state[t] # "BLOCKED" => owner[m] = t

\* A thread that comes back from blocking in thread_join frees a zombie,
\* never a thread that may still run on the stack being freed.
JoinFreesZombie ==
  \A t, u \in Thread : call[t] = u /\ state[t] # "BLOCKED" => state[u] = "ZOMBIE"

\* Nothing refers to a thread that has exited or been freed: it is not
\* scheduled again, holds no lock, waits nowhere and has no joiner to wake.
NoDanglingThread ==
  \A t \in Thread : state[t] \in {"ZOMBIE", "UNUSED"} =>
    /\ t # current
    /\ t \notin Range(ready) \cup Range(sleepers)
    /\ \A m \in Mutex : owner[m] # t /\ t \notin Range(waiters[m])
    /\ joiner[t] = None
    /\ \A u \in Thread : joiner[u] # t

\* Idle never blocks, sleeps, exits or is queued, and it has the CPU only
\* while no thread is ready.
IdleIsFallback ==
  /\ state[Idle] \in {"READY", "RUNNING"}
  /\ Idle \notin Range(ready)
  /\ current = Idle => ready = <<>>

\* The queue loses at most its head, which gets the CPU, and the others keep
\* their order.
RoundRobinStep ==
  \E k \in 0..1 :
    /\ k <= Len(ready)
    /\ k = 1 => current' = Head(ready)
    /\ Len(ready') >= Len(ready) - k
    /\ \A i \in 1..(Len(ready) - k) : ready'[i] = ready[i + k]

\* A step takes at most the head off the ready queue, to run it, and adds
\* only behind the threads that were waiting: round robin.
RoundRobin == [][RoundRobinStep]_vars

-----------------------------------------------------------------------------
(* Liveness, under Fairness                                                *)

\* The tick preempts whoever runs, so every ready thread gets the CPU.
ReadyRuns == \A t \in Thread \ {Idle} : state[t] = "READY" ~> current = t

\* A thread holds a mutex once its mutex_lock has returned; one that has been
\* handed over to a waiter is still being entered.
Entering(m) == owner[m] # None /\ call[owner[m]] = m

Holder(m) == IF Entering(m) THEN None ELSE owner[m]
Queue(m) == IF Entering(m) THEN <<owner[m]>> \o waiters[m] ELSE waiters[m]

AnyMutex == CHOOSE m \in Mutex : TRUE

Lock == INSTANCE FifoLock WITH holder <- Holder(AnyMutex), queue <- Queue(AnyMutex)

\* A mutex run by this scheduler is a first-come-first-served lock: mutual
\* exclusion, no overtaking, and everyone who asks gets in.
MutexIsFifoLock == Lock!LockSpec
=============================================================================
