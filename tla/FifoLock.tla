------------------------------ MODULE FifoLock -------------------------------
(***************************************************************************)
(* What kernel/sched/mutex.c promises its callers: mutual exclusion, entry *)
(* in order of arrival with nobody overtaken, and, as long as every holder *)
(* leaves, entry for everyone who asked.                                   *)
(***************************************************************************)
EXTENDS Sequences, Functions

CONSTANTS Thread, None

VARIABLES holder,  \* the thread inside the critical section, or None
          queue    \* the threads that asked and are not inside, oldest first

lockVars == <<holder, queue>>

LockInit == holder = None /\ queue = <<>>

\* A free lock that nobody waits for is entered at once.
EnterAtOnce(t) == /\ holder = None /\ queue = <<>>
                  /\ holder' = t
                  /\ UNCHANGED queue

Arrive(t) == /\ holder # None \/ queue # <<>>
             /\ t # holder /\ t \notin Range(queue)
             /\ queue' = Append(queue, t)
             /\ UNCHANGED holder

Enter == /\ holder = None /\ queue # <<>>
         /\ holder' = Head(queue)
         /\ queue' = Tail(queue)

Leave == /\ holder # None
         /\ holder' = None
         /\ UNCHANGED queue

LockNext == Enter \/ Leave \/ \E t \in Thread : EnterAtOnce(t) \/ Arrive(t)

\* The safety part: no lock step is taken that LockNext does not allow.
LockSafety == LockInit /\ [][LockNext]_lockVars

LockSpec == LockSafety /\ WF_lockVars(Enter) /\ WF_lockVars(Leave)
=============================================================================
