---------------------------- MODULE ProcessSteps ----------------------------
(***************************************************************************)
(* Proofs about Process, for any table size, number of pids and frames.    *)
(***************************************************************************)
EXTENDS Process, FiniteSetTheorems, WellFoundedInduction, TLAPS

-----------------------------------------------------------------------------
(* The inductive invariant                                                 *)

\* Places of a thread that has a process and has not exited.
Running == {"new", "user", "forking", "cloned", "built", "committed",
            "wait", "found", "joined", "destroyed"}

\* Slot s is the process p's.
Of(s, p) == InUse(s) /\ procs[s].pid = p

\* Process p is in the table and its thread can run.
Lives(p) == /\ \E x \in Slot : Of(x, p) /\ procs[x].state = "LIVE"
            /\ at[p] \in Running

\* Pids are handed out once, parents are older than their children, and the
\* parent of every process but init is alive.
TableInv ==
  /\ \A s \in Slot : IF InUse(s) THEN procs[s].pid \in Pid /\ procs[s].pid < next_pid
                     ELSE procs[s] = Unused
  /\ \A s, x \in Slot : InUse(s) /\ Of(x, procs[s].pid) => s = x
  /\ \A s \in Slot : InUse(s) /\ procs[s].pid # INIT =>
       procs[s].ppid < procs[s].pid /\ Lives(procs[s].ppid)

\* The last process to go is init.
InitInv == Lives(INIT) \/ \A s \in Slot : InUse(s) => procs[s].pid = INIT

\* The life of a process, by its slot: a child that fork is making, one with
\* a thread, one that has exited, and one that its parent is collecting.
Embryo(s) ==
  /\ procs[s].state = "LIVE" /\ at[procs[s].pid] = "none"
  /\ procs[s].ppid \in Pid /\ arg[procs[s].ppid] = procs[s].pid
  /\ \/ at[procs[s].ppid] = "forking" /\ pml4[s] = None
     \/ at[procs[s].ppid] = "cloned" /\ pml4[s] # None

Alive(s) == /\ procs[s].state = "LIVE" /\ at[procs[s].pid] \in Running
            /\ host[s] = procs[s].pid /\ pml4[s] # None

Dead(s) == /\ procs[s].state = "ZOMBIE" /\ at[procs[s].pid] = "zombie"
           /\ host[s] = procs[s].pid /\ pml4[s] # None

Collected(s) ==
  /\ procs[s].state = "ZOMBIE" /\ at[procs[s].pid] = "freed"
  /\ procs[s].ppid \in Pid /\ arg[procs[s].ppid] = procs[s].pid
  /\ \/ at[procs[s].ppid] = "joined" /\ pml4[s] # None
     \/ at[procs[s].ppid] = "destroyed" /\ pml4[s] = None

Staged(s) == IF InUse(s) THEN Embryo(s) \/ Alive(s) \/ Dead(s) \/ Collected(s)
             ELSE pml4[s] = None

SlotInv == \A s \in Slot : Staged(s)

\* The same by its thread: it has a slot until it is collected, and the child
\* that it is working on is its own.
Child(p, s) == Of(s, arg[p]) /\ procs[s].ppid = p

ThreadOK(p) ==
  /\ at[p] \in Running \cup {"zombie"} => \E s \in Slot : Of(s, p)
  /\ at[p] \in {"forking", "cloned"} => \E s \in Slot : Child(p, s) /\ Embryo(s)
  /\ at[p] = "found" => \E s \in Slot : Child(p, s) /\ Dead(s)
  /\ at[p] \in {"joined", "destroyed"} => \E s \in Slot : Child(p, s) /\ Collected(s)
  /\ p >= next_pid => at[p] = "none"
  /\ at[p] \in {"none", "new"} => thread_as[p] = None
  /\ at[p] \in Running \ {"new"} => \E s \in Slot : Of(s, p) /\ thread_as[p] = s

ThreadInv == \A p \in Pid : ThreadOK(p)

\* A blocked thread is published as its slot's waiter and nobody else is, and
\* unless it is init it waits for a child that is alive.
WaitInv ==
  /\ \A p \in blocked : /\ at[p] = "wait"
                        /\ \E s \in Slot : Of(s, p) /\ waiter[s] = p
                        /\ p # INIT => Matching(p, arg[p]) # {} /\ Zombies(p, arg[p]) = {}
  /\ \A s \in Slot : waiter[s] # None => Of(s, waiter[s]) /\ waiter[s] \in blocked

\* The pointer that schedule() remembers is the running thread's, and CR3
\* holds what it points to.
MmuInv ==
  /\ cur # Kernel => cur \in Runnable
  /\ active_as = IF cur = Kernel \/ thread_as[cur] = None THEN KernelAs ELSE thread_as[cur]
  /\ cr3 = IF active_as = KernelAs THEN KernelAs ELSE pml4[active_as]

\* Every allocated frame has one owner: a slot, or an execve.
Exec(p) == at[p] \in {"built", "committed"}

Owned(f) == (\E s \in Slot : pml4[s] = f) \/ (\E p \in Pid : Exec(p) /\ arg[p] = f)

FrameInv ==
  /\ \A s, x \in Slot : pml4[s] # None /\ pml4[s] = pml4[x] => s = x
  /\ \A p \in Pid : Exec(p) => arg[p] \in Frame /\ \A s \in Slot : pml4[s] # arg[p]
  /\ \A p, q \in Pid : Exec(p) /\ Exec(q) /\ arg[p] = arg[q] => p = q
  /\ \A f \in Frame : f \in used <=> Owned(f)

ProcInv == /\ TypeOK /\ TableInv /\ InitInv /\ SlotInv
           /\ ThreadInv /\ WaitInv /\ MmuInv /\ FrameInv

-----------------------------------------------------------------------------
(* Smallest elements and slots                                             *)

\* A set of natural numbers has a smallest element.
LEMMA Smallest ==
  ASSUME NEW T \in SUBSET Nat, T # {}
  PROVE  \E x \in T : \A y \in T : x <= y
<1> DEFINE R == OpToRel(<, Nat)
<1>1. PICK x \in T : \A y \in T : ~(<<y, x>> \in R)
  <2> HIDE DEF R
  <2> QED BY NatLessThanWellFounded, WFMin, Zenon DEF R
<1>2. \A y \in T : ~(y < x)
  BY <1>1, Zenon DEF OpToRel
<1> QED BY <1>2

\* Min, of a set of slots.
LEMMA MinSlot ==
  ASSUME ProcAssumption, NEW T \in SUBSET Slot, T # {}
  PROVE  Min(T) \in T
<1>1. \E x \in T : \A y \in T : x <= y
  BY Smallest DEF Slot, ProcAssumption
<1> QED BY <1>1 DEF Min

\* The slot of a process in the table.
LEMMA SlotOf ==
  ASSUME TableInv, NEW s \in Slot, NEW p, Of(s, p)
  PROVE  slot(p) = s
BY DEF TableInv, Of, slot

-----------------------------------------------------------------------------
(* Steps                                                                   *)

\* What the table, the life of processes and the frames depend on.
LEMMA SameLives ==
  ASSUME TableInv, InitInv, SlotInv, ThreadInv, FrameInv,
         UNCHANGED <<table, pml4, host, used, thread_as, at, arg>>
  PROVE  TableInv' /\ InitInv' /\ SlotInv' /\ ThreadInv' /\ FrameInv'
<1>1. TableInv' /\ InitInv'
  BY Zenon DEF TableInv, InitInv, Lives, table, Of, InUse
<1>2. SlotInv'
  BY DEF SlotInv, Staged, Embryo, Alive, Dead, Collected, table, InUse
<1>3. ThreadInv'
  <2> USE DEF table
  <2>1. \A s \in Slot : /\ Embryo(s) => Embryo(s)'
                        /\ Dead(s) => Dead(s)'
                        /\ Collected(s) => Collected(s)'
    BY DEF Embryo, Dead, Collected
  <2>2. \A s \in Slot, p \in Pid : /\ Of(s, p) => Of(s, p)'
                                   /\ Child(p, s) => Child(p, s)'
    BY DEF Of, Child, InUse
  <2> QED BY <2>1, <2>2, Zenon DEF ThreadInv, ThreadOK
<1>4. FrameInv'
  BY DEF FrameInv, Exec, Owned
<1> QED BY <1>1, <1>2, <1>4, <1>3, Zenon

\* A thread that can run and has an address space has page tables.
LEMMA HasTables ==
  ASSUME TypeOK, TableInv, SlotInv, ThreadInv, NEW p \in Pid, at[p] \in Running, thread_as[p] # None
  PROVE  \E s \in Slot : Of(s, p) /\ thread_as[p] = s /\ pml4[s] \in Frame
<1>1. PICK s \in Slot : Of(s, p) /\ thread_as[p] = s
  BY Zenon DEF ThreadInv, ThreadOK, Running
<1>2. pml4[s] \in Frame
  BY <1>1 DEF SlotInv, Staged, Of, Alive, Embryo, Dead, Collected, TypeOK, Running
<1> QED BY <1>1, <1>2

\* schedule() loads the address space of the thread it switches to.
LEMMA Schedules ==
  ASSUME TypeOK, TableInv, SlotInv, ThreadInv, MmuInv,
         NEW q \in Pid \cup {Kernel}, schedule(q), UNCHANGED <<pml4, thread_as>>,
         q # Kernel => q \in Runnable' /\ at[q] \in Running
  PROVE  /\ MmuInv' /\ cur' \in Pid \cup {Kernel}
         /\ active_as' \in Slot \cup {KernelAs} /\ cr3' \in Frame \cup {KernelAs}
<1>1. CASE q = Kernel \/ thread_as[q] = None
  BY <1>1, ProcAssumption, Zenon DEF TypeOK, MmuInv, schedule, activate
<1>2. CASE q # Kernel /\ thread_as[q] # None
  <2>1. PICK s \in Slot : thread_as[q] = s /\ pml4[s] \in Frame
    BY <1>2, HasTables, Zenon
  <2>2. active_as' = s /\ cr3' = pml4[s] /\ cur' = q
    BY <1>2, <2>1, ProcAssumption, Zenon DEF MmuInv, schedule, activate, TypeOK
  <2> QED BY <1>2, <2>1, <2>2, ProcAssumption, Zenon DEF MmuInv
<1> QED BY <1>1, <1>2, Zenon

\* schedule() between two threads.
LEMMA Switch ==
  ASSUME ProcInv, NEW q \in Pid \cup {Kernel}, switch(q)
  PROVE  ProcInv'
<1> USE DEF ProcInv, switch
<1>1. TableInv' /\ InitInv' /\ SlotInv' /\ ThreadInv' /\ FrameInv'
  BY SameLives, Zenon DEF pstate
<1>2. WaitInv'
  BY DEF WaitInv, Matching, Zombies, InUse, Of, table, pstate
<1>3. /\ MmuInv' /\ cur' \in Pid \cup {Kernel}
      /\ active_as' \in Slot \cup {KernelAs} /\ cr3' \in Frame \cup {KernelAs}
  <2>1. q # Kernel => q \in Runnable' /\ at[q] \in Running
    BY Zenon DEF Runnable, Running, Place, TypeOK
  <2> QED BY <2>1, Schedules, Zenon DEF pstate
<1>4. TypeOK'
  BY <1>3, Zenon DEF TypeOK, table, pstate
<1> QED BY <1>1, <1>2, <1>3, <1>4, Zenon

\* The running thread has a slot, with its address space in CR3.
LEMMA Current ==
  ASSUME ProcInv, NEW p \in Pid, cur = p
  PROVE  /\ at[p] \in Running /\ p \notin blocked
         /\ \E s \in Slot : /\ Of(s, p) /\ slot(p) = s /\ Alive(s) /\ waiter[s] = None
                            /\ at[p] # "new" => thread_as[p] = s /\ active_as = s /\ cr3 = pml4[s]
<1> USE DEF ProcInv
<1>1. at[p] \in Running /\ p \notin blocked
  BY ProcAssumption DEF MmuInv, Runnable, Running, Place, TypeOK, Pid, Kernel
<1>2. PICK s \in Slot : Of(s, p) /\ (at[p] # "new" => thread_as[p] = s)
  BY <1>1 DEF ThreadInv, ThreadOK, Running
<1>3. slot(p) = s
  BY <1>2, SlotOf, Zenon
<1>4. Alive(s)
  BY <1>1, <1>2, Zenon DEF SlotInv, Staged, Of, Embryo, Dead, Collected, Running
<1>5. waiter[s] = None
  BY <1>1, <1>2 DEF WaitInv, Of
<1>6. p # Kernel /\ s # None /\ s # KernelAs
  BY ProcAssumption DEF Pid, Kernel, Slot
<1>7. at[p] # "new" => active_as = s /\ cr3 = pml4[s]
  BY <1>2, <1>6, Zenon DEF MmuInv
<1> QED BY <1>1, <1>2, <1>3, <1>4, <1>5, <1>7, Zenon

\* The slot of the child that p works on.
LEMMA ChildOf ==
  ASSUME ProcInv, NEW p \in Pid, at[p] \in {"forking", "cloned", "found", "joined", "destroyed"}
  PROVE  \E s \in Slot :
           /\ Child(p, s) /\ slot(arg[p]) = s /\ arg[p] \in Pid /\ arg[p] # p
           /\ at[p] \in {"forking", "cloned"} => Embryo(s)
           /\ at[p] = "found" => Dead(s)
           /\ at[p] \in {"joined", "destroyed"} => Collected(s)
<1> USE DEF ProcInv
<1>1. PICK s \in Slot :
           /\ Child(p, s)
           /\ at[p] \in {"forking", "cloned"} => Embryo(s)
           /\ at[p] = "found" => Dead(s)
           /\ at[p] \in {"joined", "destroyed"} => Collected(s)
  BY DEF ThreadInv, ThreadOK
<1>2. slot(arg[p]) = s
  BY <1>1, SlotOf, Zenon DEF Child
<1>3. arg[p] \in Pid
  BY <1>1, Zenon DEF Child, Of, TableInv
<1>4. arg[p] # p
  BY <1>1 DEF Embryo, Dead, Collected, Child, Of
<1> QED BY <1>1, <1>2, <1>3, <1>4, Zenon

\* While the table does not change, nobody dies unless its thread does.
LEMMA LivesOn ==
  ASSUME TableInv, InitInv, UNCHANGED table,
         \A q \in Pid : at[q] \in Running => at'[q] \in Running
  PROVE  TableInv' /\ InitInv'
<1> USE DEF table
<1>1. \A s \in Slot, q \in Int : (InUse(s)' <=> InUse(s)) /\ (Of(s, q)' <=> Of(s, q))
  BY DEF InUse, Of
<1>2. \A q \in Pid : Lives(q) => Lives(q)'
  BY <1>1 DEF Lives, Pid
<1>3. \A q : Lives(q) => q \in Pid
  BY Zenon DEF Lives, TableInv, Of
<1>4. TableInv'
  BY <1>1, <1>2, <1>3 DEF TableInv, Pid
<1>5. InitInv'
  BY <1>1, <1>2, <1>3 DEF InitInv
<1> QED BY <1>4, <1>5, Zenon

\* Places where a thread works on no child.
Alone == {"user", "built", "committed", "wait"}

\* A thread that works on no child moves on: what the table, the lives of
\* processes and the threads see of it.
LEMMA Moves ==
  ASSUME TypeOK, TableInv, InitInv, SlotInv, ThreadInv,
         NEW p \in Pid, at[p] \in Alone, NEW place \in Alone, NEW x, Goto(p, place, x),
         UNCHANGED <<table, host, thread_as>>,
         \A s \in Slot : pml4'[s] = None <=> pml4[s] = None
  PROVE  TableInv' /\ InitInv' /\ SlotInv' /\ ThreadInv'
<1> USE DEF table
<1>1. \A q \in Pid : q # p => at'[q] = at[q] /\ arg'[q] = arg[q]
  BY Zenon DEF Goto, TypeOK
<1>2. at'[p] = place /\ place \in Running /\ at[p] \in Running
  BY Zenon DEF Goto, TypeOK, Alone, Running
<1>3. TableInv' /\ InitInv'
  BY <1>1, <1>2, LivesOn, Zenon
<1>4. \A s \in Slot : InUse(s) => procs[s].pid \in Pid
  BY Zenon DEF TableInv
<1>5. \A s \in Slot : /\ InUse(s)' = InUse(s)
                      /\ InUse(s) /\ Embryo(s) => Embryo(s)'
                      /\ InUse(s) /\ Alive(s) => Alive(s)'
                      /\ InUse(s) /\ Dead(s) => Dead(s)'
                      /\ InUse(s) /\ Collected(s) => Collected(s)'
  BY <1>1, <1>2, <1>4 DEF Embryo, Alive, Dead, Collected, InUse, Alone, Running
<1>6. SlotInv'
  BY <1>5, Zenon DEF SlotInv, Staged, InUse
<1>7. \A s \in Slot, q \in Pid : /\ Of(s, q) => Of(s, q)'
                                 /\ Child(q, s) /\ q # p => Child(q, s)'
  BY <1>1, Zenon DEF Of, Child, InUse
<1>8. ThreadInv'
  <2> SUFFICES ASSUME NEW q \in Pid PROVE ThreadOK(q)'
    BY Zenon DEF ThreadInv
  <2>1. CASE q = p
    BY <1>1, <1>2, <1>7, <2>1, Zenon DEF ThreadInv, ThreadOK, Alone, Running
  <2>2. CASE q # p
    BY <1>1, <1>5, <1>7, <2>2 DEF ThreadInv, ThreadOK, Child, Of
  <2> QED BY <2>1, <2>2, Zenon
<1> QED BY <1>3, <1>6, <1>8, Zenon

\* Steps of others do not concern a blocked thread.
LEMMA KeepsWaiters ==
  ASSUME TypeOK, WaitInv, UNCHANGED <<table, waiter, blocked>>,
         \A q \in blocked : at'[q] = at[q] /\ arg'[q] = arg[q]
  PROVE  WaitInv'
BY DEF WaitInv, Matching, Zombies, Of, InUse, table

\* What the MMU sees of a step that does not change the running thread's tables.
LEMMA KeepsMmu ==
  ASSUME TypeOK, MmuInv, UNCHANGED <<mmu, blocked>>,
         cur # Kernel => at'[cur] \in Running,
         active_as # KernelAs => pml4'[active_as] = pml4[active_as]
  PROVE  MmuInv'
BY DEF MmuInv, mmu, Runnable, Running, TypeOK

-----------------------------------------------------------------------------
(* execve                                                                  *)

\* execve allocates the new address space.
LEMMA ExecveBuild ==
  ASSUME ProcInv, NEW p \in Pid, execve_build(p)
  PROVE  ProcInv'
<1> USE DEF ProcInv, pstate
<1>1. PICK f \in Frame : f \notin used /\ used' = used \cup {f} /\ Goto(p, "built", f)
  BY Zenon DEF execve_build, paging_addrspace_create
<1>2. /\ cur = p /\ at[p] = "user" /\ p \notin blocked
      /\ UNCHANGED <<table, pstate, mmu, blocked>>
  BY Current, Zenon DEF execve_build
<1>3. TableInv' /\ InitInv' /\ SlotInv' /\ ThreadInv'
  BY <1>1, <1>2, Moves, Zenon DEF mmu, Alone
<1>4. \A q \in Pid : q # p => at'[q] = at[q] /\ arg'[q] = arg[q]
  BY <1>1, Zenon DEF Goto, TypeOK
<1>5. at'[p] = "built" /\ arg'[p] = f
  BY <1>1, Zenon DEF Goto, TypeOK
<1>6. WaitInv'
  BY <1>2, <1>4, KeepsWaiters, Zenon DEF TypeOK
<1>7. MmuInv'
  BY <1>2, <1>5, KeepsMmu, Zenon DEF Running
<1>8. FrameInv'
  <2>1. \A q \in Pid : Exec(q)' <=> Exec(q) \/ q = p
    BY <1>4, <1>5, Zenon DEF Exec
  <2>2. ~Owned(f) /\ ~Exec(p)
    BY <1>1, <1>2, Zenon DEF FrameInv, Exec
  <2>3. \A q, r \in Pid : Exec(q)' /\ Exec(r)' /\ arg'[q] = arg'[r] => q = r
    <3>1. \A q \in Pid : Exec(q) => q # p /\ arg'[q] = arg[q] /\ arg[q] # f
      BY <1>4, <2>2, Zenon DEF Owned
    <3> QED BY <1>5, <2>1, <3>1, Zenon DEF FrameInv
  <2>4. \A q \in Pid : Exec(q)' => arg'[q] \in Frame /\ \A s \in Slot : pml4[s] # arg'[q]
    BY <1>4, <1>5, <2>1, <2>2, Zenon DEF FrameInv, Owned
  <2>5. \A g \in Frame : Owned(g)' <=> Owned(g) \/ g = f
    BY <1>2, <1>4, <1>5, <2>1, <2>2, Zenon DEF Owned
  <2>6. \A g \in Frame : g \in used' <=> Owned(g)'
    BY <1>1, <2>5, Zenon DEF FrameInv
  <2> QED BY <1>2, <2>3, <2>4, <2>6, Zenon DEF FrameInv
<1>9. TypeOK'
  BY <1>1, <1>2, Zenon DEF TypeOK, Goto, table, mmu, Place
<1> QED BY <1>3, <1>6, <1>7, <1>8, <1>9, Zenon

\* The frame that an execve does not need goes back.
LEMMA ExecveEnds ==
  ASSUME ProcInv, NEW p \in Pid, execve_fail(p) \/ execve_return(p)
  PROVE  ProcInv'
<1> USE DEF ProcInv, pstate
<1>1. /\ cur = p /\ Exec(p) /\ p \notin blocked /\ used' = used \ {arg[p]}
      /\ Goto(p, "user", None)
      /\ UNCHANGED <<table, pstate, mmu, blocked>>
  BY Current, Zenon DEF execve_fail, execve_return, Exec
<1>2. TableInv' /\ InitInv' /\ SlotInv' /\ ThreadInv'
  BY <1>1, Moves, Zenon DEF mmu, Alone, Exec
<1>3. \A q \in Pid : q # p => at'[q] = at[q] /\ arg'[q] = arg[q]
  BY <1>1, Zenon DEF Goto, TypeOK
<1>4. at'[p] = "user"
  BY <1>1, Zenon DEF Goto, TypeOK
<1>5. WaitInv'
  BY <1>1, <1>3, KeepsWaiters, Zenon DEF TypeOK
<1>6. MmuInv'
  BY <1>1, <1>4, KeepsMmu, Zenon DEF Running
<1>7. FrameInv'
  <2>1. \A q \in Pid : Exec(q)' <=> Exec(q) /\ q # p
    BY <1>3, <1>4, Zenon DEF Exec
  <2>2. \A g \in Frame : Owned(g)' <=> Owned(g) /\ g # arg[p]
    BY <1>1, <1>3, <2>1 DEF Owned, FrameInv
  <2>3. \A g \in Frame : g \in used' <=> Owned(g)'
    BY <1>1, <2>2, Zenon DEF FrameInv
  <2>4. \A q \in Pid : Exec(q)' => arg'[q] = arg[q] /\ Exec(q)
    BY <1>3, <2>1, Zenon
  <2> QED BY <1>1, <2>3, <2>4, Zenon DEF FrameInv
<1>8. TypeOK'
  BY <1>1 DEF TypeOK, Goto, table, mmu, Place
<1> QED BY <1>2, <1>5, <1>6, <1>7, <1>8, Zenon

\* execve swaps the two address spaces, the frame in arg for the slot's.
LEMMA ExecveCommit ==
  ASSUME ProcInv, NEW p \in Pid, execve_commit(p)
  PROVE  ProcInv'
<1> USE DEF ProcInv
<1>1. PICK s \in Slot : /\ Of(s, p) /\ slot(p) = s /\ Alive(s)
                        /\ thread_as[p] = s /\ active_as = s /\ cr3 = pml4[s]
  BY Current, Zenon DEF execve_commit
<1>2. /\ cur = p /\ at[p] = "built" /\ p \notin blocked
      /\ pml4' = [pml4 EXCEPT ![s] = arg[p]] /\ cr3' = arg[p]
      /\ Goto(p, "committed", pml4[s])
      /\ UNCHANGED <<table, host, waiter, used, cur, thread_as, active_as, blocked>>
  BY <1>1, Current, Zenon DEF execve_commit
<1>3. arg[p] \in Frame /\ pml4[s] \in Frame /\ \A x \in Slot : pml4[x] # arg[p]
  <2>1. pml4[s] \in Frame
    BY <1>1, Zenon DEF Alive, TypeOK
  <2>2. arg[p] \in Frame /\ \A x \in Slot : pml4[x] # arg[p]
    BY <1>2, Zenon DEF FrameInv, Exec
  <2> QED BY <2>1, <2>2, Zenon
<1>4. \A x \in Slot : pml4'[x] = IF x = s THEN arg[p] ELSE pml4[x]
  BY <1>2, Zenon DEF TypeOK
<1>5. \A x \in Slot : pml4'[x] = None <=> pml4[x] = None
  BY <1>3, <1>4, ProcAssumption, Zenon
<1>6. TableInv' /\ InitInv' /\ SlotInv' /\ ThreadInv'
  BY <1>2, <1>5, Moves, Zenon DEF Alone
<1>7. \A q \in Pid : q # p => at'[q] = at[q] /\ arg'[q] = arg[q]
  BY <1>2, Zenon DEF Goto, TypeOK
<1>8. at'[p] = "committed" /\ arg'[p] = pml4[s]
  BY <1>2, Zenon DEF Goto, TypeOK
<1>9. WaitInv'
  BY <1>2, <1>7, KeepsWaiters, Zenon DEF TypeOK
<1>10. MmuInv'
  BY <1>1, <1>2, <1>4, <1>8, ProcAssumption, Zenon DEF MmuInv, Runnable, Kernel
<1>11. FrameInv'
  <2>1. \A q \in Pid : (Exec(q)' <=> Exec(q)) /\ (q # p => arg'[q] = arg[q])
    BY <1>2, <1>7, <1>8, Zenon DEF Exec
  <2>2. \A x, y \in Slot : pml4'[x] # None /\ pml4'[x] = pml4'[y] => x = y
    BY <1>3, <1>4, Zenon DEF FrameInv
  <2>3. Exec(p)
    BY <1>2, Zenon DEF Exec
  <2>4. \A q \in Pid : Exec(q)' => arg'[q] \in Frame /\ \A x \in Slot : pml4'[x] # arg'[q]
    <3> SUFFICES ASSUME NEW q \in Pid, Exec(q) PROVE arg'[q] \in Frame /\ \A x \in Slot : pml4'[x] # arg'[q]
      BY <2>1, Zenon
    <3>1. CASE q = p
      BY <1>3, <1>4, <1>8, <3>1, ProcAssumption, Zenon DEF FrameInv
    <3>2. CASE q # p
      BY <1>4, <2>1, <2>3, <3>2, Zenon DEF FrameInv
    <3> QED BY <3>1, <3>2, Zenon
  <2>5. \A q, r \in Pid : Exec(q)' /\ Exec(r)' /\ arg'[q] = arg'[r] => q = r
    BY <1>8, <2>1, <2>3 DEF FrameInv
  <2>6. \A f \in Frame : Owned(f)' <=> Owned(f)
    <3> TAKE f \in Frame
    <3>1. Owned(f)' => Owned(f)
      BY <1>4, <1>8, <2>1, <2>3, Zenon DEF Owned
    <3>2. Owned(f) => Owned(f)'
      BY <1>4, <1>8, <2>1, <2>3, Zenon DEF Owned
    <3> QED BY <3>1, <3>2
  <2> QED BY <1>2, <2>2, <2>4, <2>5, <2>6, Zenon DEF FrameInv
<1>12. TypeOK'
  BY <1>2, <1>3 DEF TypeOK, Goto, table, Place
<1> QED BY <1>6, <1>9, <1>10, <1>11, <1>12, Zenon

-----------------------------------------------------------------------------
(* A thread p works on a child c in slot z: what the others see            *)

\* Slot z is c's or free, and c is the only child that p is working on.
OneChild(p, c, z) ==
  /\ at[p] \in Running /\ at[c] \notin Running
  /\ InUse(z) => procs[z].pid = c /\ procs[z].ppid = p
  /\ \A s \in Slot \ {z} : ~Of(s, c)
  /\ \A s \in Slot \ {z} : InUse(s) /\ procs[s].ppid = p => ~Embryo(s) /\ ~Collected(s)

\* The other threads do not move and the other slots do not change.
Elsewhere(p, c, z) ==
  /\ \A q \in Pid \ {p, c} : /\ at'[q] = at[q] /\ arg'[q] = arg[q]
                             /\ thread_as'[q] = thread_as[q]
  /\ \A s \in Slot \ {z} : procs'[s] = procs[s] /\ host'[s] = host[s] /\ pml4'[s] = pml4[s]

\* The other slots and the other threads keep their places.
LEMMA Others ==
  ASSUME TableInv, SlotInv, ThreadInv, NEW p \in Pid, NEW c \in Pid, NEW z \in Slot,
         OneChild(p, c, z), Elsewhere(p, c, z), at'[p] \in Running,
         next_pid' \in Int, next_pid \in Int, next_pid' >= next_pid
  PROVE  /\ \A s \in Slot \ {z} : Staged(s)'
         /\ \A q \in Pid \ {p, c} : ThreadOK(q)'
<1>1. \A s \in Slot \ {z} : /\ InUse(s) => procs[s].pid \in Pid \ {c}
                            /\ InUse(s)' <=> InUse(s)
  BY Zenon DEF TableInv, Of, InUse, OneChild, Elsewhere
<1>2. ASSUME NEW s \in Slot \ {z}, InUse(s)
      PROVE  (Alive(s) => Alive(s)') /\ (Dead(s) => Dead(s)')
  <2>1. procs'[s] = procs[s] /\ host'[s] = host[s] /\ pml4'[s] = pml4[s]
    BY Zenon DEF Elsewhere
  <2>2. CASE procs[s].pid = p
    BY <2>1, <2>2, Zenon DEF Alive, Dead, Running, OneChild
  <2>3. CASE procs[s].pid # p
    <3>1. at'[procs[s].pid] = at[procs[s].pid]
      BY <1>1, <1>2, <2>3, Zenon DEF Elsewhere
    <3> QED BY <2>1, <3>1, Zenon DEF Alive, Dead
  <2> QED BY <2>2, <2>3, Zenon
<1>3. ASSUME NEW s \in Slot \ {z}, InUse(s)
      PROVE  (Embryo(s) => Embryo(s)') /\ (Collected(s) => Collected(s)')
  <2> SUFFICES ASSUME Embryo(s) \/ Collected(s)
               PROVE  (Embryo(s) => Embryo(s)') /\ (Collected(s) => Collected(s)')
    BY Zenon
  <2>1. procs[s].pid \in Pid \ {p, c}
    BY <1>1, <1>3 DEF Embryo, Collected, Running, OneChild
  <2>2. procs[s].ppid \in Pid \ {p, c}
    BY <1>3, Zenon DEF Embryo, Collected, Running, OneChild
  <2>3. procs'[s] = procs[s] /\ pml4'[s] = pml4[s]
    BY Zenon DEF Elsewhere
  <2>4. /\ at'[procs[s].pid] = at[procs[s].pid] /\ at'[procs[s].ppid] = at[procs[s].ppid]
        /\ arg'[procs[s].ppid] = arg[procs[s].ppid]
    BY <2>1, <2>2, Zenon DEF Elsewhere
  <2> QED BY <2>2, <2>3, <2>4, Zenon DEF Embryo, Collected
<1>4. \A s \in Slot \ {z} : Staged(s)'
  BY <1>1, <1>2, <1>3, Zenon DEF SlotInv, Staged, Elsewhere
<1>5. ASSUME NEW q \in Pid \ {p, c} PROVE ThreadOK(q)'
  <2>1. at'[q] = at[q] /\ arg'[q] = arg[q] /\ thread_as'[q] = thread_as[q]
    BY Zenon DEF Elsewhere
  <2>2. ASSUME NEW s \in Slot, Of(s, q) PROVE Of(s, q)'
    BY <1>1, <2>2, Zenon DEF Of, OneChild, Elsewhere
  <2>3. ASSUME NEW s \in Slot, Child(q, s)
        PROVE  Child(q, s)' /\ (Embryo(s) => Embryo(s)') /\ (Dead(s) => Dead(s)')
                            /\ (Collected(s) => Collected(s)')
    <3>1. s # z /\ InUse(s)
      BY <2>3, Zenon DEF Child, Of, OneChild
    <3>2. Child(q, s)'
      BY <1>1, <2>1, <2>3, <3>1, Zenon DEF Child, Of, Elsewhere
    <3> QED BY <1>2, <1>3, <3>1, <3>2, Zenon
  <2>4. ThreadOK(q)
    BY DEF ThreadInv
  <2>5. q >= next_pid' => q >= next_pid
    <3>1. q \in Int
      BY DEF Pid
    <3> QED BY ONLY <3>1, next_pid' \in Int, next_pid \in Int, next_pid' >= next_pid
  <2> QED BY <2>1, <2>2, <2>3, <2>4, <2>5, Zenon DEF ThreadOK
<1> QED BY <1>4, <1>5, Zenon

\* A change in slot z makes no difference to a parent whose child is not there.
LEMMA SameChildren ==
  ASSUME NEW q, NEW z \in Slot, arg'[q] = arg[q],
         \A x \in Slot : x # z => procs'[x] = procs[x],
         InUse(z) => procs[z].ppid # q, InUse(z)' => procs'[z].ppid # q
  PROVE  /\ (Matching(q, arg[q]))' = Matching(q, arg[q])
         /\ (Zombies(q, arg[q]))' = Zombies(q, arg[q])
<1>1. ASSUME NEW x \in Slot
      PROVE  /\ x \in (Matching(q, arg[q]))' <=> x \in Matching(q, arg[q])
             /\ x \in (Zombies(q, arg[q]))' <=> x \in Zombies(q, arg[q])
  BY Zenon DEF Matching, Zombies, InUse
<1>2. /\ Matching(q, arg[q]) \subseteq Slot /\ (Matching(q, arg[q]))' \subseteq Slot
      /\ Zombies(q, arg[q]) \subseteq Slot /\ (Zombies(q, arg[q]))' \subseteq Slot
  BY Zenon DEF Matching, Zombies
<1> QED BY <1>1, <1>2, Zenon

\* What the frames depend on.
LEMMA SameFrames ==
  ASSUME FrameInv, UNCHANGED <<pml4, used>>,
         \A q \in Pid : (Exec(q)' <=> Exec(q)) /\ (Exec(q) => arg'[q] = arg[q])
  PROVE  FrameInv'
<1>1. \A f \in Frame : Owned(f)' <=> Owned(f)
  BY Zenon DEF Owned
<1> QED BY <1>1, Zenon DEF FrameInv

\* A slot gives its frame back, if it has one.
LEMMA FreesFrame ==
  ASSUME FrameInv, NEW z \in Slot, used' = used \ {pml4[z]},
         \A s \in Slot : pml4'[s] = IF s = z THEN None ELSE pml4[s],
         \A q \in Pid : (Exec(q)' <=> Exec(q)) /\ (Exec(q) => arg'[q] = arg[q])
  PROVE  FrameInv'
<1>1. \A s \in Slot : (s # z => pml4'[s] = pml4[s]) /\ pml4'[z] = None
  BY Zenon
<1>2. \A f \in Frame : f # None
  BY ProcAssumption, Zenon
<1>3. ASSUME NEW f \in Frame PROVE Owned(f)' <=> Owned(f) /\ f # pml4[z]
  <2>1. ASSUME NEW s \in Slot, pml4'[s] = f PROVE Owned(f) /\ f # pml4[z]
    <3>1. s # z /\ pml4[s] = f /\ pml4[s] # None
      BY <1>1, <1>2, <2>1, Zenon
    <3> QED BY <3>1, Zenon DEF Owned, FrameInv
  <2>2. ASSUME NEW q \in Pid, Exec(q)', arg'[q] = f PROVE Owned(f) /\ f # pml4[z]
    BY <2>2, Zenon DEF Owned, FrameInv
  <2>3. Owned(f) /\ f # pml4[z] => Owned(f)'
    BY <1>1, Zenon DEF Owned
  <2> QED BY <2>1, <2>2, <2>3, Zenon DEF Owned
<1>4. \A f \in Frame : f \in used' <=> Owned(f)'
  BY <1>3, Zenon DEF FrameInv
<1>5. ASSUME NEW q \in Pid, Exec(q)'
      PROVE  arg'[q] \in Frame /\ \A s \in Slot : pml4'[s] # arg'[q]
  <2>1. Exec(q) /\ arg'[q] = arg[q]
    BY <1>5, Zenon
  <2>2. arg[q] \in Frame /\ \A s \in Slot : pml4[s] # arg[q]
    BY <2>1, Zenon DEF FrameInv
  <2> QED BY <1>1, <1>2, <2>1, <2>2, Zenon
<1>6. \A s, x \in Slot : pml4'[s] # None /\ pml4'[s] = pml4'[x] => s = x
  BY <1>1 DEF FrameInv
<1>7. \A q, r \in Pid : Exec(q)' /\ Exec(r)' /\ arg'[q] = arg'[r] => q = r
  BY Zenon DEF FrameInv
<1> QED BY <1>4, <1>5, <1>6, <1>7, Zenon DEF FrameInv

-----------------------------------------------------------------------------
(* fork                                                                    *)

\* fork takes a slot and a pid for the child.
LEMMA ForkAlloc ==
  ASSUME ProcInv, NEW p \in Pid, fork_alloc(p)
  PROVE  ProcInv'
<1>1. /\ TypeOK /\ TableInv /\ InitInv /\ SlotInv
      /\ ThreadInv /\ WaitInv /\ MmuInv /\ FrameInv
  BY DEF ProcInv
<1>2. PICK z \in Slot : ~InUse(z) /\ z = Min({x \in Slot : ~InUse(x)})
  <2> DEFINE T == {x \in Slot : ~InUse(x)}
  <2>1. T # {} /\ T \in SUBSET Slot
    BY DEF fork_alloc
  <2>2. Min(T) \in T
    <3> HIDE DEF T
    <3> QED BY <2>1, MinSlot, ProcAssumption, Zenon
  <2> QED BY <2>2, Zenon
<1>3. PICK c \in Pid : c = next_pid
  BY <1>1, ProcAssumption DEF fork_alloc, TypeOK, Pid
<1>4. PICK s \in Slot : Of(s, p) /\ Alive(s)
  BY Current, Zenon DEF fork_alloc
<1>5. /\ cur = p /\ at[p] = "user" /\ p \notin blocked /\ next_pid <= MaxPid
      /\ procs' = [procs EXCEPT ![z] = [pid |-> c, ppid |-> p, state |-> "LIVE"]]
      /\ next_pid' = c + 1 /\ waiter' = [waiter EXCEPT ![z] = None]
      /\ Goto(p, "forking", c) /\ UNCHANGED <<pml4, host, used, mmu, blocked>>
  BY <1>2, <1>3, Current, Zenon DEF fork_alloc, proc_alloc
<1>6. c \in Int /\ next_pid' \in Int /\ next_pid \in Int /\ next_pid' >= next_pid
  BY <1>5, <1>3 DEF Pid
<1>7. at[c] = "none" /\ thread_as[c] = None
  BY <1>1, <1>3, <1>6 DEF ThreadInv, ThreadOK
<1>8. p < c /\ c # p
  BY <1>1, <1>4, <1>3 DEF TableInv, Of, Pid
<1>9. /\ procs'[z] = [pid |-> c, ppid |-> p, state |-> "LIVE"]
      /\ \A x \in Slot : x # z => procs'[x] = procs[x] /\ waiter'[x] = waiter[x]
      /\ waiter'[z] = None
  BY <1>1, <1>2, <1>5, Zenon DEF TypeOK
<1>10. \A q \in Pid : q # p => at'[q] = at[q] /\ arg'[q] = arg[q]
  BY <1>1, <1>5, Zenon DEF Goto, TypeOK
<1>11. at'[p] = "forking" /\ arg'[p] = c
  BY <1>1, <1>5, Zenon DEF Goto, TypeOK
<1>12. /\ \A x \in Slot : x # z => (InUse(x)' <=> InUse(x)) /\ \A q : Of(x, q)' <=> Of(x, q)
       /\ InUse(z)' /\ Of(z, c)' /\ procs'[z].ppid = p /\ procs'[z].state = "LIVE"
  BY <1>9 DEF InUse, Of
<1>13. \A x \in Slot : InUse(x) => procs[x].pid # c /\ x # z
  BY <1>1, <1>2, <1>3 DEF TableInv, Pid
<1>14. \A q : Lives(q) => Lives(q)'
  BY <1>1, <1>5, <1>9, <1>10, <1>11, <1>12, <1>13 DEF Lives, Running, Of, TableInv
<1>15. TableInv'
  <2>1. Lives(p)
    BY <1>4, <1>5, Zenon DEF Lives, Alive, Running
  <2>2. \A x \in Slot : IF InUse(x)' THEN procs'[x].pid \in Pid /\ procs'[x].pid < next_pid'
                        ELSE procs'[x] = Unused
    BY <1>1, <1>5, <1>3, <1>9, <1>12 DEF TableInv, Pid
  <2>3. (\A x, y \in Slot : InUse(x) /\ Of(y, procs[x].pid) => x = y)'
    BY <1>1, <1>9, <1>12, <1>13, Zenon DEF TableInv, Of
  <2>4. (\A x \in Slot : InUse(x) /\ procs[x].pid # INIT =>
          procs[x].ppid < procs[x].pid /\ Lives(procs[x].ppid))'
    <3> SUFFICES ASSUME NEW x \in Slot, InUse(x)', procs'[x].pid # INIT
                 PROVE  procs'[x].ppid < procs'[x].pid /\ Lives(procs[x].ppid)'
      BY Zenon
    <3>1. CASE x = z
      BY <1>8, <1>9, <1>14, <2>1, <3>1
    <3>2. CASE x # z
      BY <1>1, <1>9, <1>12, <1>14, <3>2, Zenon DEF TableInv
    <3> QED BY <3>1, <3>2, Zenon
  <2> QED BY <2>2, <2>3, <2>4, Zenon DEF TableInv
<1>16. InitInv'
  <2>1. Lives(INIT)
    BY <1>1, <1>4, <1>5, Zenon DEF Lives, Alive, Running, InitInv, Of
  <2> QED BY <1>14, <2>1, Zenon DEF InitInv
<1>17. /\ \A x \in Slot \ {z} : Staged(x)'
       /\ \A q \in Pid \ {p, c} : ThreadOK(q)'
  <2>1. at[p] \in Running /\ at'[p] \in Running /\ at[c] \notin Running
    BY <1>5, <1>7, <1>11, Zenon DEF Running
  <2>2. \A x \in Slot \ {z} : ~Of(x, c)
    BY <1>13, Zenon DEF Of
  <2>3. \A x \in Slot \ {z} : InUse(x) /\ procs[x].ppid = p => ~Embryo(x) /\ ~Collected(x)
    BY <1>5, Zenon DEF Embryo, Collected
  <2>4. \A x \in Slot \ {z} : procs'[x] = procs[x] /\ host'[x] = host[x] /\ pml4'[x] = pml4[x]
    BY <1>5, <1>9, Zenon
  <2> QED BY <1>1, <1>2, <1>5, <1>6, <1>10, <2>1, <2>2, <2>3, <2>4, Others, Zenon
      DEF mmu, OneChild, Elsewhere
<1>18. Embryo(z)'
  <2>1. pml4[z] = None
    BY <1>1, <1>2, Zenon DEF SlotInv, Staged
  <2> QED BY <1>5, <1>7, <1>8, <1>3, <1>9, <1>10, <1>11, <2>1 DEF Embryo
<1>19. SlotInv'
  BY <1>12, <1>17, <1>18, Zenon DEF SlotInv, Staged
<1>20. ThreadInv'
  <2>1. ThreadOK(p)'
    <3>1. Child(p, z)' /\ Embryo(z)'
      BY <1>9, <1>11, <1>12, <1>18, Zenon DEF Child
    <3>2. ThreadOK(p) /\ thread_as' = thread_as
      BY <1>1, <1>5, Zenon DEF ThreadInv, mmu
    <3>3. \A x \in Slot : Of(x, p) => Of(x, p)'
      BY <1>2, <1>12, Zenon DEF Of
    <3>4. p < next_pid'
      BY <1>5, <1>3, <1>8 DEF Pid
    <3> QED BY <1>2, <1>5, <1>3, <1>11, <3>1, <3>2, <3>3, <3>4 DEF ThreadOK, Running, Pid
  <2>2. ThreadOK(c)'
    BY <1>5, <1>3, <1>7, <1>8, <1>10, Zenon DEF ThreadOK, Running, mmu
  <2> QED BY <1>17, <2>1, <2>2, Zenon DEF ThreadInv
<1>21. WaitInv'
  <2>1. ASSUME NEW q \in blocked
        PROVE  (/\ at[q] = "wait"
                /\ \E x \in Slot : Of(x, q) /\ waiter[x] = q
                /\ q # INIT => Matching(q, arg[q]) # {} /\ Zombies(q, arg[q]) = {})'
    <3>1. q \in Pid /\ q # p
      BY <1>1, <1>5, Zenon DEF TypeOK
    <3>2. at'[q] = at[q] /\ arg'[q] = arg[q]
      BY <1>10, <3>1, Zenon
    <3>3. (Matching(q, arg[q]))' = Matching(q, arg[q]) /\ (Zombies(q, arg[q]))' = Zombies(q, arg[q])
      BY <1>2, <1>9, <1>12, <3>1, <3>2, SameChildren, Zenon
    <3>4. \E x \in Slot : Of(x, q)' /\ waiter'[x] = q
      <4>1. PICK x \in Slot : Of(x, q) /\ waiter[x] = q
        BY <1>1, Zenon DEF WaitInv
      <4>2. x # z /\ waiter'[x] = waiter[x]
        BY <1>9, <1>13, <4>1, Zenon DEF Of
      <4> QED BY <1>12, <4>1, <4>2, Zenon
    <3> QED BY <1>1, <3>2, <3>3, <3>4, Zenon DEF WaitInv
  <2>2. (\A x \in Slot : waiter[x] # None => Of(x, waiter[x]) /\ waiter[x] \in blocked)'
    BY <1>1, <1>5, <1>9, <1>12 DEF WaitInv, Of
  <2> QED BY <1>5, <2>1, <2>2, Zenon DEF WaitInv
<1>22. MmuInv'
  BY <1>1, <1>5, <1>11, KeepsMmu, Zenon DEF Running
<1>23. FrameInv'
  <2>1. \A q \in Pid : (Exec(q)' <=> Exec(q)) /\ (Exec(q) => arg'[q] = arg[q])
    BY <1>5, <1>10, <1>11, Zenon DEF Exec
  <2> QED BY <1>1, <1>5, <2>1, SameFrames, Zenon
<1>24. TypeOK'
  <2>1. /\ [pid |-> c, ppid |-> p, state |-> "LIVE"] \in
             [pid: 0..MaxPid, ppid: 0..MaxPid, state: {"UNUSED", "LIVE", "ZOMBIE"}]
        /\ next_pid' \in 1..(MaxPid + 1)
    BY <1>5, <1>3, ProcAssumption DEF Pid
  <2>2. /\ procs' \in [Slot -> [pid: 0..MaxPid, ppid: 0..MaxPid, state: {"UNUSED", "LIVE", "ZOMBIE"}]]
        /\ waiter' \in [Slot -> Pid \cup {None}]
    BY <1>1, <1>2, <1>5, <2>1, Zenon DEF TypeOK
  <2>3. at' \in [Pid -> Place] /\ arg' \in [Pid -> Int \cup Frame \cup {None}]
    BY <1>1, <1>5, <1>6, Zenon DEF TypeOK, Goto, Place
  <2> QED BY <1>1, <1>5, <2>1, <2>2, <2>3, Zenon DEF TypeOK, mmu
<1> QED BY <1>15, <1>16, <1>19, <1>20, <1>21, <1>22, <1>23, <1>24, Zenon DEF ProcInv

\* p, which has the CPU, works on its child c in slot z.
Busy == {"forking", "cloned", "found", "joined", "destroyed"}

Work(p, z, c) ==
  /\ c = arg[p] /\ slot(c) = z /\ InUse(z) /\ procs[z].pid = c /\ procs[z].ppid = p
  /\ c # p /\ p \notin blocked /\ c \notin blocked /\ waiter[z] = None
  /\ at[p] \in Running /\ at[c] \notin Running
  /\ \A x \in Slot \ {z} : ~Of(x, c)
  /\ \A x \in Slot \ {z} : InUse(x) /\ procs[x].ppid = p => ~Embryo(x) /\ ~Collected(x)
  /\ \E s \in Slot : s # z /\ active_as = s

\* The child is in one slot, its thread cannot run, and nobody else works on it.
LEMMA Works ==
  ASSUME ProcInv, NEW p \in Pid, cur = p, at[p] \in Busy
  PROVE  \E z \in Slot, c \in Pid :
           /\ Work(p, z, c)
           /\ at[p] \in {"forking", "cloned"} => Embryo(z)
           /\ at[p] = "found" => Dead(z)
           /\ at[p] \in {"joined", "destroyed"} => Collected(z)
<1>1. /\ TypeOK /\ TableInv /\ InitInv /\ SlotInv
      /\ ThreadInv /\ WaitInv /\ MmuInv /\ FrameInv
  BY Zenon DEF ProcInv
<1>2. PICK z \in Slot :
           /\ Child(p, z) /\ slot(arg[p]) = z /\ arg[p] \in Pid /\ arg[p] # p
           /\ at[p] \in {"forking", "cloned"} => Embryo(z)
           /\ at[p] = "found" => Dead(z)
           /\ at[p] \in {"joined", "destroyed"} => Collected(z)
  BY ChildOf, Zenon DEF Busy
<1>3. PICK c \in Pid : c = arg[p]
  BY <1>2, Zenon
<1>4. InUse(z) /\ procs[z].pid = c /\ procs[z].ppid = p
  BY <1>2, <1>3, Zenon DEF Child, Of
<1>5. at[c] \notin Running
  BY <1>2, <1>4, Zenon DEF Embryo, Dead, Collected, Running, Busy
<1>6. c \notin blocked /\ waiter[z] = None
  BY <1>1, <1>4, <1>5, Zenon DEF WaitInv, Running, Of
<1>7. PICK s \in Slot : Of(s, p) /\ active_as = s
  BY Current, Zenon DEF Busy
<1>8. s # z
  BY <1>2, <1>3, <1>4, <1>7, Zenon DEF Of
<1>9. \A x \in Slot \ {z} : ~Of(x, c)
  BY <1>1, <1>4, Zenon DEF TableInv, Of
<1>10. \A x \in Slot \ {z} : InUse(x) /\ procs[x].ppid = p => ~Embryo(x) /\ ~Collected(x)
  BY <1>3, <1>9, Zenon DEF Embryo, Collected, Of
<1>11. at[p] \in Running /\ p \notin blocked
  BY Current, Zenon
<1>12. Work(p, z, c)
  BY <1>2, <1>3, <1>4, <1>5, <1>6, <1>7, <1>8, <1>9, <1>10, <1>11, Zenon DEF Work
<1> QED BY <1>2, <1>12, Zenon

\* A step of p on its child that leaves the table as it is.
LEMMA ChildStep ==
  ASSUME ProcInv, NEW p \in Pid, cur = p, NEW z \in Slot, NEW c \in Pid, Work(p, z, c),
         UNCHANGED <<table, waiter, mmu, blocked>>, at'[p] \in Running,
         \A q \in Pid \ {p, c} : at'[q] = at[q] /\ arg'[q] = arg[q],
         \A x \in Slot \ {z} : host'[x] = host[x] /\ pml4'[x] = pml4[x],
         (Embryo(z) \/ Alive(z) \/ Dead(z) \/ Collected(z))',
         ThreadOK(p)', ThreadOK(c)'
  PROVE  TableInv' /\ InitInv' /\ SlotInv' /\ ThreadInv' /\ WaitInv' /\ MmuInv'
<1>1. /\ TypeOK /\ TableInv /\ InitInv /\ SlotInv
      /\ ThreadInv /\ WaitInv /\ MmuInv /\ FrameInv
  BY Zenon DEF ProcInv
<1>2. TableInv' /\ InitInv'
  BY <1>1, LivesOn, Zenon DEF Work
<1>3. procs' = procs /\ next_pid' = next_pid /\ thread_as' = thread_as
  BY Zenon DEF table, mmu
<1>4. /\ \A x \in Slot \ {z} : Staged(x)'
      /\ \A q \in Pid \ {p, c} : ThreadOK(q)'
  <2>1. next_pid' \in Int /\ next_pid \in Int /\ next_pid' >= next_pid
    BY <1>1, <1>3 DEF TypeOK
  <2>2. \A x \in Slot \ {z} : procs'[x] = procs[x] /\ host'[x] = host[x] /\ pml4'[x] = pml4[x]
    BY <1>3, Zenon
  <2>3. /\ at[p] \in Running /\ at[c] \notin Running
        /\ InUse(z) => procs[z].pid = c /\ procs[z].ppid = p
        /\ \A x \in Slot \ {z} : ~Of(x, c)
        /\ \A x \in Slot \ {z} : InUse(x) /\ procs[x].ppid = p => ~Embryo(x) /\ ~Collected(x)
    BY Zenon DEF Work
  <2>4. \A q \in Pid \ {p, c} : thread_as'[q] = thread_as[q]
    BY <1>3, Zenon
  <2> QED BY <1>1, <2>1, <2>2, <2>3, <2>4, Others, Zenon DEF OneChild, Elsewhere
<1>5. SlotInv'
  BY <1>3, <1>4, Zenon DEF SlotInv, Staged, Work, InUse
<1>6. ThreadInv'
  BY <1>4, Zenon DEF ThreadInv
<1>7. WaitInv'
  <2>1. \A q \in blocked : at'[q] = at[q] /\ arg'[q] = arg[q]
    BY <1>1 DEF Work, TypeOK
  <2> QED BY <1>1, <2>1, KeepsWaiters, Zenon
<1>8. MmuInv'
  BY <1>1, KeepsMmu, Zenon DEF Work
<1> QED BY <1>2, <1>5, <1>6, <1>7, <1>8, Zenon

\* fork gives the child an address space.
LEMMA ForkClone ==
  ASSUME ProcInv, NEW p \in Pid, fork_clone(p)
  PROVE  ProcInv'
<1>1. /\ TypeOK /\ TableInv /\ InitInv /\ SlotInv
      /\ ThreadInv /\ WaitInv /\ MmuInv /\ FrameInv
  BY DEF ProcInv
<1>2. PICK z \in Slot, c \in Pid : Work(p, z, c) /\ Embryo(z)
  BY Works, Zenon DEF fork_clone, Busy
<1>3. PICK f \in Frame : f \notin used /\ used' = used \cup {f} /\ pml4' = [pml4 EXCEPT ![z] = f]
  BY <1>2, Zenon DEF fork_clone, paging_addrspace_create, Work
<1>4. /\ cur = p /\ at[p] = "forking" /\ Goto(p, "cloned", c)
      /\ UNCHANGED <<table, host, waiter, mmu, blocked>>
  BY <1>2, Zenon DEF fork_clone, Work
<1>5. \A q \in Pid : (q # p => at'[q] = at[q]) /\ arg'[q] = arg[q]
  BY <1>1, <1>2, <1>4, Zenon DEF Goto, TypeOK, Work
<1>6. at'[p] = "cloned"
  BY <1>1, <1>4, Zenon DEF Goto, TypeOK
<1>7. /\ pml4'[z] = f /\ f # None /\ pml4[z] = None
      /\ \A x \in Slot : x # z => pml4'[x] = pml4[x]
  BY <1>1, <1>2, <1>3, <1>4, ProcAssumption, Zenon DEF TypeOK, Embryo, Work
<1>8. Embryo(z)'
  BY <1>2, <1>4, <1>5, <1>6, <1>7, Zenon DEF Embryo, Work, table
<1>9. ThreadOK(p)'
  <2>1. Child(p, z)'
    BY <1>2, <1>4, <1>5, Zenon DEF Child, Of, InUse, Work, table
  <2>2. \A x \in Slot : Of(x, p) => Of(x, p)'
    BY <1>4, Zenon DEF Of, InUse, table
  <2>3. next_pid' = next_pid /\ thread_as' = thread_as
    BY <1>4, Zenon DEF table, mmu
  <2>4. ThreadOK(p)
    BY <1>1, Zenon DEF ThreadInv
  <2> QED BY <1>4, <1>6, <1>8, <2>1, <2>2, <2>3, <2>4, Zenon DEF ThreadOK, Running
<1>10. ThreadOK(c)'
  <2>1. at[c] = "none" /\ at'[c] = "none"
    BY <1>2, <1>5, Zenon DEF Embryo, Work
  <2>2. ThreadOK(c) /\ thread_as' = thread_as
    BY <1>1, <1>4 DEF ThreadInv, mmu
  <2> QED BY <2>1, <2>2, Zenon DEF ThreadOK, Running
<1>11. TableInv' /\ InitInv' /\ SlotInv' /\ ThreadInv' /\ WaitInv' /\ MmuInv'
  <2>1. at'[p] \in Running
    BY <1>6 DEF Running
  <2>2. \A x \in Slot \ {z} : host'[x] = host[x] /\ pml4'[x] = pml4[x]
    BY <1>4, <1>7, Zenon
  <2>3. \A q \in Pid \ {p, c} : at'[q] = at[q] /\ arg'[q] = arg[q]
    BY <1>5, Zenon
  <2> QED BY <1>2, <1>4, <1>8, <1>9, <1>10, <2>1, <2>2, <2>3, ChildStep, Zenon
<1>12. FrameInv'
  <2>1. \A q \in Pid : (Exec(q)' <=> Exec(q)) /\ arg'[q] = arg[q]
    BY <1>4, <1>5, <1>6, Zenon DEF Exec
  <2>2. ~Owned(f)
    BY <1>1, <1>3, Zenon DEF FrameInv
  <2>3. \A x, y \in Slot : pml4'[x] # None /\ pml4'[x] = pml4'[y] => x = y
    <3>1. \A x \in Slot : pml4[x] # f
      BY <2>2, Zenon DEF Owned
    <3>2. \A x, y \in Slot : pml4[x] # None /\ pml4[x] = pml4[y] => x = y
      BY <1>1, Zenon DEF FrameInv
    <3> QED BY <1>7, <3>1, <3>2, Zenon
  <2>4. ASSUME NEW q \in Pid, Exec(q)
        PROVE  arg[q] \in Frame /\ \A x \in Slot : pml4'[x] # arg[q]
    BY <1>1, <1>7, <2>2, <2>4 DEF FrameInv, Owned
  <2>5. ASSUME NEW g \in Frame PROVE Owned(g)' <=> Owned(g) \/ g = f
    <3>1. Owned(g)' => Owned(g) \/ g = f
      BY <1>7, <2>1, Zenon DEF Owned
    <3>2. Owned(g) => Owned(g)'
      <4>1. \A x \in Slot : pml4[x] = g => pml4'[x] = g
        BY <1>7, ProcAssumption, Zenon
      <4> QED BY <2>1, <4>1, Zenon DEF Owned
    <3>3. Owned(f)'
      BY <1>7, Zenon DEF Owned
    <3> QED BY <3>1, <3>2, <3>3, Zenon
  <2>6. \A g \in Frame : g \in used' <=> Owned(g)'
    BY <1>1, <1>3, <2>5, Zenon DEF FrameInv
  <2> QED BY <1>1, <2>1, <2>3, <2>4, <2>6, Zenon DEF FrameInv
<1>13. TypeOK'
  <2>1. c \in Int
    BY DEF Pid
  <2> QED BY <1>1, <1>3, <1>4, <2>1, Zenon DEF TypeOK, Goto, table, mmu, Place
<1> QED BY <1>11, <1>12, <1>13, Zenon DEF ProcInv

\* fork starts the child's thread.
LEMMA ForkLaunch ==
  ASSUME ProcInv, NEW p \in Pid, fork_launch(p)
  PROVE  ProcInv'
<1>1. /\ TypeOK /\ TableInv /\ InitInv /\ SlotInv
      /\ ThreadInv /\ WaitInv /\ MmuInv /\ FrameInv
  BY DEF ProcInv
<1>2. PICK z \in Slot, c \in Pid : Work(p, z, c) /\ Embryo(z)
  BY Works, Zenon DEF fork_launch, Busy
<1>3. /\ cur = p /\ at[p] = "cloned" /\ host' = [host EXCEPT ![z] = c]
      /\ at' = [at EXCEPT ![p] = "user", ![c] = "new"] /\ arg' = [arg EXCEPT ![p] = None]
      /\ UNCHANGED <<table, pml4, waiter, used, mmu, blocked>>
  BY <1>2, Zenon DEF fork_launch, Work
<1>4. c # p /\ at[c] = "none" /\ pml4[z] # None
  BY <1>2, <1>3, Zenon DEF Work, Embryo
<1>5. \A q \in Pid \ {p, c} : at'[q] = at[q] /\ arg'[q] = arg[q]
  BY <1>1, <1>3, Zenon DEF TypeOK
<1>6. at'[p] = "user" /\ at'[c] = "new" /\ arg'[c] = arg[c]
  BY <1>1, <1>3, <1>4, Zenon DEF TypeOK
<1>7. host'[z] = c /\ \A x \in Slot : x # z => host'[x] = host[x]
  BY <1>1, <1>3, Zenon DEF TypeOK
<1>8. Alive(z)'
  BY <1>2, <1>3, <1>4, <1>6, <1>7, Zenon DEF Alive, Embryo, Work, table, Running
<1>9. procs' = procs /\ next_pid' = next_pid /\ thread_as' = thread_as
  BY <1>3, Zenon DEF table, mmu
<1>10. \A x \in Slot, q \in Pid : Of(x, q) => Of(x, q)'
  BY <1>9, Zenon DEF Of, InUse
<1>11. ThreadOK(p)'
  <2>1. ThreadOK(p)
    BY <1>1, Zenon DEF ThreadInv
  <2> QED BY <1>3, <1>6, <1>9, <1>10, <2>1, Zenon DEF ThreadOK, Running
<1>12. ThreadOK(c)'
  <2>1. Of(z, c)
    BY <1>2, Zenon DEF Of, Work
  <2>2. ThreadOK(c)
    BY <1>1, Zenon DEF ThreadInv
  <2>3. c < next_pid
    BY <1>1, <2>1, Zenon DEF TableInv, Of
  <2>4. ~(c >= next_pid)
    BY <1>1, <2>3 DEF TypeOK, Pid
  <2> QED BY <1>4, <1>6, <1>9, <1>10, <2>1, <2>2, <2>4, Zenon DEF ThreadOK, Running
<1>13. TableInv' /\ InitInv' /\ SlotInv' /\ ThreadInv' /\ WaitInv' /\ MmuInv'
  <2>1. at'[p] \in Running
    BY <1>6, Zenon DEF Running
  <2>2. \A x \in Slot \ {z} : host'[x] = host[x] /\ pml4'[x] = pml4[x]
    BY <1>3, <1>7, Zenon
  <2> QED BY <1>2, <1>3, <1>5, <1>8, <1>11, <1>12, <2>1, <2>2, ChildStep, Zenon
<1>14. FrameInv'
  <2>1. \A q \in Pid : (Exec(q)' <=> Exec(q)) /\ (Exec(q) => arg'[q] = arg[q])
    BY <1>3, <1>4, <1>5, <1>6, Zenon DEF Exec
  <2> QED BY <1>1, <1>3, <2>1, SameFrames, Zenon
<1>15. TypeOK'
  BY <1>1, <1>3, Zenon DEF TypeOK, table, mmu, Place
<1> QED BY <1>13, <1>14, <1>15, Zenon DEF ProcInv

-----------------------------------------------------------------------------
(* Collecting a child                                                      *)

\* wait4 frees the thread of the zombie it has found.
LEMMA Wait4Join ==
  ASSUME ProcInv, NEW p \in Pid, wait4_join(p)
  PROVE  ProcInv'
<1>1. /\ TypeOK /\ TableInv /\ InitInv /\ SlotInv
      /\ ThreadInv /\ WaitInv /\ MmuInv /\ FrameInv
  BY DEF ProcInv
<1>2. PICK z \in Slot, c \in Pid : Work(p, z, c) /\ Dead(z)
  BY Works, Zenon DEF wait4_join, Busy
<1>3. host[z] = c /\ at[c] = "zombie" /\ c # p /\ pml4[z] # None
  BY <1>2, Zenon DEF Dead, Work
<1>4. /\ cur = p /\ at[p] = "found" /\ at' = [at EXCEPT ![c] = "freed", ![p] = "joined"]
      /\ UNCHANGED <<table, pstate, used, mmu, blocked, arg>>
  BY <1>2, <1>3, Zenon DEF wait4_join, Work
<1>5. \A q \in Pid \ {p, c} : at'[q] = at[q] /\ arg'[q] = arg[q]
  BY <1>1, <1>4, Zenon DEF TypeOK
<1>6. at'[p] = "joined" /\ at'[c] = "freed"
  BY <1>1, <1>3, <1>4, Zenon DEF TypeOK
<1>7. procs' = procs /\ next_pid' = next_pid /\ thread_as' = thread_as /\ pml4' = pml4
  BY <1>4, Zenon DEF table, mmu, pstate
<1>8. Collected(z)'
  BY <1>2, <1>3, <1>4, <1>6, <1>7, Zenon DEF Collected, Dead, Work
<1>9. \A x \in Slot, q \in Pid : Of(x, q) => Of(x, q)'
  BY <1>7, Zenon DEF Of, InUse
<1>10. ThreadOK(p)'
  <2>1. ThreadOK(p)
    BY <1>1 DEF ThreadInv
  <2>2. Child(p, z)'
    BY <1>2, <1>4, <1>7, Zenon DEF Child, Of, InUse, Work
  <2> QED BY <1>4, <1>6, <1>7, <1>8, <1>9, <2>1, <2>2, Zenon DEF ThreadOK, Running
<1>11. ThreadOK(c)'
  <2>1. ThreadOK(c)
    BY <1>1 DEF ThreadInv
  <2> QED BY <1>3, <1>6, <1>7, <2>1, Zenon DEF ThreadOK, Running
<1>12. TableInv' /\ InitInv' /\ SlotInv' /\ ThreadInv' /\ WaitInv' /\ MmuInv'
  <2>1. at'[p] \in Running
    BY <1>6, Zenon DEF Running
  <2>2. (\A x \in Slot \ {z} : host'[x] = host[x] /\ pml4'[x] = pml4[x]) /\ waiter' = waiter
    BY <1>4, Zenon DEF pstate
  <2> QED BY <1>2, <1>4, <1>5, <1>8, <1>10, <1>11, <2>1, <2>2, ChildStep, Zenon
<1>13. FrameInv'
  <2>1. \A q \in Pid : (Exec(q)' <=> Exec(q)) /\ (Exec(q) => arg'[q] = arg[q])
    BY <1>3, <1>4, <1>5, <1>6, Zenon DEF Exec
  <2> QED BY <1>1, <1>4, <1>7, <2>1, SameFrames, Zenon
<1>14. TypeOK'
  BY <1>1, <1>4, Zenon DEF TypeOK, table, mmu, pstate, Place
<1> QED BY <1>12, <1>13, <1>14 DEF ProcInv

\* wait4 frees the zombie's address space.
LEMMA Wait4Destroy ==
  ASSUME ProcInv, NEW p \in Pid, wait4_destroy(p)
  PROVE  ProcInv'
<1>1. /\ TypeOK /\ TableInv /\ InitInv /\ SlotInv
      /\ ThreadInv /\ WaitInv /\ MmuInv /\ FrameInv
  BY DEF ProcInv
<1>2. PICK z \in Slot, c \in Pid : Work(p, z, c) /\ Collected(z)
  BY Works, Zenon DEF wait4_destroy, Busy
<1>3. /\ cur = p /\ at[p] = "joined" /\ Goto(p, "destroyed", c)
      /\ used' = used \ {pml4[z]} /\ pml4' = [pml4 EXCEPT ![z] = None]
      /\ UNCHANGED <<table, host, waiter, mmu, blocked>>
  BY <1>2, Zenon DEF wait4_destroy, Work
<1>4. c # p /\ at[c] = "freed"
  BY <1>2, Zenon DEF Work, Collected
<1>5. \A q \in Pid : (q # p => at'[q] = at[q]) /\ arg'[q] = arg[q]
  BY <1>1, <1>2, <1>3, Zenon DEF Goto, TypeOK, Work
<1>6. at'[p] = "destroyed"
  BY <1>1, <1>3, Zenon DEF Goto, TypeOK
<1>7. \A x \in Slot : pml4'[x] = IF x = z THEN None ELSE pml4[x]
  BY <1>1, <1>3, Zenon DEF TypeOK
<1>8. procs' = procs /\ next_pid' = next_pid /\ thread_as' = thread_as
  BY <1>3, Zenon DEF table, mmu
<1>9. Collected(z)'
  BY <1>2, <1>4, <1>5, <1>6, <1>7, <1>8, Zenon DEF Collected, Work
<1>10. ThreadOK(p)'
  <2>1. Child(p, z)'
    BY <1>2, <1>5, <1>8, Zenon DEF Child, Of, InUse, Work
  <2>2. \A x \in Slot : Of(x, p) => Of(x, p)'
    BY <1>8, Zenon DEF Of, InUse
  <2>3. ThreadOK(p)
    BY <1>1 DEF ThreadInv
  <2> QED BY <1>3, <1>6, <1>8, <1>9, <2>1, <2>2, <2>3, Zenon DEF ThreadOK, Running
<1>11. ThreadOK(c)'
  <2>1. ThreadOK(c)
    BY <1>1 DEF ThreadInv
  <2> QED BY <1>4, <1>5, <1>8, <2>1, Zenon DEF ThreadOK, Running
<1>12. TableInv' /\ InitInv' /\ SlotInv' /\ ThreadInv' /\ WaitInv' /\ MmuInv'
  <2>1. at'[p] \in Running
    BY <1>6 DEF Running
  <2>2. \A x \in Slot \ {z} : host'[x] = host[x] /\ pml4'[x] = pml4[x]
    BY <1>3, <1>7, Zenon
  <2>3. \A q \in Pid \ {p, c} : at'[q] = at[q] /\ arg'[q] = arg[q]
    BY <1>5, Zenon
  <2> QED BY <1>2, <1>3, <1>9, <1>10, <1>11, <2>1, <2>2, <2>3, ChildStep, Zenon
<1>13. FrameInv'
  <2>1. \A q \in Pid : (Exec(q)' <=> Exec(q)) /\ (Exec(q) => arg'[q] = arg[q])
    BY <1>3, <1>5, <1>6, Zenon DEF Exec
  <2> QED BY <1>1, <1>3, <1>7, <2>1, FreesFrame, Zenon
<1>14. TypeOK'
  <2>1. c \in Int
    BY DEF Pid
  <2> QED BY <1>1, <1>3, <2>1, Zenon DEF TypeOK, Goto, table, mmu, Place
<1> QED BY <1>12, <1>13, <1>14 DEF ProcInv

\* The slot of a child that never ran, or that has been collected, is given
\* back with no address space in it.
LEMMA Reaps ==
  ASSUME ProcInv, NEW p \in Pid, cur = p, NEW z \in Slot, NEW c \in Pid, Work(p, z, c),
         Embryo(z) \/ Collected(z),
         procs' = [procs EXCEPT ![z] = Unused], Goto(p, "user", None),
         UNCHANGED <<next_pid, host, waiter, mmu, blocked>>,
         \A x \in Slot : pml4'[x] = IF x = z THEN None ELSE pml4[x]
  PROVE  TableInv' /\ InitInv' /\ SlotInv' /\ ThreadInv' /\ WaitInv' /\ MmuInv'
<1>1. /\ TypeOK /\ TableInv /\ InitInv /\ SlotInv
      /\ ThreadInv /\ WaitInv /\ MmuInv /\ FrameInv
  BY Zenon DEF ProcInv
<1>2. /\ procs'[z] = Unused /\ ~InUse(z)' /\ InUse(z) /\ \A q \in Pid : ~Of(z, q)'
      /\ \A x \in Slot : x # z => procs'[x] = procs[x] /\ (InUse(x)' <=> InUse(x))
                                  /\ \A q : Of(x, q)' <=> Of(x, q)
  BY <1>1, Zenon DEF TypeOK, Unused, InUse, Of, Work
<1>3. \A q \in Pid : q # p => at'[q] = at[q] /\ arg'[q] = arg[q]
  BY <1>1, Zenon DEF Goto, TypeOK
<1>4. at'[p] = "user"
  BY <1>1, Zenon DEF Goto, TypeOK
<1>5. c # p /\ at[c] \in {"none", "freed"} /\ procs[z].pid = c /\ procs[z].ppid = p
  BY Zenon DEF Work, Embryo, Collected
<1>6. \A q : Lives(q) => Lives(q)'
  <2> SUFFICES ASSUME NEW q, Lives(q) PROVE Lives(q)'
    BY Zenon
  <2>1. q # c
    BY <1>5, Zenon DEF Lives, Running
  <2>2. PICK x \in Slot : Of(x, q) /\ procs[x].state = "LIVE"
    BY Zenon DEF Lives
  <2>3. q \in Pid /\ x # z
    BY <1>1, <1>5, <2>1, <2>2, Zenon DEF TableInv, Of
  <2>4. at'[q] \in Running
    BY <1>3, <1>4, <2>3, Zenon DEF Lives, Running
  <2> QED BY <1>2, <2>2, <2>3, <2>4, Zenon DEF Lives
<1>7. TableInv'
  <2>1. \A x \in Slot : IF InUse(x)' THEN procs'[x].pid \in Pid /\ procs'[x].pid < next_pid'
                        ELSE procs'[x] = Unused
    BY <1>1, <1>2, Zenon DEF TableInv
  <2>2. (\A x, y \in Slot : InUse(x) /\ Of(y, procs[x].pid) => x = y)'
    BY <1>1, <1>2, Zenon DEF TableInv, Of
  <2>3. (\A x \in Slot : InUse(x) /\ procs[x].pid # INIT =>
          procs[x].ppid < procs[x].pid /\ Lives(procs[x].ppid))'
    BY <1>1, <1>2, <1>6, Zenon DEF TableInv
  <2> QED BY <2>1, <2>2, <2>3, Zenon DEF TableInv
<1>8. InitInv'
  BY <1>1, <1>2, <1>6, Zenon DEF InitInv
<1>9. /\ \A x \in Slot \ {z} : Staged(x)'
      /\ \A q \in Pid \ {p, c} : ThreadOK(q)'
  <2>1. next_pid' \in Int /\ next_pid \in Int /\ next_pid' >= next_pid
    BY <1>1 DEF TypeOK
  <2>2. \A x \in Slot \ {z} : procs'[x] = procs[x] /\ host'[x] = host[x] /\ pml4'[x] = pml4[x]
    BY <1>2, Zenon
  <2>3. /\ at[p] \in Running /\ at[c] \notin Running /\ at'[p] \in Running
        /\ InUse(z) => procs[z].pid = c /\ procs[z].ppid = p
        /\ \A x \in Slot \ {z} : ~Of(x, c)
        /\ \A x \in Slot \ {z} : InUse(x) /\ procs[x].ppid = p => ~Embryo(x) /\ ~Collected(x)
    BY <1>4, Zenon DEF Work, Running
  <2>4. \A q \in Pid \ {p, c} : thread_as'[q] = thread_as[q] /\ at'[q] = at[q] /\ arg'[q] = arg[q]
    BY <1>3, Zenon DEF mmu
  <2> QED BY <1>1, <2>1, <2>2, <2>3, <2>4, Others, Zenon DEF OneChild, Elsewhere
<1>10. SlotInv'
  BY <1>2, <1>9, Zenon DEF SlotInv, Staged
<1>11. ThreadInv'
  <2>1. thread_as' = thread_as /\ next_pid' = next_pid /\ ThreadOK(p) /\ ThreadOK(c)
    BY <1>1, Zenon DEF mmu, ThreadInv
  <2>2. \A x \in Slot : Of(x, p) => Of(x, p)'
    BY <1>2, <1>5, Zenon DEF Of
  <2>3. at[p] \in Running \ {"new"}
    BY <1>5, Zenon DEF Embryo, Collected, Running
  <2>4. ThreadOK(p)'
    BY <1>4, <2>1, <2>2, <2>3, Zenon DEF ThreadOK, Running
  <2>5. ThreadOK(c)'
    BY <1>3, <1>5, <2>1, Zenon DEF ThreadOK, Running
  <2> QED BY <1>9, <2>4, <2>5, Zenon DEF ThreadInv
<1>12. WaitInv'
  <2>1. ASSUME NEW q \in blocked
        PROVE  (/\ at[q] = "wait"
                /\ \E x \in Slot : Of(x, q) /\ waiter[x] = q
                /\ q # INIT => Matching(q, arg[q]) # {} /\ Zombies(q, arg[q]) = {})'
    <3>1. q \in Pid /\ q # p /\ q # c
      BY <1>1, Zenon DEF TypeOK, Work
    <3>2. at'[q] = at[q] /\ arg'[q] = arg[q]
      BY <1>3, <3>1, Zenon
    <3>3. (Matching(q, arg[q]))' = Matching(q, arg[q]) /\ (Zombies(q, arg[q]))' = Zombies(q, arg[q])
      BY <1>2, <1>5, <3>1, <3>2, SameChildren, Zenon
    <3>4. \E x \in Slot : Of(x, q)' /\ waiter'[x] = q
      <4>1. PICK x \in Slot : Of(x, q) /\ waiter[x] = q
        BY <1>1, Zenon DEF WaitInv
      <4>2. x # z
        BY <1>5, <3>1, <4>1, Zenon DEF Of
      <4> QED BY <1>2, <4>1, <4>2, Zenon
    <3> QED BY <1>1, <3>2, <3>3, <3>4, Zenon DEF WaitInv
  <2>2. (\A x \in Slot : waiter[x] # None => Of(x, waiter[x]) /\ waiter[x] \in blocked)'
    BY <1>1, <1>2, Zenon DEF WaitInv, Of, Work
  <2> QED BY <2>1, <2>2, Zenon DEF WaitInv
<1>13. MmuInv'
  BY <1>1, <1>4, KeepsMmu, Zenon DEF Running, Work
<1> QED BY <1>7, <1>8, <1>10, <1>11, <1>12, <1>13, Zenon

\* fork gives up and takes the child out of the table.
LEMMA ForkFail ==
  ASSUME ProcInv, NEW p \in Pid, fork_fail(p)
  PROVE  ProcInv'
<1>1. TypeOK /\ FrameInv
  BY DEF ProcInv
<1>2. PICK z \in Slot, c \in Pid : Work(p, z, c) /\ Embryo(z)
  BY Works, Zenon DEF fork_fail, Busy
<1>3. /\ cur = p /\ at[p] \in {"forking", "cloned"} /\ Goto(p, "user", None)
      /\ used' = used \ {pml4[z]} /\ pml4' = [pml4 EXCEPT ![z] = None]
      /\ procs' = [procs EXCEPT ![z] = Unused]
      /\ UNCHANGED <<next_pid, host, waiter, mmu, blocked>>
  BY <1>2, Zenon DEF fork_fail, proc_reap, Work
<1>4. \A x \in Slot : pml4'[x] = IF x = z THEN None ELSE pml4[x]
  BY <1>1, <1>3, Zenon DEF TypeOK
<1>5. TableInv' /\ InitInv' /\ SlotInv' /\ ThreadInv' /\ WaitInv' /\ MmuInv'
  BY <1>2, <1>3, <1>4, Reaps, Zenon
<1>6. FrameInv'
  <2>1. \A q \in Pid : (Exec(q)' <=> Exec(q)) /\ (Exec(q) => arg'[q] = arg[q])
    BY <1>1, <1>3, Zenon DEF Exec, Goto, TypeOK
  <2> QED BY <1>1, <1>3, <1>4, <2>1, FreesFrame, Zenon
<1>7. TypeOK'
  <2>1. Unused \in [pid: 0..MaxPid, ppid: 0..MaxPid, state: {"UNUSED", "LIVE", "ZOMBIE"}]
    BY ProcAssumption DEF Unused
  <2> QED BY <1>1, <1>3, <2>1, Zenon DEF TypeOK, Goto, mmu, Place
<1> QED BY <1>5, <1>6, <1>7 DEF ProcInv

\* wait4 takes the zombie out of the table.
LEMMA Wait4Reap ==
  ASSUME ProcInv, NEW p \in Pid, wait4_reap(p)
  PROVE  ProcInv'
<1>1. TypeOK /\ FrameInv
  BY DEF ProcInv
<1>2. PICK z \in Slot, c \in Pid : Work(p, z, c) /\ Collected(z)
  BY Works, Zenon DEF wait4_reap, Busy
<1>3. /\ cur = p /\ at[p] = "destroyed" /\ Goto(p, "user", None)
      /\ procs' = [procs EXCEPT ![z] = Unused]
      /\ UNCHANGED <<next_pid, pstate, used, mmu, blocked>>
  BY <1>2, Zenon DEF wait4_reap, proc_reap, Work
<1>4. \A x \in Slot : pml4'[x] = IF x = z THEN None ELSE pml4[x]
  BY <1>2, <1>3, Zenon DEF pstate, Collected, Work
<1>5. TableInv' /\ InitInv' /\ SlotInv' /\ ThreadInv' /\ WaitInv' /\ MmuInv'
  BY <1>2, <1>3, <1>4, Reaps, Zenon DEF pstate
<1>6. FrameInv'
  <2>1. \A q \in Pid : (Exec(q)' <=> Exec(q)) /\ (Exec(q) => arg'[q] = arg[q])
    BY <1>1, <1>3, Zenon DEF Exec, Goto, TypeOK
  <2> QED BY <1>1, <1>3, <2>1, SameFrames, Zenon DEF pstate
<1>7. TypeOK'
  <2>1. Unused \in [pid: 0..MaxPid, ppid: 0..MaxPid, state: {"UNUSED", "LIVE", "ZOMBIE"}]
    BY ProcAssumption DEF Unused
  <2> QED BY <1>1, <1>3, <2>1, Zenon DEF TypeOK, Goto, mmu, Place, pstate
<1> QED BY <1>5, <1>6, <1>7 DEF ProcInv

=============================================================================
