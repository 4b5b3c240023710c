------------------------------ MODULE Process ------------------------------
(***************************************************************************)
(* The process model: the table of kernel/proc/proc_core.c, fork, execve,  *)
(* wait4 and exit of kernel/proc/process.c, and the address-space switch   *)
(* of schedule() and sched_set_addrspace() in kernel/sched/sched.c.        *)
(*                                                                         *)
(* Every process has one thread, known by its pid.  An action is what the  *)
(* running thread does up to the next point where it can lose the CPU:     *)
(* one interrupts-off section, or a stretch of code that touches only what *)
(* no other thread can see.  at[p] is how far p has come in its system     *)
(* call, arg[p] the local variable that it needs later.                    *)
(*                                                                         *)
(* An address space is the frame of its PML4; creating one can fail for    *)
(* want of memory at any time.  Exit statuses and open files are left out  *)
(* (see Pipe for the references that fork and exit take and drop).         *)
(***************************************************************************)
EXTENDS Integers, FiniteSets, FiniteSetsExt

CONSTANTS PROC_MAX,  \* table slots
          MaxPid,    \* bound on the pids handed out
          Frame,     \* frames that can hold a PML4
          KernelAs,  \* the kernel's address space, and its PML4
          None       \* NULL, no frame, no local variable

INIT == 1
Slot == 1..PROC_MAX
Pid == 1..MaxPid
Kernel == 0          \* the idle thread and every other thread without a process

ASSUME ProcAssumption ==
  /\ PROC_MAX \in Nat \ {0} /\ MaxPid \in Nat \ {0} /\ IsFiniteSet(Frame)
  /\ KernelAs \notin Frame \cup Slot /\ None \notin Frame \cup {KernelAs} \cup Int

VARIABLES procs,      \* ptable.procs
          next_pid,   \* ptable.next_pid
          pml4,       \* pstate[s].as.pml4_phys
          host,       \* pstate[s].host
          waiter,     \* pstate[s].waiter
          used,       \* PML4 frames that are allocated
          cur,        \* the thread on the CPU: a pid or Kernel
          thread_as,  \* thread->as, a pointer to a slot's as
          active_as,  \* what schedule() believes CR3 holds, as a pointer
          cr3,        \* the frame CR3 holds
          blocked,    \* threads in sched_block
          at,         \* where a thread is
          arg         \* its local variable

table == <<procs, next_pid>>
pstate == <<pml4, host, waiter>>
mmu == <<cur, thread_as, active_as, cr3>>
vars == <<table, pstate, used, mmu, blocked, at, arg>>

Unused == [pid |-> 0, ppid |-> 0, state |-> "UNUSED"]

Place == {"none", "new", "user", "forking", "cloned", "built", "committed",
          "wait", "found", "joined", "destroyed", "zombie", "freed"}

\* Every variable holds a value of its C type; a NULL PML4 is None.
TypeOK ==
  /\ procs \in [Slot -> [pid: 0..MaxPid, ppid: 0..MaxPid,
                         state: {"UNUSED", "LIVE", "ZOMBIE"}]]
  /\ next_pid \in 1..(MaxPid + 1)
  /\ pml4 \in [Slot -> Frame \cup {None}]
  /\ host \in [Slot -> Pid \cup {None}] /\ waiter \in [Slot -> Pid \cup {None}]
  /\ used \subseteq Frame
  /\ cur \in Pid \cup {Kernel}
  /\ thread_as \in [Pid -> Slot \cup {None}]
  /\ active_as \in Slot \cup {KernelAs}
  /\ cr3 \in Frame \cup {KernelAs}
  /\ blocked \subseteq Pid
  /\ at \in [Pid -> Place]
  /\ arg \in [Pid -> Int \cup Frame \cup {None}]

-----------------------------------------------------------------------------
(* proc_core.c                                                             *)

InUse(s) == procs[s].state # "UNUSED"

\* proc_find, for a pid that is in the table.
slot(p) == CHOOSE s \in Slot : InUse(s) /\ procs[s].pid = p

\* The first free slot gets a fresh pid.
proc_alloc(ppid) ==
  LET s == Min({x \in Slot : ~InUse(x)}) IN
  /\ procs' = [procs EXCEPT ![s] = [pid |-> next_pid, ppid |-> ppid, state |-> "LIVE"]]
  /\ next_pid' = next_pid + 1

\* Faulty: the children keep a parent that is gone.
Bug_exit_orphans(p) == [procs EXCEPT ![slot(p)].state = "ZOMBIE"]

\* p becomes a zombie and its children go to init.
proc_exit(p) ==
  [s \in Slot |-> IF procs[s].pid = p THEN [procs[s] EXCEPT !.state = "ZOMBIE"]
                  ELSE IF InUse(s) /\ procs[s].ppid = p THEN [procs[s] EXCEPT !.ppid = INIT]
                  ELSE procs[s]]

\* The slots of ppid's children that wait4's argument selects.
Matching(ppid, pid_arg) ==
  {s \in Slot : InUse(s) /\ procs[s].ppid = ppid /\ pid_arg \in {-1, procs[s].pid}}

Zombies(ppid, pid_arg) == {s \in Matching(ppid, pid_arg) : procs[s].state = "ZOMBIE"}

proc_reap(p) == procs' = [procs EXCEPT ![slot(p)] = Unused]

-----------------------------------------------------------------------------
(* The address-space switch                                                *)

Runnable == {p \in Pid : at[p] \notin {"none", "zombie", "freed"}} \ blocked

\* Load CR3 for the address space a pointer names, unless it is believed to
\* be there already.
activate(ptr) ==
  /\ active_as' = ptr
  /\ cr3' = IF ptr = active_as THEN cr3 ELSE IF ptr = KernelAs THEN KernelAs ELSE pml4[ptr]

\* schedule() switches to q.
schedule(q) ==
  /\ cur' = q
  /\ activate(IF q = Kernel \/ thread_as[q] = None THEN KernelAs ELSE thread_as[q])

\* The timer, or a thread that blocks elsewhere in the kernel, gives the CPU
\* to some other thread.
switch(q) ==
  /\ q # cur /\ q \in Runnable \cup {Kernel}
  /\ schedule(q)
  /\ UNCHANGED <<table, pstate, used, thread_as, blocked, at, arg>>

\* A frame for a new PML4, when there is one.
paging_addrspace_create(f) == f \in Frame \ used /\ used' = used \cup {f}

Goto(p, place, x) == /\ at' = [at EXCEPT ![p] = place]
                     /\ arg' = [arg EXCEPT ![p] = x]

-----------------------------------------------------------------------------
(* Starting a process                                                      *)

\* process_run_init, up to the launch of init's thread; main waits for it.
Init ==
  \E f \in Frame :
    /\ procs = [s \in Slot |-> IF s = 1 THEN [pid |-> INIT, ppid |-> 0, state |-> "LIVE"]
                               ELSE Unused]
    /\ next_pid = 2
    /\ pml4 = [s \in Slot |-> IF s = 1 THEN f ELSE None]
    /\ host = [s \in Slot |-> IF s = 1 THEN INIT ELSE None]
    /\ waiter = [s \in Slot |-> None]
    /\ used = {f}
    /\ cur = Kernel
    /\ thread_as = [p \in Pid |-> None]
    /\ active_as = KernelAs /\ cr3 = KernelAs
    /\ blocked = {}
    /\ at = [p \in Pid |-> IF p = INIT THEN "new" ELSE "none"]
    /\ arg = [p \in Pid |-> None]

\* sched_set_addrspace to the process's own, then ring 3.
proc_host_entry(p) ==
  /\ cur = p /\ at[p] = "new"
  /\ thread_as' = [thread_as EXCEPT ![p] = slot(p)]
  /\ activate(slot(p))
  /\ Goto(p, "user", None)
  /\ UNCHANGED <<table, pstate, used, cur, blocked>>

\* process_fork: take a slot; a full table is -EAGAIN.
fork_alloc(p) ==
  /\ cur = p /\ at[p] = "user"
  /\ next_pid <= MaxPid
  /\ \E s \in Slot : ~InUse(s)
  /\ proc_alloc(p)
  /\ waiter' = [waiter EXCEPT ![Min({x \in Slot : ~InUse(x)})] = None]
  /\ Goto(p, "forking", next_pid)
  /\ UNCHANGED <<pml4, host, used, mmu, blocked>>

\* The child gets an address space of its own.
fork_clone(p) ==
  /\ cur = p /\ at[p] = "forking"
  /\ \E f \in Frame : /\ paging_addrspace_create(f)
                      /\ pml4' = [pml4 EXCEPT ![slot(arg[p])] = f]
  /\ Goto(p, "cloned", arg[p])
  /\ UNCHANGED <<table, host, waiter, mmu, blocked>>

\* No memory, before or while the address space is copied: what was built is
\* destroyed and the slot given back.
fork_fail(p) ==
  /\ cur = p /\ at[p] \in {"forking", "cloned"}
  /\ LET s == slot(arg[p]) IN
       /\ used' = used \ {pml4[s]}
       /\ pml4' = [pml4 EXCEPT ![s] = None]
  /\ proc_reap(arg[p])
  /\ Goto(p, "user", None)
  /\ UNCHANGED <<next_pid, host, waiter, mmu, blocked>>

\* host_launch: the child can run.
fork_launch(p) ==
  /\ cur = p /\ at[p] = "cloned"
  /\ host' = [host EXCEPT ![slot(arg[p])] = arg[p]]
  /\ at' = [at EXCEPT ![p] = "user", ![arg[p]] = "new"]
  /\ arg' = [arg EXCEPT ![p] = None]
  /\ UNCHANGED <<table, pml4, waiter, used, mmu, blocked>>

-----------------------------------------------------------------------------
(* execve                                                                  *)

\* image_build into new_as; any failure leaves the caller as it was.
execve_build(p) ==
  /\ cur = p /\ at[p] = "user"
  /\ \E f \in Frame : paging_addrspace_create(f) /\ Goto(p, "built", f)
  /\ UNCHANGED <<table, pstate, mmu, blocked>>

\* The image does not load: image_build destroys what it created.
execve_fail(p) ==
  /\ cur = p /\ at[p] = "built"
  /\ used' = used \ {arg[p]}
  /\ Goto(p, "user", None)
  /\ UNCHANGED <<table, pstate, mmu, blocked>>

\* Faulty: leaves CR3 to schedule(), which compares pointers.
Bug_execve_no_reload(p) ==
  /\ cur = p /\ at[p] = "built"
  /\ pml4' = [pml4 EXCEPT ![slot(p)] = arg[p]]
  /\ Goto(p, "committed", pml4[slot(p)])
  /\ UNCHANGED <<table, host, waiter, used, mmu, blocked>>

\* Swap the address spaces; the pointer is the same, so CR3 is loaded here.
execve_commit(p) ==
  /\ cur = p /\ at[p] = "built"
  /\ pml4' = [pml4 EXCEPT ![slot(p)] = arg[p]]
  /\ cr3' = arg[p]
  /\ Goto(p, "committed", pml4[slot(p)])
  /\ UNCHANGED <<table, host, waiter, used, cur, thread_as, active_as, blocked>>

execve_return(p) ==
  /\ cur = p /\ at[p] = "committed"
  /\ used' = used \ {arg[p]}
  /\ Goto(p, "user", None)
  /\ UNCHANGED <<table, pstate, mmu, blocked>>

-----------------------------------------------------------------------------
(* exit and wait4                                                          *)

\* Faulty: exits without telling anyone.
Bug_die_quietly(p) ==
  /\ cur = p /\ at[p] = "user"
  /\ p = INIT => Matching(INIT, -1) = {}
  /\ procs' = proc_exit(p)
  /\ Goto(p, "zombie", None)
  /\ \E q \in (Runnable \ {p}) \cup {Kernel} : schedule(q)
  /\ UNCHANGED <<next_pid, pstate, used, blocked, thread_as>>

\* proc_die, by exit or by a fault in ring 3: become a zombie, wake a parent
\* that waits, and thread_exit, with interrupts off throughout.  /bin/init
\* has waited for all its children when it exits, or the kernel panics.
proc_die(p) ==
  LET parent == {s \in Slot : procs[s].state = "LIVE" /\ procs[s].pid = procs[slot(p)].ppid}
      woken  == {waiter[s] : s \in parent} \ {None}
  IN
  /\ cur = p /\ at[p] = "user"
  /\ p = INIT => Matching(INIT, -1) = {}
  /\ procs' = proc_exit(p)
  /\ waiter' = [s \in Slot |-> IF s \in parent THEN None ELSE waiter[s]]
  /\ blocked' = blocked \ woken
  /\ Goto(p, "zombie", None)
  /\ \E q \in (Runnable \ {p}) \cup woken \cup {Kernel} : schedule(q)
  /\ UNCHANGED <<next_pid, pml4, host, used, thread_as>>

\* Faulty: leaves the critical section before it publishes the waiter.
Bug_wait_late(p, pid_arg) ==
  /\ cur = p
  /\ \/ at[p] = "user"
     \/ at[p] = "wait" /\ arg[p] = pid_arg
  /\ \/ /\ Matching(p, pid_arg) = {}
        /\ Goto(p, "user", None)
        /\ UNCHANGED <<waiter, blocked, cur, active_as, cr3>>
     \/ /\ Zombies(p, pid_arg) # {}
        /\ Goto(p, "found", procs[Min(Zombies(p, pid_arg))].pid)
        /\ UNCHANGED <<waiter, blocked, cur, active_as, cr3>>
     \/ /\ at[p] = "user" /\ Matching(p, pid_arg) # {} /\ Zombies(p, pid_arg) = {}
        /\ Goto(p, "wait", pid_arg)
        /\ UNCHANGED <<waiter, blocked, cur, active_as, cr3>>
     \/ /\ at[p] = "wait"
        /\ waiter' = [waiter EXCEPT ![slot(p)] = p]
        /\ blocked' = blocked \cup {p}
        /\ \E q \in (Runnable \ {p}) \cup {Kernel} : schedule(q)
        /\ UNCHANGED <<at, arg>>
  /\ UNCHANGED <<table, pml4, host, used, thread_as>>

\* One pass of process_wait4's loop: -ECHILD, a zombie to collect, or publish
\* the waiter and block.
wait4(p, pid_arg) ==
  /\ cur = p
  /\ \/ at[p] = "user"
     \/ at[p] = "wait" /\ arg[p] = pid_arg
  /\ \/ /\ Matching(p, pid_arg) = {}
        /\ Goto(p, "user", None)
        /\ UNCHANGED <<waiter, blocked, cur, active_as, cr3>>
     \/ /\ Zombies(p, pid_arg) # {}
        /\ Goto(p, "found", procs[Min(Zombies(p, pid_arg))].pid)
        /\ UNCHANGED <<waiter, blocked, cur, active_as, cr3>>
     \/ /\ Matching(p, pid_arg) # {} /\ Zombies(p, pid_arg) = {}
        /\ waiter' = [waiter EXCEPT ![slot(p)] = p]
        /\ blocked' = blocked \cup {p}
        /\ Goto(p, "wait", pid_arg)
        /\ \E q \in (Runnable \ {p}) \cup {Kernel} : schedule(q)
  /\ UNCHANGED <<table, pml4, host, used, thread_as>>

\* thread_join(host): the child's thread has exited, so this never blocks.
wait4_join(p) ==
  /\ cur = p /\ at[p] = "found"
  /\ at' = [at EXCEPT ![host[slot(arg[p])]] = "freed", ![p] = "joined"]
  /\ UNCHANGED <<table, pstate, used, mmu, blocked, arg>>

\* Faulty: destroys the address space and keeps the pointer to it.
Bug_destroy_keeps_pml4(p) ==
  /\ cur = p /\ at[p] = "joined"
  /\ used' = used \ {pml4[slot(arg[p])]}
  /\ Goto(p, "destroyed", arg[p])
  /\ UNCHANGED <<table, pstate, mmu, blocked>>

\* paging_user_destroy frees the child's frames and forgets the PML4.
wait4_destroy(p) ==
  /\ cur = p /\ at[p] = "joined"
  /\ LET s == slot(arg[p]) IN
       /\ used' = used \ {pml4[s]}
       /\ pml4' = [pml4 EXCEPT ![s] = None]
  /\ Goto(p, "destroyed", arg[p])
  /\ UNCHANGED <<table, host, waiter, mmu, blocked>>

wait4_reap(p) ==
  /\ cur = p /\ at[p] = "destroyed"
  /\ proc_reap(arg[p])
  /\ Goto(p, "user", None)
  /\ UNCHANGED <<next_pid, pstate, used, mmu, blocked>>

\* process_run_init goes on when init has exited: join, destroy, reap.
init_collect ==
  /\ cur = Kernel /\ at[INIT] = "zombie"
  /\ LET s == slot(INIT) IN
       /\ used' = used \ {pml4[s]}
       /\ pml4' = [pml4 EXCEPT ![s] = None]
  /\ proc_reap(INIT)
  /\ at' = [at EXCEPT ![INIT] = "freed"]
  /\ UNCHANGED <<next_pid, host, waiter, mmu, blocked, arg>>

Next ==
  \/ \E q \in Pid \cup {Kernel} : switch(q)
  \/ \E p \in Pid :
       \/ proc_host_entry(p)
       \/ fork_alloc(p) \/ fork_clone(p) \/ fork_fail(p) \/ fork_launch(p)
       \/ execve_build(p) \/ execve_fail(p) \/ execve_commit(p) \/ execve_return(p)
       \/ proc_die(p)
       \/ \E pid_arg \in {-1} \cup Pid : wait4(p, pid_arg)
       \/ wait4_join(p) \/ wait4_destroy(p) \/ wait4_reap(p)
  \/ init_collect

Spec == Init /\ [][Next]_vars

\* The steps of a thread that is inside wait4.
WaitStep(p) == \/ at[p] = "wait" /\ wait4(p, arg[p])
               \/ wait4_join(p) \/ wait4_destroy(p) \/ wait4_reap(p)

\* The scheduler runs every runnable thread again and again (ReadyRuns in
\* Scheduler), and a thread inside wait4 goes on with it.
Fairness == \A p \in Pid : SF_vars(switch(p)) /\ SF_vars(WaitStep(p))

FairSpec == Spec /\ Fairness

-----------------------------------------------------------------------------
(* Properties                                                              *)

\* Whenever a thread of a process runs, CR3 holds that process's page tables
\* and they are allocated: caching CR3 as a pointer that fork, execve and the
\* reuse of slots point at other tables never goes stale.
OwnAddressSpace ==
  /\ cr3 \in used \cup {KernelAs}
  /\ cur \in Pid /\ at[cur] # "new" => cr3 = pml4[slot(cur)]
  /\ cur = Kernel => cr3 = KernelAs

\* The check at the end of process_run_init, at every step: the allocated
\* address spaces are those of the table's processes and the one that an
\* execve is building or about to destroy, each owned once, so none is
\* leaked or freed twice.
FramesOwned ==
  LET execs == {p \in Pid : at[p] \in {"built", "committed"}}
      mine  == {s \in Slot : pml4[s] # None}
  IN /\ used = {pml4[s] : s \in mine} \cup {arg[p] : p \in execs}
     /\ Cardinality(used) = Cardinality(mine) + Cardinality(execs)
     /\ \A s \in mine : InUse(s)

\* Every process but init has a live parent to reap it, and when its parent
\* finds it a zombie its thread has exited and can be freed.
ZombiesReapable ==
  /\ TypeOK
  /\ \A s \in Slot : InUse(s) /\ procs[s].pid # INIT =>
       \E x \in Slot : procs[x].state = "LIVE" /\ procs[x].pid = procs[s].ppid
  /\ \A p \in Pid : at[p] = "found" =>
       /\ host[slot(arg[p])] = arg[p]
       /\ at[arg[p]] = "zombie"

\* A process that is blocked in wait4 is published as its slot's waiter and
\* has a matching child that is alive and will wake it, none that has exited.
WaiterCurrent(p) ==
  p \in blocked => /\ waiter[slot(p)] = p
                   /\ Matching(p, arg[p]) # {} /\ Zombies(p, arg[p]) = {}

\* The lost-wakeup race in wait4 is closed for every process but init, which
\* can be given a child that has exited already.
NoLostWakeup == \A p \in Pid \ {INIT} : WaiterCurrent(p)

\* The same of init, as the header comment of process.c says of wait4.
InitNoLostWakeup == WaiterCurrent(INIT)

\* A process in wait4 whose child exits gets out of wait4.
WaitReturns ==
  \A p \in Pid \ {INIT} :
    (at[p] = "wait" /\ Zombies(p, arg[p]) # {}) ~> at[p] = "user"
=============================================================================
