---------------------------- MODULE ProcessProofs ---------------------------
(***************************************************************************)
(* Proofs about Process, for any table size, number of pids and frames.    *)
(***************************************************************************)
EXTENDS ProcessSteps

-----------------------------------------------------------------------------
(* Starting, waiting, exiting                                              *)

\* A new thread enters its address space.
LEMMA HostEntry ==
  ASSUME ProcInv, NEW p \in Pid, proc_host_entry(p)
  PROVE  ProcInv'
<1>1. /\ TypeOK /\ TableInv /\ InitInv /\ SlotInv
      /\ ThreadInv /\ WaitInv /\ MmuInv /\ FrameInv
  BY DEF ProcInv
<1>2. PICK s \in Slot : Of(s, p) /\ slot(p) = s /\ Alive(s)
  BY Current DEF proc_host_entry
<1>3. /\ cur = p /\ at[p] = "new" /\ p \notin blocked /\ Goto(p, "user", None)
      /\ thread_as' = [thread_as EXCEPT ![p] = s] /\ activate(s)
      /\ UNCHANGED <<table, pstate, used, cur, blocked>>
  BY <1>2, Current, Zenon DEF proc_host_entry
<1>4. \A q \in Pid : q # p => at'[q] = at[q] /\ arg'[q] = arg[q] /\ thread_as'[q] = thread_as[q]
  BY <1>1, <1>3, Zenon DEF Goto, TypeOK
<1>5. at'[p] = "user" /\ thread_as'[p] = s
  BY <1>1, <1>3, Zenon DEF Goto, TypeOK
<1>6. procs' = procs /\ next_pid' = next_pid /\ pml4' = pml4 /\ host' = host /\ waiter' = waiter
  BY <1>3 DEF table, pstate
<1>7. TableInv' /\ InitInv'
  BY <1>1, <1>3, <1>4, <1>5, LivesOn, Zenon DEF Running
<1>8. \A x \in Slot, q \in Pid : /\ Of(x, q) => Of(x, q)'
                                 /\ InUse(x)' <=> InUse(x)
  BY <1>6 DEF Of, InUse
<1>9. ASSUME NEW x \in Slot, InUse(x)
      PROVE  (Embryo(x) => Embryo(x)') /\ (Alive(x) => Alive(x)') /\ (Dead(x) => Dead(x)')
             /\ (Collected(x) => Collected(x)')
  <2>1. procs[x].pid \in Pid
    BY <1>1, <1>9, Zenon DEF TableInv
  <2>2. (Alive(x) => Alive(x)') /\ (Dead(x) => Dead(x)')
    BY <1>3, <1>4, <1>5, <1>6, <2>1, Zenon DEF Alive, Dead, Running
  <2>3. (Embryo(x) => Embryo(x)') /\ (Collected(x) => Collected(x)')
    BY <1>3, <1>4, <1>5, <1>6, <2>1, Zenon DEF Embryo, Collected
  <2> QED BY <2>2, <2>3, Zenon
<1>10. SlotInv'
  BY <1>1, <1>6, <1>8, <1>9, Zenon DEF SlotInv, Staged
<1>11. ASSUME NEW q \in Pid PROVE ThreadOK(q)'
  <2>1. ThreadOK(q)
    BY <1>1, Zenon DEF ThreadInv
  <2>2. CASE q = p
    <3>1. Of(s, p)'
      BY <1>2, <1>8, Zenon
    <3> QED BY <1>3, <1>5, <1>6, <2>1, <2>2, <3>1, Zenon DEF ThreadOK, Running
  <2>3. CASE q # p
    <3>1. \A x \in Slot : Child(q, x) => Child(q, x)' /\ InUse(x)
      BY <1>4, <1>6, <2>3, Zenon DEF Child, Of, InUse
    <3> QED BY <1>4, <1>6, <1>8, <1>9, <2>1, <2>3, <3>1, Zenon DEF ThreadOK
  <2> QED BY <2>2, <2>3, Zenon
<1>12. WaitInv'
  BY <1>1, <1>3, <1>4, <1>6, KeepsWaiters, Zenon DEF TypeOK
<1>13. MmuInv' /\ active_as' \in Slot \cup {KernelAs} /\ cr3' \in Frame \cup {KernelAs}
  <2>1. active_as = KernelAs /\ s # KernelAs /\ s # None /\ p # Kernel
    BY <1>1, <1>3, ProcAssumption DEF MmuInv, ThreadInv, ThreadOK, Slot, Pid, Kernel
  <2>2. pml4[s] \in Frame
    BY <1>1, <1>2, Zenon DEF TypeOK, Alive
  <2>3. active_as' = s /\ cr3' = pml4[s]
    BY <1>3, <2>1, Zenon DEF activate
  <2> QED BY <1>3, <1>5, <1>6, <2>1, <2>2, <2>3, Zenon DEF MmuInv, Runnable
<1>14. FrameInv'
  <2>1. \A q \in Pid : (Exec(q)' <=> Exec(q)) /\ (Exec(q) => arg'[q] = arg[q])
    BY <1>3, <1>4, <1>5, Zenon DEF Exec
  <2> QED BY <1>1, <1>3, <1>6, <2>1, SameFrames, Zenon
<1>15. TypeOK'
  BY <1>1, <1>3, <1>13, Zenon DEF TypeOK, Goto, table, pstate, Place
<1> QED BY <1>7, <1>10, <1>11, <1>12, <1>13, <1>14, <1>15, Zenon DEF ProcInv, ThreadInv

\* wait4 returns, finds a zombie, or publishes the waiter and blocks.
LEMMA Wait4 ==
  ASSUME ProcInv, NEW p \in Pid, NEW pid_arg \in {-1} \cup Pid, wait4(p, pid_arg)
  PROVE  ProcInv'
<1>1. /\ TypeOK /\ TableInv /\ InitInv /\ SlotInv
      /\ ThreadInv /\ WaitInv /\ MmuInv /\ FrameInv
  BY Zenon DEF ProcInv
<1>2. PICK s \in Slot : Of(s, p) /\ slot(p) = s /\ Alive(s) /\ waiter[s] = None /\ p \notin blocked
  BY Current, Zenon DEF wait4
<1>3. /\ cur = p /\ at[p] \in {"user", "wait"} /\ p # Kernel
      /\ UNCHANGED <<table, pml4, host, used, thread_as>>
  BY ProcAssumption DEF wait4, Pid, Kernel
<1>4. ASSUME NEW place, NEW x, Goto(p, place, x)
      PROVE  /\ at'[p] = place /\ arg'[p] = x
             /\ \A q \in Pid : q # p => at'[q] = at[q] /\ arg'[q] = arg[q]
  BY <1>1, <1>4, Zenon DEF Goto, TypeOK
<1>5. ASSUME NEW place, NEW x, Goto(p, place, x), place \in {"user", "wait", "found"},
             x \in Int \cup {None}
      PROVE  FrameInv' /\ at' \in [Pid -> Place] /\ arg' \in [Pid -> Int \cup Frame \cup {None}]
  <2>1. \A q \in Pid : (Exec(q)' <=> Exec(q)) /\ (Exec(q) => arg'[q] = arg[q])
    BY <1>3, <1>4, <1>5, Zenon DEF Exec
  <2>2. FrameInv'
    BY <1>1, <1>3, <2>1, SameFrames, Zenon
  <2> QED BY <1>1, <1>5, <2>2, Zenon DEF Goto, TypeOK, Place
<1>6. CASE Goto(p, "user", None) /\ UNCHANGED <<waiter, blocked, cur, active_as, cr3>>
  <2>1. TableInv' /\ InitInv' /\ SlotInv' /\ ThreadInv'
    BY <1>1, <1>3, <1>6, Moves, Zenon DEF Alone
  <2>2. at'[p] = "user" /\ \A q \in Pid : q # p => at'[q] = at[q] /\ arg'[q] = arg[q]
    BY <1>4, <1>6, Zenon
  <2>3. WaitInv'
    BY <1>1, <1>2, <1>3, <1>6, <2>2, KeepsWaiters, Zenon DEF TypeOK
  <2>4. MmuInv'
    BY <1>1, <1>3, <1>6, <2>2, KeepsMmu, Zenon DEF Running, mmu
  <2>5. FrameInv' /\ at' \in [Pid -> Place] /\ arg' \in [Pid -> Int \cup Frame \cup {None}]
    BY <1>5, <1>6, Zenon
  <2>6. TypeOK'
    BY <1>1, <1>3, <1>6, <2>5, Zenon DEF TypeOK, table
  <2> QED BY <2>1, <2>3, <2>4, <2>5, <2>6, Zenon DEF ProcInv
<1>7. CASE /\ Zombies(p, pid_arg) # {}
           /\ Goto(p, "found", procs[Min(Zombies(p, pid_arg))].pid)
           /\ UNCHANGED <<waiter, blocked, cur, active_as, cr3>>
  <2>1. PICK z \in Slot : z \in Zombies(p, pid_arg) /\ z = Min(Zombies(p, pid_arg))
    BY <1>7, MinSlot, ProcAssumption, Zenon DEF Zombies, Matching
  <2>2. InUse(z) /\ procs[z].ppid = p /\ procs[z].state = "ZOMBIE"
    BY <2>1, Zenon DEF Zombies, Matching
  <2>3. PICK c \in Pid : c = procs[z].pid
    BY <1>1, <2>2, Zenon DEF TableInv
  <2>4. Dead(z)
    BY <1>1, <1>3, <2>2, Zenon DEF SlotInv, Staged, Embryo, Alive, Collected
  <2>5. c # p /\ at[c] = "zombie" /\ at[c] \notin Running
    BY <1>3, <2>3, <2>4, Zenon DEF Dead, Running
  <2>6. /\ at'[p] = "found" /\ arg'[p] = c
        /\ \A q \in Pid : q # p => at'[q] = at[q] /\ arg'[q] = arg[q]
    BY <1>4, <1>7, <2>1, <2>3, Zenon
  <2>7. procs' = procs /\ next_pid' = next_pid /\ pml4' = pml4 /\ host' = host /\ thread_as' = thread_as
    BY <1>3, Zenon DEF table
  <2>8. /\ \A x \in Slot \ {z} : Staged(x)'
        /\ \A q \in Pid \ {p, c} : ThreadOK(q)'
    <3>1. next_pid' \in Int /\ next_pid \in Int /\ next_pid' >= next_pid
      BY <1>1, <2>7 DEF TypeOK
    <3>2. /\ at[p] \in Running /\ at'[p] \in Running
          /\ InUse(z) => procs[z].pid = c /\ procs[z].ppid = p
      BY <1>3, <2>2, <2>3, <2>6, Zenon DEF Running
    <3>3. \A x \in Slot \ {z} : ~Of(x, c)
      BY <1>1, <2>2, <2>3, Zenon DEF TableInv, Of
    <3>4. \A x \in Slot \ {z} : InUse(x) /\ procs[x].ppid = p => ~Embryo(x) /\ ~Collected(x)
      BY <1>3, Zenon DEF Embryo, Collected
    <3>5. \A x \in Slot \ {z} : procs'[x] = procs[x] /\ host'[x] = host[x] /\ pml4'[x] = pml4[x]
      BY <2>7, Zenon
    <3>6. \A q \in Pid \ {p, c} : at'[q] = at[q] /\ arg'[q] = arg[q] /\ thread_as'[q] = thread_as[q]
      BY <2>6, <2>7, Zenon
    <3> QED BY <1>1, <2>5, <3>1, <3>2, <3>3, <3>4, <3>5, <3>6, Others, Zenon
      DEF OneChild, Elsewhere
  <2>9. Dead(z)'
    BY <2>3, <2>4, <2>5, <2>6, <2>7, Zenon DEF Dead
  <2>10. SlotInv'
    BY <2>8, <2>9, <2>2, <2>7, Zenon DEF SlotInv, Staged, InUse
  <2>11. ThreadInv'
    <3>1. \A x \in Slot, q \in Pid : Of(x, q) => Of(x, q)'
      BY <2>7, Zenon DEF Of, InUse
    <3>2. Child(p, z)'
      BY <2>2, <2>3, <2>6, <2>7, Zenon DEF Child, Of, InUse
    <3>3. ThreadOK(p) /\ ThreadOK(c)
      BY <1>1, Zenon DEF ThreadInv
    <3>4. ThreadOK(p)'
      BY <1>3, <2>2, <2>6, <2>7, <2>9, <3>1, <3>2, <3>3, Zenon DEF ThreadOK, Running
    <3>5. ThreadOK(c)'
      BY <2>5, <2>6, <2>7, <3>1, <3>3, Zenon DEF ThreadOK, Running
    <3> QED BY <2>8, <3>4, <3>5, Zenon DEF ThreadInv
  <2>12. TableInv' /\ InitInv'
    BY <1>1, <1>3, <2>6, LivesOn, Zenon DEF Running
  <2>13. WaitInv'
    BY <1>1, <1>2, <1>3, <1>7, <2>6, KeepsWaiters, Zenon DEF TypeOK
  <2>14. MmuInv'
    BY <1>1, <1>3, <1>7, <2>6, KeepsMmu, Zenon DEF Running, mmu
  <2>15. FrameInv' /\ at' \in [Pid -> Place] /\ arg' \in [Pid -> Int \cup Frame \cup {None}]
    <3>1. c \in Int
      BY DEF Pid
    <3>2. Goto(p, "found", c)
      BY <1>7, <2>1, <2>3, Zenon
    <3> QED BY <1>5, <3>1, <3>2, Zenon
  <2>16. TypeOK'
    BY <1>1, <1>3, <1>7, <2>15, Zenon DEF TypeOK, table
  <2> QED BY <2>10, <2>11, <2>12, <2>13, <2>14, <2>15, <2>16, Zenon DEF ProcInv
<1>8. CASE /\ Matching(p, pid_arg) # {} /\ Zombies(p, pid_arg) = {}
           /\ waiter' = [waiter EXCEPT ![slot(p)] = p] /\ blocked' = blocked \cup {p}
           /\ Goto(p, "wait", pid_arg)
           /\ \E q \in (Runnable \ {p}) \cup {Kernel} : schedule(q)
  <2>1. TableInv' /\ InitInv' /\ SlotInv' /\ ThreadInv'
    BY <1>1, <1>3, <1>8, Moves, Zenon DEF Alone
  <2>2. /\ at'[p] = "wait" /\ arg'[p] = pid_arg
        /\ \A q \in Pid : q # p => at'[q] = at[q] /\ arg'[q] = arg[q]
    BY <1>4, <1>8, Zenon
  <2>3. procs' = procs
    BY <1>3, Zenon DEF table
  <2>4. waiter'[s] = p /\ \A x \in Slot : x # s => waiter'[x] = waiter[x]
    BY <1>1, <1>2, <1>8, Zenon DEF TypeOK
  <2>5. \A x \in Slot, q \in Pid : Of(x, q)' <=> Of(x, q)
    BY <2>3, Zenon DEF Of, InUse
  <2>6. \A q, y \in Int : (Matching(q, y))' = Matching(q, y) /\ (Zombies(q, y))' = Zombies(q, y)
    BY <2>3, Zenon DEF Matching, Zombies, InUse
  <2>7. WaitInv'
    <3>1. ASSUME NEW q \in blocked \cup {p}
          PROVE  (/\ at[q] = "wait"
                  /\ \E x \in Slot : Of(x, q) /\ waiter[x] = q
                  /\ q # INIT => Matching(q, arg[q]) # {} /\ Zombies(q, arg[q]) = {})'
      <4>1. CASE q = p
        <5>1. (Matching(p, arg[p]))' = Matching(p, pid_arg) /\ (Zombies(p, arg[p]))' = Zombies(p, pid_arg)
          BY <2>2, <2>3, Zenon DEF Matching, Zombies, InUse
        <5> QED BY <1>2, <1>8, <2>2, <2>4, <2>5, <4>1, <5>1, Zenon
      <4>2. CASE q # p
        <5>1. q \in blocked /\ q \in Pid
          BY <1>1, <4>2, Zenon DEF TypeOK
        <5>2. (Matching(q, arg[q]))' = Matching(q, arg[q]) /\ (Zombies(q, arg[q]))' = Zombies(q, arg[q])
          BY <2>2, <2>3, <4>2, <5>1, Zenon DEF Matching, Zombies, InUse
        <5>3. \E x \in Slot : Of(x, q)' /\ waiter'[x] = q
          BY <1>1, <1>2, <2>4, <2>5, <4>2, <5>1 DEF WaitInv, Of
        <5> QED BY <1>1, <2>2, <4>2, <5>1, <5>2, <5>3, Zenon DEF WaitInv
      <4> QED BY <4>1, <4>2
    <3>2. ASSUME NEW x \in Slot, waiter'[x] # None
          PROVE  (Of(x, waiter[x]))' /\ waiter'[x] \in blocked \cup {p}
      <4>1. CASE x = s
        BY <1>2, <2>3, <2>4, <4>1, Zenon DEF Of, InUse
      <4>2. CASE x # s
        BY <1>1, <2>3, <2>4, <3>2, <4>2, Zenon DEF Of, InUse, WaitInv
      <4> QED BY <4>1, <4>2, Zenon
    <3> QED BY <1>8, <3>1, <3>2, Zenon DEF WaitInv
  <2>8. PICK q \in (Runnable \ {p}) \cup {Kernel} : schedule(q)
    BY <1>8, Zenon
  <2>9. /\ MmuInv' /\ cur' \in Pid \cup {Kernel}
        /\ active_as' \in Slot \cup {KernelAs} /\ cr3' \in Frame \cup {KernelAs}
    <3>1. q # Kernel => q \in Runnable' /\ at[q] \in Running
      BY <1>1, <1>8, <2>2, <2>8, Zenon DEF Runnable, Running, TypeOK, Place
    <3>2. q \in Pid \cup {Kernel}
      BY Zenon DEF Runnable
    <3> QED BY <1>1, <1>3, <2>8, <3>1, <3>2, Schedules, Zenon
  <2>10. FrameInv' /\ at' \in [Pid -> Place] /\ arg' \in [Pid -> Int \cup Frame \cup {None}]
    <3>1. pid_arg \in Int
      BY DEF Pid
    <3> QED BY <1>5, <1>8, <3>1, Zenon
  <2>11. TypeOK'
    BY <1>1, <1>3, <1>8, <2>9, <2>10, Zenon DEF TypeOK, table
  <2> QED BY <2>1, <2>7, <2>9, <2>10, <2>11, Zenon DEF ProcInv
<1> QED BY <1>6, <1>7, <1>8, Zenon DEF wait4

\* Parents are older than their children, so a table without children of init
\* holds init and nobody else.
LEMMA OnlyInit ==
  ASSUME TypeOK, TableInv, Matching(INIT, -1) = {}
  PROVE  \A s \in Slot : InUse(s) => procs[s].pid = INIT
<1> DEFINE T == {procs[s].pid : s \in {x \in Slot : InUse(x) /\ procs[x].pid # INIT}}
<1> SUFFICES ASSUME T # {} PROVE FALSE
  BY Zenon
<1>1. T \in SUBSET Nat
  BY DEF TypeOK
<1>2. \E m \in T : \A n \in T : m <= n
  <2> HIDE DEF T
  <2> QED BY <1>1, Smallest, Zenon
<1>3. PICK s \in Slot : InUse(s) /\ procs[s].pid # INIT /\ \A n \in T : procs[s].pid <= n
  BY <1>2, Zenon
<1>4. procs[s].ppid < procs[s].pid /\ Lives(procs[s].ppid)
  BY <1>3, Zenon DEF TableInv
<1>5. PICK x \in Slot : Of(x, procs[s].ppid)
  BY <1>4, Zenon DEF Lives
<1>6. procs[s].ppid # INIT
  BY <1>3, Zenon DEF Matching
<1>7. procs[x].pid \in T /\ procs[x].pid = procs[s].ppid
  BY <1>5, <1>6, Zenon DEF Of
<1>8. procs[s].pid \in Int /\ procs[s].ppid \in Int
  BY DEF TypeOK
<1>9. procs[s].pid <= procs[s].ppid
  BY <1>3, <1>7, Zenon
<1> QED BY <1>4, <1>8, <1>9

\* A process exits: its children go to init, its parent is woken.
LEMMA ProcDie ==
  ASSUME ProcInv, NEW p \in Pid, proc_die(p)
  PROVE  ProcInv'
<1>1. /\ TypeOK /\ TableInv /\ InitInv /\ SlotInv
      /\ ThreadInv /\ WaitInv /\ MmuInv /\ FrameInv
  BY DEF ProcInv
<1>2. PICK s \in Slot : Of(s, p) /\ slot(p) = s /\ Alive(s) /\ p \notin blocked
  BY Current DEF proc_die
<1>3. PICK par \in SUBSET Slot :
        par = {x \in Slot : procs[x].state = "LIVE" /\ procs[x].pid = procs[s].ppid}
  BY Zenon
<1>4. PICK woken : woken = {waiter[x] : x \in par} \ {None}
  BY Zenon
<1>5. /\ cur = p /\ at[p] = "user" /\ (p = INIT => Matching(INIT, -1) = {})
      /\ procs' = proc_exit(p)
      /\ waiter' = [x \in Slot |-> IF x \in par THEN None ELSE waiter[x]]
      /\ blocked' = blocked \ woken /\ Goto(p, "zombie", None)
      /\ \E q \in (Runnable \ {p}) \cup woken \cup {Kernel} : schedule(q)
      /\ UNCHANGED <<next_pid, pml4, host, used, thread_as>>
  BY <1>2, <1>3, <1>4, Zenon DEF proc_die
<1>6. /\ at'[p] = "zombie"
      /\ \A q \in Pid : q # p => at'[q] = at[q] /\ arg'[q] = arg[q]
  BY <1>1, <1>5, Zenon DEF Goto, TypeOK
<1>7. \A x \in Slot : procs[x].pid = p <=> x = s
  <2>1. \A x \in Slot : procs[x].pid = p => InUse(x)
    BY <1>1, ProcAssumption DEF TableInv, Unused, Pid
  <2> QED BY <1>1, <1>2, <2>1, Zenon DEF TableInv, Of
<1>8. /\ procs'[s] = [procs[s] EXCEPT !.state = "ZOMBIE"]
      /\ \A x \in Slot : x # s => procs'[x] = IF InUse(x) /\ procs[x].ppid = p
                                              THEN [procs[x] EXCEPT !.ppid = INIT] ELSE procs[x]
  BY <1>5, <1>7, Zenon DEF proc_exit
<1>9. /\ procs'[s].pid = p /\ procs'[s].state = "ZOMBIE" /\ procs'[s].ppid = procs[s].ppid
      /\ InUse(s) /\ procs[s].pid = p
  BY <1>1, <1>2, <1>8 DEF TypeOK, Of
<1>10. \A x \in Slot : x # s => /\ procs'[x].pid = procs[x].pid /\ procs'[x].state = procs[x].state
                                /\ InUse(x) /\ procs[x].ppid = p => procs'[x].ppid = INIT
                                /\ ~(InUse(x) /\ procs[x].ppid = p) => procs'[x] = procs[x]
  BY <1>1, <1>8, Zenon DEF TypeOK
<1>11. \A x \in Slot : (InUse(x)' <=> InUse(x)) /\ \A q : Of(x, q)' <=> Of(x, q)
  BY <1>9, <1>10 DEF InUse, Of
<1>12. \A q : Lives(q) /\ q # p => Lives(q)'
  <2> SUFFICES ASSUME NEW q, Lives(q), q # p PROVE Lives(q)'
    OBVIOUS
  <2>1. PICK x \in Slot : Of(x, q) /\ procs[x].state = "LIVE" /\ at[q] \in Running
    BY DEF Lives
  <2>2. q \in Pid /\ x # s
    BY <1>1, <1>9, <2>1, Zenon DEF TableInv, Of
  <2> QED BY <1>6, <1>10, <1>11, <2>1, <2>2 DEF Lives
<1>13. p # INIT => Lives(INIT)
  BY <1>1, <1>9, Zenon DEF InitInv
<1>14. p = INIT => \A x \in Slot : InUse(x) => procs[x].pid = INIT
  BY <1>1, <1>5, OnlyInit, Zenon
<1>15. TableInv'
  <2>1. \A x \in Slot : IF InUse(x)' THEN procs'[x].pid \in Pid /\ procs'[x].pid < next_pid'
                        ELSE procs'[x] = Unused
    BY <1>1, <1>5, <1>9, <1>10, <1>11, Zenon DEF TableInv
  <2>2. (\A x, y \in Slot : InUse(x) /\ Of(y, procs[x].pid) => x = y)'
    BY <1>1, <1>9, <1>10, <1>11 DEF TableInv
  <2>3. (\A x \in Slot : InUse(x) /\ procs[x].pid # INIT =>
          procs[x].ppid < procs[x].pid /\ Lives(procs[x].ppid))'
    <3> SUFFICES ASSUME NEW x \in Slot, InUse(x), procs'[x].pid # INIT
                 PROVE  procs'[x].ppid < procs'[x].pid /\ Lives(procs[x].ppid)'
      BY <1>11, Zenon
    <3>1. procs'[x].pid = procs[x].pid /\ procs[x].pid \in Pid
      BY <1>1, <1>9, <1>10, Zenon DEF TableInv
    <3>2. procs[x].ppid < procs[x].pid /\ Lives(procs[x].ppid)
      BY <1>1, <3>1, Zenon DEF TableInv
    <3>3. p # INIT
      BY <1>14, <3>1, Zenon
    <3>4. CASE x # s /\ procs[x].ppid = p
      <4>1. procs'[x].ppid = INIT
        BY <1>10, <3>4, Zenon
      <4>2. INIT < procs[x].pid
        BY <3>1 DEF Pid, INIT
      <4> QED BY <1>12, <1>13, <3>1, <3>3, <4>1, <4>2, Zenon
    <3>5. CASE ~(x # s /\ procs[x].ppid = p)
      <4>1. procs'[x].ppid = procs[x].ppid /\ procs[x].ppid # p
        BY <1>9, <1>10, <3>2, <3>5 DEF Pid
      <4> QED BY <1>12, <3>1, <3>2, <4>1, Zenon
    <3> QED BY <3>4, <3>5, Zenon
  <2> QED BY <2>1, <2>2, <2>3, Zenon DEF TableInv
<1>16. InitInv'
  BY <1>9, <1>10, <1>11, <1>12, <1>13, <1>14, Zenon DEF InitInv
<1>17. Dead(s)'
  BY <1>2, <1>5, <1>6, <1>9, Zenon DEF Dead, Alive
<1>18. ASSUME NEW x \in Slot, InUse(x), Embryo(x) \/ Collected(x)
       PROVE  /\ x # s /\ procs'[x] = procs[x]
              /\ (Embryo(x) => Embryo(x)') /\ (Collected(x) => Collected(x)')
  <2>1. x # s /\ procs[x].pid # p /\ procs[x].ppid # p /\ procs[x].ppid \in Pid /\ procs[x].pid \in Pid
    BY <1>1, <1>5, <1>7, <1>9, <1>18, Zenon DEF Embryo, Collected, TableInv
  <2>2. procs'[x] = procs[x]
    BY <1>10, <2>1, Zenon
  <2>3. /\ at'[procs[x].pid] = at[procs[x].pid] /\ at'[procs[x].ppid] = at[procs[x].ppid]
        /\ arg'[procs[x].ppid] = arg[procs[x].ppid]
    BY <1>6, <2>1, Zenon
  <2> QED BY <1>5, <2>1, <2>2, <2>3, Zenon DEF Embryo, Collected
<1>19. ASSUME NEW x \in Slot, InUse(x), x # s
       PROVE  (Alive(x) => Alive(x)') /\ (Dead(x) => Dead(x)')
  <2>1. procs[x].pid # p /\ procs[x].pid \in Pid
    BY <1>1, <1>7, <1>19, Zenon DEF TableInv
  <2>2. at'[procs[x].pid] = at[procs[x].pid]
    BY <1>6, <2>1, Zenon
  <2> QED BY <1>5, <1>10, <1>19, <2>2, Zenon DEF Alive, Dead
<1>20. SlotInv'
  BY <1>1, <1>5, <1>11, <1>17, <1>18, <1>19, Zenon DEF SlotInv, Staged
<1>21. ASSUME NEW q \in Pid PROVE ThreadOK(q)'
  <2>1. ThreadOK(q)
    BY <1>1, Zenon DEF ThreadInv
  <2>2. CASE q = p
    <3>1. Of(s, p)'
      BY <1>2, <1>11, Zenon
    <3> QED BY <1>5, <1>6, <2>1, <2>2, <3>1, Zenon DEF ThreadOK, Running
  <2>3. CASE q # p
    <3>1. at'[q] = at[q] /\ arg'[q] = arg[q] /\ thread_as' = thread_as /\ next_pid' = next_pid
      BY <1>5, <1>6, <2>3, Zenon
    <3>2. ASSUME NEW x \in Slot, Child(q, x)
          PROVE  /\ InUse(x) /\ Child(q, x)' /\ (Embryo(x) => Embryo(x)') /\ (Dead(x) => Dead(x)')
                 /\ (Collected(x) => Collected(x)')
      <4>1. InUse(x) /\ procs'[x].ppid = q
        BY <1>9, <1>10, <2>3, <3>2, Zenon DEF Child, Of
      <4>2. Child(q, x)'
        BY <1>11, <3>1, <3>2, <4>1, Zenon DEF Child
      <4>3. Dead(x) => x # s
        BY <1>5, <1>9, Zenon DEF Dead
      <4> QED BY <1>18, <1>19, <4>1, <4>2, <4>3, Zenon
    <3> QED BY <1>11, <2>1, <3>1, <3>2, Zenon DEF ThreadOK
  <2> QED BY <2>2, <2>3, Zenon
<1>22. \A x \in Slot : waiter'[x] = IF x \in par THEN None ELSE waiter[x]
  BY <1>5, Zenon
<1>23. ASSUME NEW q \in blocked, q \notin woken
       PROVE  (/\ at[q] = "wait"
               /\ \E x \in Slot : Of(x, q) /\ waiter[x] = q
               /\ q # INIT => Matching(q, arg[q]) # {} /\ Zombies(q, arg[q]) = {})'
  <2>1. q \in Pid /\ q # p /\ q # None
    BY <1>1, <1>2, ProcAssumption DEF TypeOK, Pid
  <2>2. at[q] = "wait" /\ at'[q] = at[q] /\ arg'[q] = arg[q]
    BY <1>1, <1>6, <2>1, Zenon DEF WaitInv
  <2>3. PICK x \in Slot : Of(x, q) /\ waiter[x] = q
    BY <1>1, Zenon DEF WaitInv
  <2>4. x \notin par
    BY <1>4, <1>23, <2>1, <2>3, Zenon
  <2>5. Of(x, q)' /\ waiter'[x] = q
    BY <1>11, <1>22, <2>3, <2>4, Zenon
  <2>6. procs[x].state = "LIVE" /\ procs[x].pid = q
    BY <1>1, <2>2, <2>3, Zenon DEF Of, SlotInv, Staged, Embryo, Alive, Dead, Collected
  <2>7. procs[s].ppid # q
    BY <1>3, <2>4, <2>6, Zenon
  <2>8. ASSUME q # INIT
        PROVE  (Matching(q, arg[q]))' = Matching(q, arg[q]) /\ (Zombies(q, arg[q]))' = Zombies(q, arg[q])
    <3>1. \A y \in Slot : InUse(y) /\ procs[y].ppid = q => procs'[y] = procs[y]
      BY <1>10, <2>1, <2>7, Zenon
    <3>2. \A y \in Slot : InUse(y) /\ procs'[y].ppid = q => procs[y].ppid = q /\ procs'[y] = procs[y]
      BY <1>9, <1>10, <2>7, <2>8, Zenon
    <3> QED BY <1>11, <2>2, <3>1, <3>2, Zenon DEF Matching, Zombies
  <2> QED BY <1>1, <2>2, <2>5, <2>8, Zenon DEF WaitInv
<1>24. WaitInv'
  <2>1. ASSUME NEW x \in Slot, waiter'[x] # None
        PROVE  (Of(x, waiter[x]))' /\ waiter'[x] \in blocked'
    <3>1. x \notin par /\ waiter'[x] = waiter[x] /\ waiter[x] # None
      BY <1>22, <2>1, Zenon
    <3>2. Of(x, waiter[x]) /\ waiter[x] \in blocked
      BY <1>1, <3>1, Zenon DEF WaitInv
    <3>3. waiter[x] \notin woken
      BY <1>1, <1>3, <1>4, <3>1, <3>2 DEF WaitInv, TableInv, Of
    <3> QED BY <1>5, <1>11, <3>1, <3>2, <3>3, Zenon
  <2> QED BY <1>5, <1>23, <2>1, Zenon DEF WaitInv
<1>25. PICK q \in (Runnable \ {p}) \cup woken \cup {Kernel} : schedule(q)
  BY <1>5, Zenon
<1>26. \A w \in woken : w \in blocked
  BY <1>1, <1>3, <1>4 DEF WaitInv
<1>27. /\ MmuInv' /\ cur' \in Pid \cup {Kernel}
       /\ active_as' \in Slot \cup {KernelAs} /\ cr3' \in Frame \cup {KernelAs}
  <2>1. CASE q = Kernel
    BY <1>1, <1>5, <1>25, <2>1, Schedules, Zenon
  <2>2. CASE q \in Runnable \ {p}
    <3>1. q \in Pid /\ q \in Runnable' /\ at[q] \in Running
      BY <1>1, <1>5, <1>6, <2>2, Zenon DEF Runnable, Running, TypeOK, Place
    <3> QED BY <1>1, <1>5, <1>25, <3>1, Schedules, Zenon
  <2>3. CASE q \in woken
    <3>1. q \in Pid /\ q # p /\ at[q] = "wait" /\ q \notin blocked'
      BY <1>1, <1>2, <1>5, <1>26, <2>3, Zenon DEF WaitInv, TypeOK
    <3>2. q \in Runnable' /\ at[q] \in Running
      BY <1>6, <3>1, Zenon DEF Runnable, Running
    <3> QED BY <1>1, <1>5, <1>25, <3>1, <3>2, Schedules, Zenon
  <2> QED BY <2>1, <2>2, <2>3, Zenon
<1>28. FrameInv'
  <2>1. \A r \in Pid : (Exec(r)' <=> Exec(r)) /\ (Exec(r) => arg'[r] = arg[r])
    BY <1>5, <1>6, Zenon DEF Exec
  <2> QED BY <1>1, <1>5, <2>1, SameFrames, Zenon
<1>29. TypeOK'
  <2>1. procs' \in [Slot -> [pid: 0..MaxPid, ppid: 0..MaxPid, state: {"UNUSED", "LIVE", "ZOMBIE"}]]
    BY <1>1, <1>5, ProcAssumption DEF TypeOK, proc_exit, INIT
  <2>2. at' \in [Pid -> Place] /\ arg' \in [Pid -> Int \cup Frame \cup {None}]
    BY <1>1, <1>5, Zenon DEF TypeOK, Goto, Place
  <2>3. waiter' \in [Slot -> Pid \cup {None}] /\ blocked' \subseteq Pid
    BY <1>1, <1>5, Zenon DEF TypeOK
  <2> QED BY <1>1, <1>5, <1>27, <2>1, <2>2, <2>3, Zenon DEF TypeOK
<1> QED BY <1>15, <1>16, <1>20, <1>21, <1>24, <1>27, <1>28, <1>29, Zenon DEF ProcInv, ThreadInv

\* The kernel collects init, which is alone by then.
LEMMA InitCollect ==
  ASSUME ProcInv, init_collect
  PROVE  ProcInv'
<1>1. /\ TypeOK /\ TableInv /\ InitInv /\ SlotInv
      /\ ThreadInv /\ WaitInv /\ MmuInv /\ FrameInv
  BY Zenon DEF ProcInv
<1>2. INIT \in Pid /\ at[INIT] = "zombie" /\ cur = Kernel
  BY ProcAssumption DEF init_collect, Pid, INIT
<1>3. PICK s \in Slot : Of(s, INIT) /\ slot(INIT) = s
  BY <1>1, <1>2, SlotOf, Zenon DEF ThreadInv, ThreadOK
<1>4. /\ used' = used \ {pml4[s]} /\ pml4' = [pml4 EXCEPT ![s] = None]
      /\ procs' = [procs EXCEPT ![s] = Unused] /\ at' = [at EXCEPT ![INIT] = "freed"]
      /\ UNCHANGED <<next_pid, host, waiter, mmu, blocked, arg>>
  BY <1>3, Zenon DEF init_collect, proc_reap
<1>5. \A x \in Slot : InUse(x) => x = s
  BY <1>1, <1>2, <1>3, Zenon DEF InitInv, Lives, Running, TableInv, Of
<1>6. \A x \in Slot : procs'[x] = Unused /\ ~InUse(x)'
  <2>1. \A x \in Slot : procs'[x] = Unused
    BY <1>1, <1>4, <1>5, Zenon DEF TypeOK, TableInv
  <2> QED BY <2>1 DEF InUse, Unused
<1>7. \A x \in Slot : pml4'[x] = IF x = s THEN None ELSE pml4[x]
  BY <1>1, <1>4, Zenon DEF TypeOK
<1>8. \A q \in Pid : at'[q] \in {"none", "freed"} /\ (q # INIT => at'[q] = at[q])
  <2>1. \A q \in Pid : q # INIT => at[q] \notin Running \cup {"zombie"}
    BY <1>1, <1>3, <1>5, Zenon DEF ThreadInv, ThreadOK, Of
  <2> QED BY <1>1, <1>4, <2>1, Zenon DEF TypeOK, Running, Place
<1>9. TableInv' /\ InitInv'
  BY <1>6, Zenon DEF TableInv, InitInv
<1>10. SlotInv'
  BY <1>1, <1>5, <1>6, <1>7, Zenon DEF SlotInv, Staged
<1>11. ThreadInv'
  <2>1. ASSUME NEW q \in Pid PROVE ThreadOK(q)'
    <3>1. ThreadOK(q)
      BY <1>1, Zenon DEF ThreadInv
    <3>2. thread_as' = thread_as /\ next_pid' = next_pid
      BY <1>4, Zenon DEF mmu
    <3>3. CASE q = INIT
      <4>1. at'[q] = "freed"
        BY <1>1, <1>2, <1>4, <3>3, Zenon DEF TypeOK
      <4>2. ~(q >= next_pid)
        BY <1>2, <3>1, <3>3, Zenon DEF ThreadOK
      <4> QED BY <3>2, <4>1, <4>2, Zenon DEF ThreadOK, Running
    <3>4. CASE q # INIT
      BY <1>8, <3>1, <3>2, <3>4, Zenon DEF ThreadOK, Running
    <3> QED BY <3>3, <3>4, Zenon
  <2> QED BY <2>1, Zenon DEF ThreadInv
<1>12. WaitInv'
  <2>1. blocked = {}
    <3> SUFFICES ASSUME NEW q \in blocked PROVE FALSE
      BY Zenon
    <3>1. PICK x \in Slot : Of(x, q) /\ at[q] = "wait"
      BY <1>1, Zenon DEF WaitInv
    <3>2. q = INIT
      BY <1>3, <1>5, <3>1, Zenon DEF Of
    <3> QED BY <1>2, <3>1, <3>2
  <2>2. \A x \in Slot : waiter[x] = None
    BY <1>1, <2>1, Zenon DEF WaitInv
  <2> QED BY <1>4, <2>1, <2>2, Zenon DEF WaitInv
<1>13. MmuInv'
  BY <1>1, <1>2, <1>4 DEF MmuInv, mmu
<1>14. FrameInv'
  <2>1. \A q \in Pid : (Exec(q)' <=> Exec(q)) /\ (Exec(q) => arg'[q] = arg[q])
    BY <1>2, <1>4, <1>8, Zenon DEF Exec
  <2> QED BY <1>1, <1>4, <1>7, <2>1, FreesFrame, Zenon
<1>15. TypeOK'
  <2>1. Unused \in [pid: 0..MaxPid, ppid: 0..MaxPid, state: {"UNUSED", "LIVE", "ZOMBIE"}]
    BY ProcAssumption DEF Unused
  <2> QED BY <1>1, <1>4, <2>1, Zenon DEF TypeOK, mmu, Place
<1> QED BY <1>9, <1>10, <1>11, <1>12, <1>13, <1>14, <1>15, Zenon DEF ProcInv

\* The invariant holds when init is launched.
LEMMA InitProc ==
  ASSUME Init
  PROVE  ProcInv
<1>1. PICK f \in Frame :
    /\ procs = [s \in Slot |-> IF s = 1 THEN [pid |-> INIT, ppid |-> 0, state |-> "LIVE"]
                               ELSE Unused]
    /\ next_pid = 2
    /\ pml4 = [s \in Slot |-> IF s = 1 THEN f ELSE None]
    /\ host = [s \in Slot |-> IF s = 1 THEN INIT ELSE None]
    /\ waiter = [s \in Slot |-> None]
    /\ used = {f}
    /\ cur = Kernel
    /\ thread_as = [p \in Pid |-> None]
    /\ active_as = KernelAs /\ cr3 = KernelAs
    /\ blocked = {}
    /\ at = [p \in Pid |-> IF p = INIT THEN "new" ELSE "none"]
    /\ arg = [p \in Pid |-> None]
  BY Zenon DEF Init
<1>2. 1 \in Slot /\ INIT \in Pid /\ f # None /\ INIT = 1
  BY ProcAssumption DEF Slot, Pid, INIT
<1>3. /\ procs[1] = [pid |-> INIT, ppid |-> 0, state |-> "LIVE"]
      /\ \A s \in Slot : s # 1 => procs[s] = Unused
  BY <1>1, <1>2, Zenon
<1>4. /\ InUse(1) /\ Of(1, INIT) /\ procs[1].state = "LIVE" /\ procs[1].pid = INIT
      /\ \A s \in Slot : s # 1 => ~InUse(s)
  BY <1>3 DEF InUse, Of, Unused
<1>5. at[INIT] = "new" /\ \A p \in Pid : p # INIT => at[p] = "none"
  BY <1>1, <1>2, Zenon
<1>6. pml4[1] = f /\ host[1] = INIT /\ \A s \in Slot : s # 1 => pml4[s] = None
  BY <1>1, <1>2, Zenon
<1>7. TableInv
  BY <1>1, <1>2, <1>3, <1>4 DEF TableInv, Of
<1>8. InitInv
  BY <1>2, <1>4, <1>5, Zenon DEF InitInv, Lives, Running
<1>9. SlotInv
  BY <1>2, <1>4, <1>5, <1>6, Zenon DEF SlotInv, Staged, Alive, Running
<1>10. ThreadInv
  <2>1. \A p \in Pid : thread_as[p] = None /\ (p = INIT => ~(p >= next_pid))
    BY <1>1, <1>2
  <2> QED BY <1>2, <1>4, <1>5, <2>1, Zenon DEF ThreadInv, ThreadOK, Running
<1>11. WaitInv
  BY <1>1, Zenon DEF WaitInv
<1>12. MmuInv
  BY <1>1, Zenon DEF MmuInv
<1>13. FrameInv
  <2>1. \A p \in Pid : ~Exec(p)
    BY <1>5, Zenon DEF Exec
  <2>2. \A g \in Frame : g \in used <=> Owned(g)
    BY <1>1, <1>2, <1>6, <2>1, ProcAssumption, Zenon DEF Owned
  <2> QED BY <1>2, <1>6, <2>1, <2>2, Zenon DEF FrameInv
<1>14. TypeOK
  <2>1. procs \in [Slot -> [pid: 0..MaxPid, ppid: 0..MaxPid, state: {"UNUSED", "LIVE", "ZOMBIE"}]]
    BY <1>1, ProcAssumption DEF Unused, INIT
  <2>2. next_pid \in 1..(MaxPid + 1)
    BY <1>1, ProcAssumption
  <2> QED BY <1>1, <1>2, <2>1, <2>2, Zenon DEF TypeOK, Place
<1> QED BY <1>7, <1>8, <1>9, <1>10, <1>11, <1>12, <1>13, <1>14, Zenon DEF ProcInv

\* Stuttering.
LEMMA SameProc ==
  ASSUME ProcInv, UNCHANGED vars
  PROVE  ProcInv'
<1>1. /\ TypeOK /\ TableInv /\ InitInv /\ SlotInv
      /\ ThreadInv /\ WaitInv /\ MmuInv /\ FrameInv
  BY Zenon DEF ProcInv
<1>2. TableInv' /\ InitInv' /\ SlotInv' /\ ThreadInv' /\ FrameInv'
  BY <1>1, SameLives, Zenon DEF vars, pstate, mmu
<1>3. WaitInv'
  BY <1>1, KeepsWaiters, Zenon DEF vars, pstate
<1>4. MmuInv'
  BY <1>1, Zenon DEF vars, mmu, MmuInv, Runnable, pstate
<1>5. TypeOK'
  BY <1>1 DEF vars, table, pstate, mmu, TypeOK
<1> QED BY <1>2, <1>3, <1>4, <1>5, Zenon DEF ProcInv

-----------------------------------------------------------------------------
(* Theorems                                                                *)

\* Every step of every thread keeps the invariant.
THEOREM ProcInvariant == Spec => []ProcInv
<1>1. Init => ProcInv
  BY InitProc, Zenon
<1>2. ProcInv /\ [Next]_vars => ProcInv'
  <2> SUFFICES ASSUME ProcInv, [Next]_vars PROVE ProcInv'
    OBVIOUS
  <2>1. CASE UNCHANGED vars
    BY <2>1, SameProc, Zenon
  <2>2. CASE \E q \in Pid \cup {Kernel} : switch(q)
    BY <2>2, Switch, Zenon
  <2>3. ASSUME NEW p \in Pid,
               \/ proc_host_entry(p)
               \/ fork_alloc(p) \/ fork_clone(p) \/ fork_fail(p) \/ fork_launch(p)
               \/ execve_build(p) \/ execve_fail(p) \/ execve_commit(p) \/ execve_return(p)
               \/ proc_die(p)
               \/ \E pid_arg \in {-1} \cup Pid : wait4(p, pid_arg)
               \/ wait4_join(p) \/ wait4_destroy(p) \/ wait4_reap(p)
        PROVE  ProcInv'
    BY <2>3, HostEntry, ForkAlloc, ForkClone, ForkFail, ForkLaunch, ExecveBuild, ExecveEnds,
       ExecveCommit, ProcDie, Wait4, Wait4Join, Wait4Destroy, Wait4Reap, Zenon
  <2>4. CASE init_collect
    BY <2>4, InitCollect, Zenon
  <2> QED BY <2>1, <2>2, <2>3, <2>4, Zenon DEF Next
<1> QED BY <1>1, <1>2, PTL DEF Spec

\* A thread of a process runs on its process's page tables, and they are
\* allocated: the pointer that schedule() compares instead of CR3 never goes
\* stale, for any number of processes, frames, forks and execs.
THEOREM OwnAddressSpaceAlways == Spec => []OwnAddressSpace
<1>1. ProcInv => OwnAddressSpace
  <2> SUFFICES ASSUME ProcInv PROVE OwnAddressSpace
    OBVIOUS
  <2>1. TypeOK /\ MmuInv /\ FrameInv
    BY Zenon DEF ProcInv
  <2>2. CASE cur = Kernel
    BY <2>1, <2>2, ProcAssumption DEF OwnAddressSpace, MmuInv, Pid, Kernel
  <2>3. CASE cur \in Pid
    <3>1. cur # Kernel
      BY <2>3, ProcAssumption DEF Pid, Kernel
    <3>2. PICK p \in Pid : cur = p
      BY <2>3, Zenon
    <3>3. PICK s \in Slot : /\ slot(p) = s /\ Alive(s)
                            /\ at[p] # "new" => thread_as[p] = s /\ active_as = s /\ cr3 = pml4[s]
      BY <3>2, Current, Zenon
    <3>4. pml4[s] \in Frame
      BY <2>1, <3>3, Zenon DEF TypeOK, Alive
    <3>5. pml4[s] \in used
      BY <2>1, <3>4, Zenon DEF FrameInv, Owned
    <3>6. at[p] = "new" => cr3 = KernelAs
      BY <2>1, <3>2, Zenon DEF MmuInv, ProcInv, ThreadInv, ThreadOK
    <3> QED BY <3>1, <3>2, <3>3, <3>5, <3>6, Zenon DEF OwnAddressSpace
  <2> QED BY <2>1, <2>2, <2>3, Zenon DEF TypeOK
<1> QED BY <1>1, ProcInvariant, PTL

\* Address spaces are neither leaked nor freed twice: the allocated ones are
\* those of the table's processes and of the execs under way, each owned once.
THEOREM FramesOwnedAlways == Spec => []FramesOwned
<1>1. ProcInv => FramesOwned
  <2> SUFFICES ASSUME ProcInv PROVE FramesOwned
    OBVIOUS
  <2>1. TypeOK /\ SlotInv /\ FrameInv
    BY Zenon DEF ProcInv
  <2> DEFINE execs == {p \in Pid : at[p] \in {"built", "committed"}}
             mine  == {s \in Slot : pml4[s] # None}
             A == {pml4[s] : s \in mine}
             B == {arg[p] : p \in execs}
  <2>2. IsFiniteSet(execs) /\ IsFiniteSet(mine)
    <3>1. IsFiniteSet(Pid) /\ IsFiniteSet(Slot)
      BY FS_Interval, ProcAssumption DEF Pid, Slot
    <3>2. execs \in SUBSET Pid /\ mine \in SUBSET Slot
      BY Zenon
    <3> HIDE DEF execs, mine
    <3> QED BY <3>1, <3>2, FS_Subset, Zenon
  <2>3. IsFiniteSet(A) /\ Cardinality(A) = Cardinality(mine)
    <3>1. [s \in mine |-> pml4[s]] \in Bijection(mine, A)
      <4>1. \A s, x \in mine : pml4[s] = pml4[x] => s = x
        BY <2>1, Zenon DEF FrameInv
      <4> QED BY <4>1, Zenon DEF Bijection, Injection, Surjection, IsInjective
    <3> HIDE DEF A, mine
    <3> QED BY <2>2, <3>1, FS_Bijection, Zenon DEF ExistsBijection
  <2>4. IsFiniteSet(B) /\ Cardinality(B) = Cardinality(execs)
    <3>1. [p \in execs |-> arg[p]] \in Bijection(execs, B)
      <4>1. \A p, q \in execs : arg[p] = arg[q] => p = q
        BY <2>1, Zenon DEF FrameInv, Exec
      <4> QED BY <4>1, Zenon DEF Bijection, Injection, Surjection, IsInjective
    <3> HIDE DEF B, execs
    <3> QED BY <2>2, <3>1, FS_Bijection, Zenon DEF ExistsBijection
  <2>5. \A p \in execs : arg[p] \in Frame /\ \A s \in Slot : pml4[s] # arg[p]
    BY <2>1, Zenon DEF FrameInv, Exec
  <2>6. A \cap B = {}
    BY <2>5, Zenon
  <2>7. used = A \cup B
    <3>1. \A f \in Frame : f \in used <=> f \in A \cup B
      <4> TAKE f \in Frame
      <4>1. f \in used <=> Owned(f)
        BY <2>1, Zenon DEF FrameInv
      <4>2. Owned(f) => f \in A \cup B
        BY ProcAssumption, Zenon DEF Owned, Exec
      <4>3. f \in A \cup B => Owned(f)
        BY Zenon DEF Owned, Exec
      <4> QED BY <4>1, <4>2, <4>3, Zenon
    <3>2. A \subseteq Frame
      BY <2>1, Zenon DEF TypeOK
    <3>3. B \subseteq Frame
      BY <2>5, Zenon
    <3>4. used \subseteq Frame
      BY <2>1, Zenon DEF TypeOK
    <3> HIDE DEF A, B
    <3> QED BY <3>1, <3>2, <3>3, <3>4, Zenon
  <2>8. Cardinality(used) = Cardinality(mine) + Cardinality(execs)
    <3> HIDE DEF A, B, mine, execs
    <3>1. Cardinality(A \cup B) = Cardinality(A) + Cardinality(B) - Cardinality(A \cap B)
      BY <2>3, <2>4, FS_Union, Zenon
    <3>2. Cardinality(A \cap B) = 0
      BY <2>6, FS_EmptySet, Zenon
    <3>3. Cardinality(mine) \in Nat /\ Cardinality(execs) \in Nat
      BY <2>2, FS_CardinalityType, Zenon
    <3> QED BY <2>3, <2>4, <2>7, <3>1, <3>2, <3>3
  <2>9. \A s \in mine : InUse(s)
    BY <2>1, Zenon DEF SlotInv, Staged
  <2> QED BY <2>7, <2>8, <2>9, Zenon DEF FramesOwned
<1> QED BY <1>1, ProcInvariant, PTL

\* Every process but init has a live parent, whoever exits and in whatever
\* order, and a zombie that wait4 finds has a thread that can be freed.
THEOREM ZombiesReapableAlways == Spec => []ZombiesReapable
<1>1. ProcInv => ZombiesReapable
  <2> SUFFICES ASSUME ProcInv PROVE ZombiesReapable
    OBVIOUS
  <2>1. TypeOK /\ TableInv
    BY Zenon DEF ProcInv
  <2>2. \A s \in Slot : InUse(s) /\ procs[s].pid # INIT =>
          \E x \in Slot : procs[x].state = "LIVE" /\ procs[x].pid = procs[s].ppid
    BY <2>1, Zenon DEF TableInv, Lives, Of
  <2>3. ASSUME NEW p \in Pid, at[p] = "found"
        PROVE  host[slot(arg[p])] = arg[p] /\ at[arg[p]] = "zombie"
    <3>1. PICK s \in Slot : Child(p, s) /\ slot(arg[p]) = s /\ Dead(s)
      BY <2>3, ChildOf, Zenon
    <3> QED BY <3>1, Zenon DEF Child, Of, Dead
  <2> QED BY <2>1, <2>2, <2>3, Zenon DEF ZombiesReapable
<1> QED BY <1>1, ProcInvariant, PTL

\* No process but init sleeps in wait4 past the exit of its child: a blocked
\* one is its slot's waiter and waits for children none of which has exited.
THEOREM NoLostWakeupAlways == Spec => []NoLostWakeup
<1>1. ProcInv => NoLostWakeup
  <2> SUFFICES ASSUME ProcInv, NEW p \in Pid \ {INIT}, p \in blocked PROVE WaiterCurrent(p)
    BY Zenon DEF NoLostWakeup, WaiterCurrent
  <2>1. TableInv /\ WaitInv
    BY Zenon DEF ProcInv
  <2>2. PICK s \in Slot : Of(s, p) /\ waiter[s] = p
    BY <2>1, Zenon DEF WaitInv
  <2>3. slot(p) = s
    BY <2>1, <2>2, SlotOf, Zenon
  <2> QED BY <2>1, <2>2, <2>3, Zenon DEF WaitInv, WaiterCurrent
<1> QED BY <1>1, ProcInvariant, PTL

=============================================================================
