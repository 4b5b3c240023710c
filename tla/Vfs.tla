-------------------------------- MODULE Vfs ---------------------------------
(***************************************************************************)
(* Open files and the names they are opened by: kernel/fs/vfs.c, the file  *)
(* descriptor tables of kernel/proc/process.c and the calls of             *)
(* kernel/proc/syscall.c that open, share, close and remove.               *)
(*                                                                         *)
(* A call that holds fs_lock from its first look at the tree to its last   *)
(* change is one step (Scheduler shows that a mutex excludes).  What a     *)
(* call does outside the lock is a list of steps, todo, between which any  *)
(* other process may run: an open description is put into the table, its   *)
(* count falls with interrupts off, and only then is fs_lock taken again   *)
(* to say that its node is no longer open.                                 *)
(*                                                                         *)
(* A descriptor table belongs to one process and a process is one thread,  *)
(* so a slot changes together with the count of the description in it.     *)
(***************************************************************************)
EXTENDS Namespace, TLC

CONSTANTS Proc,     \* slots of the process table
          FdMax,    \* FD_MAX
          MaxFile,  \* descriptions the heap has room for
          Path,     \* paths handed to the calls that take one
          RawPath,  \* paths that are normalised
          OldPath, NewPath,  \* paths handed to link and rename
          Flags,    \* combinations of open flags
          Console   \* the name of the device in /dev

Fd == 0..(FdMax - 1)
File == 1..MaxFile

VARIABLES node,        \* the committed graph
          node_opens,  \* open descriptions per node
          file,        \* the open file descriptions
          fd,          \* each process's descriptor table; 0 is NULL
          todo,        \* the steps each process's call has left
          alive        \* processes that have been launched and not died

vars == <<node, node_opens, file, fd, todo, alive>>

\* A struct file: which operations it has (a file or a directory of graphfs,
\* or the other ones: console, /dev, pipes and sockets), the node it is open
\* on, and its reference count.  Kind "free" is not allocated.
NoFile == [kind |-> "free", node |-> 0, refs |-> 0]
FreeFiles == {f \in File : file[f].kind = "free"}
file_is_gfs(f) == file[f].kind \in {"reg", "dir"}

Step(op, f, x) == [op |-> op, f |-> f, x |-> x]

Idle(p) == p \in alive /\ todo[p] = <<>>
Doing(p, op) == todo[p] # <<>> /\ Head(todo[p]).op = op
Now(p) == Head(todo[p])

\* p's call goes on with these steps before the ones it has left.
Continue(p, steps) == todo' = [todo EXCEPT ![p] = steps \o Tail(@)]

\* The first process runs, with the console in its first descriptor.
Init == \E init \in Proc :
  /\ node = EmptyTree
  /\ node_opens = [i \in Node |-> 0]
  /\ file = [f \in File |-> IF f = 1 THEN [kind |-> "other", node |-> 0, refs |-> 1] ELSE NoFile]
  /\ fd = [p \in Proc |-> [i \in Fd |-> IF p = init /\ i = 0 THEN 1 ELSE 0]]
  /\ todo = [p \in Proc |-> <<>>]
  /\ alive = {init}

-----------------------------------------------------------------------------
(* Names                                                                   *)

\* Every path a call is handed, in canonical form.
Canon == [path \in RawPath \cup Path \cup OldPath \cup NewPath |-> vfs_path_norm(path)]

\* The path is on devfs, and the path is the root or the mount point.
on_devfs(canon) == canon # <<>> /\ canon[1] = Dev
mount_point(canon) == canon \in {<<>>, <<Dev>>}

\* The node a canonical path leads to, with its directory and last component.
gfs_locate(canon) ==
  LET dir == gfs_resolve(node, Front(canon))
      at == gfs_lookup(node, dir.id, Last(canon))
  IN [rc |-> IF dir.rc # "OK" THEN dir.rc ELSE at.rc,
      dir |-> dir.id, name |-> Last(canon),
      id |-> IF dir.rc = "OK" /\ at.rc = "OK" THEN at.id ELSE 0]

\* An operation on the graph under fs_lock, by some process.
Change(r) == /\ \E p \in alive : Idle(p)
             /\ node' = r.n
             /\ UNCHANGED <<node_opens, file, fd, todo, alive>>

vfs_mkdir(path) ==
  LET canon == Canon[path].out
      dir == gfs_resolve(node, Front(canon))
  IN /\ Canon[path].rc = "OK"
     /\ ~mount_point(canon) /\ ~on_devfs(canon)
     /\ dir.rc = "OK"
     /\ Change(gfs_create_at(node, dir.id, Last(canon), "NAMESPACE"))

\* The last name of an open file stays.
vfs_unlink(path) ==
  LET canon == Canon[path].out
      at == gfs_locate(canon)
  IN /\ Canon[path].rc = "OK"
     /\ ~mount_point(canon) /\ ~on_devfs(canon)
     /\ at.rc = "OK"
     /\ node[at.id].type # "NAMESPACE"
     /\ ~(node[at.id].nlink = 1 /\ node_opens[at.id] > 0)
     /\ Change(gfs_unlink(node, at.dir, at.name))

vfs_rmdir(path) ==
  LET canon == Canon[path].out
      at == gfs_locate(canon)
  IN /\ Canon[path].rc = "OK"
     /\ ~mount_point(canon) /\ ~on_devfs(canon)
     /\ at.rc = "OK"
     /\ node[at.id].type = "NAMESPACE"
     /\ node_opens[at.id] = 0
     /\ Change(gfs_unlink(node, at.dir, at.name))

vfs_link(old, new) ==
  LET ocanon == Canon[old].out
      ncanon == Canon[new].out
      at == gfs_resolve(node, ocanon)
      dir == gfs_resolve(node, Front(ncanon))
  IN /\ Canon[old].rc = "OK" /\ Canon[new].rc = "OK"
     /\ ~on_devfs(ocanon) /\ ~on_devfs(ncanon)
     /\ ncanon # <<>>
     /\ at.rc = "OK" /\ node[at.id].type # "NAMESPACE"
     /\ dir.rc = "OK"
     /\ Change(gfs_link(node, dir.id, Last(ncanon), at.id))

\* Faulty: the object in the way is checked for its type and not for users.
Bug_vfs_rename_open(old, new) ==
  LET ocanon == Canon[old].out
      ncanon == Canon[new].out
      odir == gfs_resolve(node, Front(ocanon))
      ndir == gfs_resolve(node, Front(ncanon))
  IN /\ Canon[old].rc = "OK" /\ Canon[new].rc = "OK"
     /\ ~mount_point(ocanon) /\ ~mount_point(ncanon)
     /\ ~on_devfs(ocanon) /\ ~on_devfs(ncanon)
     /\ odir.rc = "OK" /\ ndir.rc = "OK"
     /\ Change(gfs_rename(node, odir.id, Last(ocanon), ndir.id, Last(ncanon)))

\* Replacing an open object would free a node that a description refers to,
\* unless it is the object that moves.
vfs_rename(old, new) ==
  LET ocanon == Canon[old].out
      ncanon == Canon[new].out
      odir == gfs_resolve(node, Front(ocanon))
      ndir == gfs_resolve(node, Front(ncanon))
      src == gfs_lookup(node, odir.id, Last(ocanon))
      dst == gfs_lookup(node, ndir.id, Last(ncanon))
      replaced == src.rc = "OK" /\ dst.rc = "OK" /\ dst.id # src.id
  IN /\ Canon[old].rc = "OK" /\ Canon[new].rc = "OK"
     /\ ~mount_point(ocanon) /\ ~mount_point(ncanon)
     /\ ~on_devfs(ocanon) /\ ~on_devfs(ncanon)
     /\ odir.rc = "OK" /\ ndir.rc = "OK"
     /\ replaced => \/ node[dst.id].type = "DATA" /\ node[dst.id].nlink # 1
                    \/ node_opens[dst.id] = 0
     /\ Change(gfs_rename(node, odir.id, Last(ocanon), ndir.id, Last(ncanon)))

-----------------------------------------------------------------------------
(* Opening                                                                 *)

\* file_alloc: p holds a new description that is in no table yet.
Allocate(p, kind, id) ==
  LET f == Min(FreeFiles) IN
  /\ FreeFiles # {}
  /\ file' = [file EXCEPT ![f] = [kind |-> kind, node |-> id, refs |-> 1]]
  /\ todo' = [todo EXCEPT ![p] = <<Step("install", f, 0)>>]

\* The flags that ask for more than reading a directory.
Changing(flags) == flags \cap {"WRITE", "CREAT", "TRUNC"} # {}

\* The /dev directory and its one device.
devfs_open(p, rel, flags) ==
  /\ \/ rel = <<>> /\ ~Changing(flags)
     \/ rel = <<Console>> /\ "DIRECTORY" \notin flags /\ ~({"CREAT", "EXCL"} \subseteq flags)
  /\ Allocate(p, "other", 0)
  /\ UNCHANGED <<node, node_opens, fd, alive>>

\* Resolve or create, check the type, truncate, allocate, count: one hold of
\* fs_lock.  A node that was created stays when the description cannot be
\* allocated (the last disjunct), and likewise when reading it back fails.
gfs_open(p, canon, flags) ==
  LET at == gfs_resolve(node, canon)
      dir == gfs_resolve(node, Front(canon))
      new == gfs_create_at(node, dir.id, Last(canon), "DATA")
      creating == at.rc = "ENOENT" /\ "CREAT" \in flags /\ canon # <<>>
                    /\ dir.rc = "OK" /\ new.rc = "OK"
      n == IF creating THEN new.n ELSE node
      id == IF creating THEN node_find_free(node) ELSE at.id
  IN /\ creating \/ (at.rc = "OK" /\ ~({"CREAT", "EXCL"} \subseteq flags))
     /\ n[id].type = "NAMESPACE" => ~Changing(flags)
     /\ n[id].type # "NAMESPACE" => "DIRECTORY" \notin flags
     /\ node' = n
     /\ UNCHANGED <<fd, alive>>
     /\ \/ Allocate(p, IF n[id].type = "NAMESPACE" THEN "dir" ELSE "reg", id) /\ node_opens' = [node_opens EXCEPT ![id] = @ + 1]
        \/ UNCHANGED <<file, todo, node_opens>>

vfs_open(p, path, flags) ==
  LET canon == Canon[path].out IN
  /\ Idle(p)
  /\ ~({"DIRECTORY", "CREAT"} \subseteq flags)
  /\ Canon[path].rc = "OK"
  /\ IF on_devfs(canon) THEN devfs_open(p, Tail(canon), flags) ELSE gfs_open(p, canon, flags)

\* pipe() and socketpair(): two descriptions at once.
sys_pipe(p) ==
  LET r == Min(FreeFiles)
      w == Min(FreeFiles \ {r})
      end == [kind |-> "other", node |-> 0, refs |-> 1]
  IN /\ Idle(p)
     /\ Cardinality(FreeFiles) >= 2
     /\ file' = [file EXCEPT ![r] = end, ![w] = end]
     /\ todo' = [todo EXCEPT ![p] =
          <<Step("install", r, w), Step("install", w, r), Step("copyout", r, w)>>]
     /\ UNCHANGED <<node, node_opens, fd, alive>>

SlotOf(p, f) == CHOOSE i \in Fd : fd[p][i] = f

\* The steps that give back a description p holds: process_fd_close when it
\* is in the table, vfs_file_put when it is not.
GiveBack(p, f) == Step(IF \E i \in Fd : fd[p][i] = f THEN "close" ELSE "put", f, 0)

\* Faulty: when there is no descriptor for it the description is forgotten.
Bug_fd_install_leaks(p) ==
  LET f == Now(p).f
      free == {i \in Fd : fd[p][i] = 0}
  IN /\ Doing(p, "install")
     /\ UNCHANGED <<node, node_opens, file, alive>>
     /\ \/ /\ free # {}
           /\ fd' = [fd EXCEPT ![p][Min(free)] = f]
           /\ Continue(p, <<>>)
        \/ /\ free = {}
           /\ todo' = [todo EXCEPT ![p] = <<>>]
           /\ UNCHANGED fd

\* The lowest free descriptor.  With -EMFILE the caller gives back every
\* description of the call, the ones already in the table included.
process_fd_install(p) ==
  LET f == Now(p).f
      free == {i \in Fd : fd[p][i] = 0}
      held == SetToSortSeq({f, Now(p).x} \ {0}, LAMBDA g, h : g < h)
  IN /\ Doing(p, "install")
     /\ UNCHANGED <<node, node_opens, file, alive>>
     /\ \/ /\ free # {}
           /\ fd' = [fd EXCEPT ![p][Min(free)] = f]
           /\ Continue(p, <<>>)
        \/ /\ free = {}
           /\ todo' = [todo EXCEPT ![p] = [i \in DOMAIN held |-> GiveBack(p, held[i])]]
           /\ UNCHANGED fd

\* The two descriptor numbers are copied to the caller, or, when that faults,
\* both are closed.
copy_out(p) ==
  /\ Doing(p, "copyout")
  /\ \/ Continue(p, <<>>)
     \/ Continue(p, <<Step("close", Now(p).f, 0), Step("close", Now(p).x, 0)>>)
  /\ UNCHANGED <<node, node_opens, file, fd, alive>>

-----------------------------------------------------------------------------
(* Closing and sharing                                                     *)

\* The count falls with interrupts off.  The last reference then frees the
\* description, which no one else can see any more: at once, or after fs_lock
\* has been taken to say that its node is no longer open.
Put(p, f) ==
  LET gone == file[f].refs = 1 IN
  /\ file' = [file EXCEPT ![f] = IF gone /\ ~file_is_gfs(f) THEN NoFile ELSE [@ EXCEPT !.refs = @ - 1]]
  /\ Continue(p, IF gone /\ file_is_gfs(f) THEN <<Step("unopen", f, 0)>> ELSE <<>>)
  /\ UNCHANGED <<node, node_opens, alive>>

vfs_file_put(p) == Doing(p, "put") /\ Put(p, Now(p).f) /\ UNCHANGED fd

process_fd_close(p) ==
  /\ Doing(p, "close")
  /\ fd' = [fd EXCEPT ![p][SlotOf(p, Now(p).f)] = 0]
  /\ Put(p, Now(p).f)

unopen(p) ==
  LET f == Now(p).f IN
  /\ Doing(p, "unopen")
  /\ node_opens' = [node_opens EXCEPT ![file[f].node] = @ - 1]
  /\ file' = [file EXCEPT ![f] = NoFile]
  /\ Continue(p, <<>>)
  /\ UNCHANGED <<node, fd, alive>>

sys_close(p, i) ==
  /\ Idle(p) /\ fd[p][i] # 0
  /\ todo' = [todo EXCEPT ![p] = <<Step("slot", 0, i)>>]
  /\ UNCHANGED <<node, node_opens, file, fd, alive>>

\* One slot is emptied: close, and each turn of fd_table_close_all.
close_slot(p) ==
  LET i == Now(p).x IN
  /\ Doing(p, "slot")
  /\ IF fd[p][i] = 0 THEN Continue(p, <<>>) /\ UNCHANGED <<node, node_opens, file, fd, alive>>
     ELSE fd' = [fd EXCEPT ![p][i] = 0] /\ Put(p, fd[p][i])

\* proc_die closes the files before anything else; the slot is then reused.
process_exit(p) ==
  /\ Idle(p)
  /\ todo' = [todo EXCEPT ![p] = [i \in 1..FdMax |-> Step("slot", 0, i - 1)] \o <<Step("die", 0, 0)>>]
  /\ UNCHANGED <<node, node_opens, file, fd, alive>>

die(p) == /\ Doing(p, "die")
          /\ alive' = alive \ {p}
          /\ Continue(p, <<>>)
          /\ UNCHANGED <<node, node_opens, file, fd>>

\* The child is given its slots one by one and launched after the last.
process_fork(p, q) ==
  /\ Idle(p) /\ q \notin alive /\ todo[q] = <<>>
  /\ \A r \in Proc : \A s \in Range(todo[r]) : s.op \in {"share", "launch"} => s.f # q
  /\ todo' = [todo EXCEPT ![p] = [i \in 1..FdMax |-> Step("share", q, i - 1)] \o <<Step("launch", q, 0)>>]
  /\ UNCHANGED <<node, node_opens, file, fd, alive>>

share(p) ==
  LET q == Now(p).f i == Now(p).x f == fd[p][i] IN
  /\ Doing(p, "share")
  /\ fd' = [fd EXCEPT ![q][i] = f]
  /\ file' = IF f = 0 THEN file ELSE [file EXCEPT ![f].refs = @ + 1]
  /\ Continue(p, <<>>)
  /\ UNCHANGED <<node, node_opens, alive>>

host_launch(p) == /\ Doing(p, "launch")
                  /\ alive' = alive \cup {Now(p).f}
                  /\ Continue(p, <<>>)
                  /\ UNCHANGED <<node, node_opens, file, fd>>

Next ==
  \/ \E path \in Path : \/ vfs_mkdir(path) \/ vfs_unlink(path) \/ vfs_rmdir(path)
                        \/ \E p \in Proc, flags \in Flags : vfs_open(p, path, flags)
  \/ \E old \in OldPath, new \in NewPath : vfs_link(old, new) \/ vfs_rename(old, new)
  \/ \E p \in Proc :
       \/ sys_pipe(p) \/ process_fd_install(p) \/ copy_out(p)
       \/ vfs_file_put(p) \/ process_fd_close(p) \/ unopen(p)
       \/ close_slot(p) \/ process_exit(p) \/ die(p) \/ share(p) \/ host_launch(p)
       \/ \E i \in Fd : sys_close(p, i)
       \/ \E q \in Proc : process_fork(p, q)

Spec == Init /\ [][Next]_vars

-----------------------------------------------------------------------------
(* Properties                                                              *)

\* The steps of a kind that processes have left for a description.
Pending(f, ops) == {p \in Proc : \E s \in Range(todo[p]) : s.f = f /\ s.op \in ops}

\* A description that can be used is open on a node that exists and is what it
\* was when it was opened, whatever unlink, rmdir and rename did meanwhile and
\* however far a close has come (vfs.c:571 and :702 refuse with -EBUSY).
OpenNodesLive == \A f \in File : file[f].refs > 0 =>
  /\ file[f].kind = "reg" => node[file[f].node].type = "DATA"
  /\ file[f].kind = "dir" => node[file[f].node].type = "NAMESPACE"

\* A description has one reference for each slot it is in and one for a call
\* that has not installed it yet, it is freed when the last is gone and not
\* before, and a node is counted open once for each description of it: also
\* when open() or pipe() fails half way, and while processes fork and exit.
CountsExact ==
  /\ \A f \in File :
       /\ file[f].refs = Cardinality({<<p, i>> \in Proc \X Fd : fd[p][i] = f})
                           + Cardinality(Pending(f, {"install", "put"}))
       /\ file[f].kind # "free" /\ file[f].refs = 0 => Cardinality(Pending(f, {"unopen"})) = 1
       /\ file[f].kind = "free" => file[f].refs = 0
  /\ \A i \in Node : node_opens[i] =
       Cardinality({f \in File : file_is_gfs(f) /\ file[f].node = i})

\* The graph passes gfs_fsck, everything in use can be reached from the root,
\* reading a directory by index meets every name in it once, and the mount
\* point stays an empty directory of the root.
TreeSound ==
  /\ gfs_fsck(node)
  /\ {i \in Node : node[i].type # "FREE"} = Reachable(node)
  /\ \A d \in Node :
       LET listed == [i \in 1..node[d].edge_count |-> gfs_edge_get(node[d], i - 1)] IN
       /\ \A i, j \in DOMAIN listed : listed[i].name = listed[j].name => i = j
       /\ \A i \in DOMAIN listed : edge_lookup(node[d], listed[i].name) = listed[i].target
  /\ edge_lookup(node[Root], Dev) = 2 /\ node[2].edge_count = 0

\* Taking ".." away in the text of a path leads where following parents leads:
\* directories have one parent and there are no symbolic links, which is why
\* vfs_path_norm may work on the text alone (vfs_path.c:5).
DotDotLexical == \A path \in RawPath :
  LET norm == Canon[path]
      end == Walk(node, path)
  IN norm.rc = "OK" /\ end.rc = "OK" => gfs_resolve(node, norm.out) = end
=============================================================================
