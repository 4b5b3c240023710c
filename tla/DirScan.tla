------------------------------ MODULE DirScan -------------------------------
(***************************************************************************)
(* Reading a directory: gfsf_getdents of kernel/fs/vfs.c, while other      *)
(* processes add and remove names.                                         *)
(*                                                                         *)
(* The offset of the open description is a cursor: 0 is ".", 1 is "..",    *)
(* and 2 + i is edge i of the directory at the time of the call.  A call   *)
(* runs under fs_lock, so it is one step; a scan is many calls, and edges  *)
(* move between them.                                                      *)
(***************************************************************************)
EXTENDS Namespace

CONSTANTS RecLen,   \* the size of the record of each name
          BufLens,  \* sizes of the caller's buffer
          MaxOps    \* bound on the changes to the directory

VARIABLES dir,   \* the directory's node
          off,   \* f->off
          ops,   \* changes so far
          due,   \* names that were there when the scan began and are to come
          lost,  \* how many of them failed calls and removals account for
          whole  \* no removal has reordered the edges since the scan began

vars == <<dir, off, ops, due, lost, whole>>

NamesIn(d) == {e.name : e \in UNION {Range(d.edges[b]) : b \in DOMAIN d.edges}}

Init == /\ dir = Rec("NAMESPACE", 1, Root)
        /\ off = 0 /\ ops = 0 /\ due = {} /\ lost = 0 /\ whole = TRUE

\* The record at a position of the cursor.
Entry(idx) == IF idx = 0 THEN Dot ELSE IF idx = 1 THEN DotDot
              ELSE gfs_edge_get(dir, idx - 2).name

\* dirent_emit, again and again: how many records from the cursor on fit.
Fitting(len) ==
  LET last == 2 + dir.edge_count
      used[k \in 0..(last + 2)] == IF k = 0 THEN 0 ELSE used[k - 1] + RecLen[Entry(off + k - 1)]
  IN IF off >= last THEN 0 ELSE Max({k \in 0..(last - off) : used[k] <= len})

\* The names of the next k records.
Passed(k) == {Entry(i) : i \in off..(off + k - 1)}

\* The records are in the caller's buffer and the cursor is behind them.
Returned(k, by) == /\ off' = off + by
                   /\ due' = due \ Passed(k)
                   /\ UNCHANGED <<dir, ops, lost, whole>>

\* An edge or its target cannot be read after k records.  The call returns the
\* error and not the records, and the cursor stays behind them.
Failed(k) == /\ off + k \in 2..(1 + dir.edge_count)
             /\ off' = off + k
             /\ lost' = lost + Cardinality(due \cap Passed(k))
             /\ UNCHANGED <<dir, ops, due, whole>>

\* Faulty: the cursor passes the record that did not fit.
Bug_getdents_skips(len) ==
  Returned(Fitting(len), IF off + Fitting(len) < 2 + dir.edge_count THEN Fitting(len) + 1 ELSE Fitting(len))

\* When not even one record fits, or the directory itself cannot be read, the
\* call fails and moves nothing.
gfsf_getdents(len) == \/ Returned(Fitting(len), Fitting(len))
                      \/ \E k \in 0..Fitting(len) : Failed(k)

\* SEEK_SET: only a rewind begins a scan; elsewhere names may be left out.
gfsf_lseek(pos) == /\ off' = pos
                   /\ due' = IF pos = 0 THEN NamesIn(dir) ELSE {}
                   /\ lost' = 0 /\ whole' = TRUE
                   /\ UNCHANGED <<dir, ops>>

\* gfs_create_at, gfs_link and gfs_rename into the directory.
add(name) == /\ ops < MaxOps /\ ops' = ops + 1
             /\ name \notin NamesIn(dir)
             /\ dir' = edge_add(dir, name, 2)
             /\ UNCHANGED <<off, due, lost, whole>>

\* gfs_unlink, and gfs_rename out of it.  The edges behind the one that is
\* removed move up, one of them past the cursor when it was ahead of that; a
\* chain of several blocks is turned around.
remove(name) == /\ ops < MaxOps /\ ops' = ops + 1
                /\ name \in NamesIn(dir)
                /\ dir' = edge_remove_name(dir, name)
                /\ due' = due \ {name}
                /\ lost' = IF \E i \in 2..(1 + dir.edge_count) : i < off /\ Entry(i) = name
                           THEN lost + 1 ELSE lost
                /\ whole' = (whole /\ Len(dir'.edges) <= 1)
                /\ UNCHANGED off

Next == \/ \E len \in BufLens : gfsf_getdents(len)
        \/ \E pos \in {0, 1, 3} : gfsf_lseek(pos)
        \/ \E name \in Name : add(name) \/ remove(name)

Spec == Init /\ [][Next]_vars

-----------------------------------------------------------------------------
(* Properties                                                              *)

\* The names that the scan will not return any more.
Missed == {name \in due : \A i \in off..(1 + dir.edge_count) : Entry(i) # name}

\* A scan misses nothing without a reason.  Every name that was there when it
\* began and has not been returned still lies ahead of the cursor, whatever
\* names are added meanwhile and however small the buffers, except for at most
\* one for each name that was removed behind the cursor and the records of
\* calls that ended with an I/O error.  (When a removal leaves a chain of
\* several blocks, turned around, any name can be missed.)
NothingMissed == whole => Cardinality(Missed) <= lost
=============================================================================
