----------------------------- MODULE Namespace ------------------------------
(***************************************************************************)
(* Names in graphfs (kernel/fs/graphfs_core.c) and path normalisation      *)
(* (kernel/fs/vfs_path.c): node records, directory edges in chains of      *)
(* blocks, and the operations that change them.                            *)
(*                                                                         *)
(* A graph is a function from node ids to records.  An operation is a      *)
(* function from a graph to [rc, n]: its return code and the graph it      *)
(* commits, the same graph when it fails (GfsTxn shows that every          *)
(* operation is all-or-nothing).  Running out of blocks and I/O errors are *)
(* therefore failures that leave the graph as it was; running out of nodes *)
(* is modelled.  Only NAME edges exist: nothing in the kernel adds another *)
(* kind.                                                                   *)
(***************************************************************************)
EXTENDS Integers, Sequences, SequencesExt, FiniteSets, FiniteSetsExt

CONSTANTS Name,           \* path components that are names
          Dot, DotDot,    \* the components "." and ".."
          TooLong,        \* a component longer than VFS_NAME_MAX
          Dev,            \* the name of the devfs mount point
          NodeCount,      \* fs->node_count; node 0 is never used
          EdgesPerBlock,  \* GFS_EDGES_PER_BLOCK
          PathMax         \* components a canonical path has room for

ASSUME NamespaceAssumption ==
  /\ Dev \in Name /\ NodeCount \in Nat /\ NodeCount > 2
  /\ EdgesPerBlock \in Nat \ {0} /\ PathMax \in Nat

Root == 1
Node == 1..(NodeCount - 1)

\* A disk_node.  edges is its chain of edge blocks, head first.
Rec(type, nlink, parent) ==
  [type |-> type, nlink |-> nlink, parent |-> parent, edges |-> <<>>, edge_count |-> 0]

FREE == Rec("FREE", 0, 0)

Edge(name, target) == [name |-> name, target |-> target]

-----------------------------------------------------------------------------
(* Directory edges                                                         *)

\* The target of the edge of that name (no directory has two: TreeSound), or
\* 0 for GFS_ENOENT.
edge_lookup(d, name) ==
  LET found == {e \in UNION {Range(d.edges[b]) : b \in DOMAIN d.edges} : e.name = name}
  IN IF found = {} THEN 0 ELSE (CHOOSE e \in found : TRUE).target

\* The head block takes the edge, or a fresh head block is chained to it.
edge_add(d, name, target) ==
  LET e == Edge(name, target) IN
  IF d.edges # <<>> /\ Len(d.edges[1]) < EdgesPerBlock
  THEN [d EXCEPT !.edges[1] = Append(@, e), !.edge_count = @ + 1]
  ELSE [d EXCEPT !.edges = <<<<e>>>> \o @, !.edge_count = @ + 1]

\* What the image builder leaves: a root that holds an empty directory for
\* the devfs mount point.
EmptyTree == [i \in Node |->
  IF i = Root THEN edge_add(Rec("NAMESPACE", 0, Root), Dev, 2)
  ELSE IF i = 2 THEN Rec("NAMESPACE", 1, Root) ELSE FREE]

\* The chain is copied without the first edge of that name.  Each block that
\* is full is chained behind the next one, so the blocks change their order.
edge_remove_name(d, name) ==
  LET es    == FlattenSeq(d.edges)
      kept  == RemoveAt(es, Min({i \in DOMAIN es : es[i].name = name}))
      count == Len(kept)
      nb    == (count + EdgesPerBlock - 1) \div EdgesPerBlock
      block(b) == SubSeq(kept, (b - 1) * EdgesPerBlock + 1,
                         Min({b * EdgesPerBlock, count}))
  IN [d EXCEPT !.edges = [k \in 1..nb |-> block(nb + 1 - k)], !.edge_count = count]

\* The edge of an index: the block it falls into, and its place there.
gfs_edge_get(d, index) ==
  LET before(b) == Len(FlattenSeq(SubSeq(d.edges, 1, b - 1)))
      b == CHOOSE b \in DOMAIN d.edges :
             before(b) <= index /\ index < before(b) + Len(d.edges[b])
  IN d.edges[b][index - before(b) + 1]

-----------------------------------------------------------------------------
(* Paths                                                                   *)

\* Faulty: ".." is skipped like ".".
Bug_norm_dotdot_stays(in) ==
  FoldLeft(LAMBDA r, c :
      IF r.rc # "OK" \/ c = Dot \/ c = DotDot THEN r
      ELSE IF c = TooLong \/ Len(r.out) = PathMax THEN [r EXCEPT !.rc = "ENAMETOOLONG"]
      ELSE [r EXCEPT !.out = Append(@, c)],
    [rc |-> "OK", out |-> <<>>], in)

\* "." stays, ".." drops the last component, and a name that does not fit is
\* an error even if a later ".." would have dropped it.
vfs_path_norm(in) ==
  FoldLeft(LAMBDA r, c :
      IF r.rc # "OK" \/ c = Dot THEN r
      ELSE IF c = DotDot THEN [r EXCEPT !.out = IF @ = <<>> THEN @ ELSE Front(@)]
      ELSE IF c = TooLong \/ Len(r.out) = PathMax THEN [r EXCEPT !.rc = "ENAMETOOLONG"]
      ELSE [r EXCEPT !.out = Append(@, c)],
    [rc |-> "OK", out |-> <<>>], in)

gfs_lookup(n, dir, name) ==
  IF n[dir].type # "NAMESPACE" THEN [rc |-> "ENOTDIR", id |-> 0]
  ELSE LET t == edge_lookup(n[dir], name)
       IN [rc |-> IF t = 0 THEN "ENOENT" ELSE "OK", id |-> t]

gfs_resolve(n, path) ==
  LET at[k \in 0..Len(path)] ==
        IF k = 0 THEN [rc |-> "OK", id |-> Root]
        ELSE LET r == at[k - 1] IN IF r.rc # "OK" THEN r ELSE gfs_lookup(n, r.id, path[k])
  IN at[Len(path)]

-----------------------------------------------------------------------------
(* Operations                                                              *)

Fail(rc, n) == [rc |-> rc, n |-> n]
Commit(n) == [rc |-> "OK", n |-> n]

\* The lowest free id, or 0.
node_find_free(n) ==
  LET free == {i \in Node : n[i].type = "FREE"} IN IF free = {} THEN 0 ELSE Min(free)

\* The node is born linked, so that no committed state holds an orphan.
gfs_create_at(n, dir, name, type) ==
  LET id == node_find_free(n) IN
  IF n[dir].type # "NAMESPACE" THEN Fail("ENOTDIR", n)
  ELSE IF edge_lookup(n[dir], name) # 0 THEN Fail("EEXIST", n)
  ELSE IF id = 0 THEN Fail("ENOSPC", n)
  ELSE Commit([n EXCEPT
         ![id] = Rec(type, 1, IF type = "NAMESPACE" THEN dir ELSE 0),
         ![dir] = edge_add(@, name, id)])

gfs_link(n, dir, name, target) ==
  LET t == n[target] IN
  IF t.type = "FREE" THEN Fail("ENOENT", n)
  ELSE IF n[dir].type # "NAMESPACE" THEN Fail("ENOTDIR", n)
  ELSE IF edge_lookup(n[dir], name) # 0 THEN Fail("EEXIST", n)
  ELSE IF t.type = "NAMESPACE" /\ t.nlink >= 1 THEN Fail("EMANYPARENTS", n)
  ELSE LET linked == [n EXCEPT
             ![target].nlink = @ + 1,
             ![target].parent = IF t.type = "NAMESPACE" THEN dir ELSE @]
       IN Commit([linked EXCEPT ![dir] = edge_add(n[dir], name, target)])

\* A record that has lost a name: FREE when that was the last one.
Unnamed(t) == IF t.nlink = 1 THEN FREE ELSE [t EXCEPT !.nlink = @ - 1]

gfs_unlink(n, dir, name) ==
  LET target == edge_lookup(n[dir], name)
      t == n[target]
  IN
  IF n[dir].type # "NAMESPACE" THEN Fail("ENOTDIR", n)
  ELSE IF target = 0 THEN Fail("ENOENT", n)
  ELSE IF t.type = "NAMESPACE" /\ t.edge_count > 0 THEN Fail("ENOTEMPTY", n)
  ELSE Commit([n EXCEPT ![dir] = edge_remove_name(n[dir], name), ![target] = Unnamed(t)])

\* Faulty: only the directory itself is looked at.
Bug_Under_itself(n, dir, src) == dir = src

\* Does the chain of parents from a directory to the root pass through src?
\* k bounds the walk by the number of nodes.
Under(n, dir, src) ==
  LET walk[k \in 0..NodeCount] == IF k = 0 THEN dir
                                  ELSE IF walk[k - 1] = Root THEN Root
                                  ELSE n[walk[k - 1]].parent
  IN \E k \in 0..NodeCount : walk[k] = src /\ src # Root

\* The node records are written in the order of the code: the replaced node,
\* the moved directory, the old directory, the new one.  When both names are
\* in one directory its record plays both parts.
gfs_rename(n, olddir, oldname, newdir, newname) ==
  LET same == olddir = newdir
      src == edge_lookup(n[olddir], oldname)
      dst == edge_lookup(n[newdir], newname)
      isdir(i) == n[i].type = "NAMESPACE"
      od == edge_remove_name(n[olddir], oldname)
      nd0 == IF same THEN od ELSE n[newdir]
      nd1 == IF dst # 0 THEN edge_remove_name(nd0, newname) ELSE nd0
      nd == edge_add(nd1, newname, src)
      n1 == IF dst # 0 THEN [n EXCEPT ![dst] = Unnamed(@)] ELSE n
      n2 == IF isdir(src) THEN [n1 EXCEPT ![src] = [n[src] EXCEPT !.parent = newdir]] ELSE n1
  IN
  IF ~isdir(olddir) \/ ~isdir(newdir) THEN Fail("ENOTDIR", n)
  ELSE IF src = 0 THEN Fail("ENOENT", n)
  ELSE IF isdir(src) /\ ~same /\ Under(n, newdir, src) THEN Fail("EINVAL", n)
  ELSE IF dst = src THEN Commit(n)
  ELSE IF dst # 0 /\ isdir(src) /\ ~isdir(dst) THEN Fail("ENOTDIR", n)
  ELSE IF dst # 0 /\ isdir(src) /\ n[dst].edge_count > 0 THEN Fail("ENOTEMPTY", n)
  ELSE IF dst # 0 /\ ~isdir(src) /\ isdir(dst) THEN Fail("EISDIR", n)
  ELSE Commit(IF same THEN [n2 EXCEPT ![olddir] = nd]
              ELSE [n2 EXCEPT ![olddir] = od, ![newdir] = nd])

-----------------------------------------------------------------------------
(* What a graph must satisfy                                               *)

\* The places of a directory's edges, and those that name t.
Places(d) == UNION {{b} \X DOMAIN d.edges[b] : b \in DOMAIN d.edges}

\* gfs_fsck's checks of node records and edges.
gfs_fsck(n) ==
  LET used == {i \in Node : n[i].type # "FREE"}
      dirs == {i \in used : n[i].edges # <<>>}
      edges == UNION {{[from |-> d, at |-> x, to |-> n[d].edges[x[1]][x[2]].target] : x \in Places(n[d])} : d \in dirs}
      nlink(t) == Cardinality({e \in edges : e.to = t})
  IN /\ \A d \in used : n[d].edge_count = Cardinality({e \in edges : e.from = d})
     /\ \A t \in Node : nlink(t) = IF t \in used THEN n[t].nlink ELSE 0
     /\ n[Root].parent = Root
     /\ \A t \in used \ {Root} : n[t].type = "NAMESPACE" =>
          nlink(t) = 1 /\ n[t].parent \in used /\ \E e \in edges : e.from = n[t].parent /\ e.to = t

\* Everything a walk from the root can reach.
Reachable(n) ==
  LET dirs == {d \in Node : n[d].edges # <<>>}
      edges == UNION {{<<d, n[d].edges[x[1]][x[2]].target>> : x \in Places(n[d])} : d \in dirs}
      reach[k \in 0..NodeCount] ==
        IF k = 0 THEN {Root}
        ELSE LET s == reach[k - 1] IN s \cup {e[2] : e \in {e \in edges : e[1] \in s}}
  IN reach[NodeCount]

\* A walk component by component, ".." by the parent the directory records.
Walk(n, path) ==
  LET at[k \in 0..Len(path)] ==
        IF k = 0 THEN [rc |-> "OK", id |-> Root]
        ELSE LET r == at[k - 1] IN
             IF r.rc # "OK" THEN r
             ELSE IF n[r.id].type # "NAMESPACE" THEN [rc |-> "ENOTDIR", id |-> 0]
             ELSE IF path[k] = Dot THEN r
             ELSE IF path[k] = DotDot THEN [r EXCEPT !.id = n[r.id].parent]
             ELSE gfs_lookup(n, r.id, path[k])
  IN at[Len(path)]
=============================================================================
