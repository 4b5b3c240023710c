--------------------------- MODULE MCDescriptors ----------------------------
(***************************************************************************)
(* What descriptors lead to, for TLC: open files and the namespace (Vfs),  *)
(* a scan of one directory (DirScan), a socket pair (Socket) and the       *)
(* console (Console), side by side.  One of them moves in a behaviour      *)
(* while the others stay in an initial state.                              *)
(*                                                                         *)
(* Two processes, two descriptors each, three descriptions; a graph of     *)
(* five nodes with two edges to a block; rings of two bytes.               *)
(***************************************************************************)
EXTENDS Vfs

CONSTANTS Thread, reader0, reader1, None, MaxOps, Reader, RingSize, MaxLen, MaxKeys, WireMax, NULL

VARIABLES machine,                     \* the one that moves
          dir, off, ops, due, lost, whole,  \* DirScan
          exists, core, read_wait, write_wait, end_open, ends, call, sent, received, eof,  \* Socket
          held, keys, wire, state, ring, ring_head, ring_tail, reader, lockq, pc, n, len, unread  \* Console

scan == <<dir, off, ops, due, lost, whole>>
pair == <<exists, core, read_wait, write_wait, end_open, ends, call, sent, received, eof>>
tty == <<held, keys, wire, state, ring, ring_head, ring_tail, reader, lockq, pc, n, len, unread>>

-----------------------------------------------------------------------------
(* Instances                                                               *)

Paths == {<<"a">>, <<"b">>, <<Dot, "a", "b">>, <<"b", DotDot, Dev, Console>>}
RawPaths == {<<>>, <<DotDot>>, <<"a", DotDot, "b">>, <<"a", "b", DotDot>>, <<"a", "b", DotDot, DotDot, "b">>}
OldPaths == {<<"a">>, <<"a", "b">>}
NewPaths == {<<"a">>, <<"b">>, <<"a", "b">>, <<"a", "b", "a">>, <<"a", TooLong>>}
OpenFlags == {{}, {"WRITE", "CREAT"}}

\* Many nodes or many open files, and everything between.  Four bytes through
\* a socket pair: twice around a ring, or once in each direction.
Budget == /\ Cardinality({i \in Node : node[i].type # "FREE"} \ {Root, 2})
               + Cardinality(File \ FreeFiles) <= 3
          /\ MapThenSumSet(LAMBDA x : sent[x], DOMAIN sent) <= 4

Interchangeable == Permutations(Proc)

D == INSTANCE DirScan WITH
       RecLen <- [name \in Name \cup {Dot, DotDot} |-> IF name = Console THEN 2 ELSE 1],
       BufLens <- {1, 3}

\* A process for each end, which reads from it and writes to it, and a third
\* that writes to end 0 as well.
S == INSTANCE Socket WITH Cap <- 2, MaxBytes <- 2, fd <- ends,
                          MayRead <- (0 :> {reader0} @@ 1 :> {reader1}),
                          MayWrite <- (0 :> Thread \ {reader1} @@ 1 :> {reader1})

C == INSTANCE Console

ASSUME C!ConsoleAssumption /\ S!SocketAssumption

-----------------------------------------------------------------------------
(* Side by side                                                            *)

MCInit ==
  /\ machine \in {"vfs", "scan", "socket", "console"}
  /\ Init /\ D!Init /\ S!Init /\ C!Init

MCNext ==
  \/ machine = "vfs" /\ Next /\ UNCHANGED <<machine, scan, pair, tty>>
  \/ machine = "scan" /\ D!Next /\ UNCHANGED <<machine, vars, pair, tty>>
  \/ machine = "socket" /\ S!Next /\ UNCHANGED <<machine, vars, scan, tty>>
  \/ machine = "console" /\ C!Next /\ UNCHANGED <<machine, vars, scan, pair>>

MCSpec == MCInit /\ [][MCNext]_<<vars, machine, scan, pair, tty>>

-----------------------------------------------------------------------------
(* Properties of the instances                                             *)

\* A scan of a directory misses no more names than removals and failed calls
\* account for (DirScan).
NothingMissed == machine = "scan" => D!NothingMissed

\* A socket pair is two byte streams, freed with its second end, and with one
\* reader for each end nobody is blocked on it for nothing (Socket).
PairSound == machine = "socket" => S!PairSound

\* The ring holds the newest characters that were typed and not read (Console).
InputExact == machine = "console" => C!InputExact

\* A blocked reader of the console has nothing to read and will be found by
\* the interrupt handler (Console).
ReaderNotMissed == machine = "console" => C!ReaderNotMissed
=============================================================================
