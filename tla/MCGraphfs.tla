------------------------------ MODULE MCGraphfs -----------------------------
(***************************************************************************)
(* graphfs for TLC: transactions and crashes (GfsTxn), and one file's data *)
(* (FileData), side by side.  FileData takes the transactions of GfsTxn as *)
(* all-or-nothing, so one of them moves in a behaviour while the other     *)
(* stays in an initial state.                                              *)
(*                                                                         *)
(* Files have blocks of two bytes, at most three of them in two extents,   *)
(* on disks that are empty, fragmented or nearly full.                     *)
(***************************************************************************)
EXTENDS MCGfsTxn

CONSTANT MaxCommits  \* bound on the transactions of FileData

VARIABLES machine,                              \* the one that moves
          fs, off, append, got, other, commits  \* FileData

file == <<fs, off, append, got, other, commits>>

F == INSTANCE FileData WITH BlockSize <- 2, MaxBlocks <- 3, Inline <- 2, NBlocks <- 8,
                            Others <- {{}, {4, 6}, {5, 6, 7, 8}}, Data <- {<<1>>, <<2, 1, 2>>},
                            ReadLens <- {3}, Seeks <- {-1, 0, 3}, MaxGen <- MaxCommits, gen <- commits

ASSUME F!FileDataAssumption

MCInit ==
  /\ machine \in {"transactions", "file"}
  /\ machine = "file" \/ (machine # "file" /\ other = {} /\ append = FALSE)
  /\ Init /\ F!Init

MCNext ==
  \/ machine = "transactions" /\ Next /\ UNCHANGED <<machine, file>>
  \/ machine = "file" /\ F!Next /\ UNCHANGED <<machine, vars>>

MCSpec == MCInit /\ [][MCNext]_<<vars, machine, file>>

-----------------------------------------------------------------------------
(* Properties of the instance                                              *)

\* The description of a file's blocks is consistent with the bitmap (FileData).
FileSound == machine = "file" => F!FileSound

\* A file can be emptied however full the disk is (FileData).
CanEmpty == machine = "file" => F!CanEmpty

\* Through extents, blocks and copies a file is an array of bytes (FileData).
IsByteArray == F!IsByteArray
=============================================================================
