------------------------------ MODULE MCStreams -----------------------------
(***************************************************************************)
(* Calls that wait for bytes, for TLC: a pipe (Pipe) and the console       *)
(* (Console), side by side.  One of them moves in a behaviour while the    *)
(* other stays in its initial state, where nothing that fairness is about  *)
(* can happen.                                                             *)
(***************************************************************************)
EXTENDS Pipe

CONSTANTS Reader, RingSize, MaxRead, MaxKeys, WireMax, NULL

VARIABLES machine,                                     \* the one that moves
          held, keys, wire, state, ring, ring_head, ring_tail,
          reader, lockq, pc, n, len, unread            \* Console

console == <<held, keys, wire, state, ring, ring_head, ring_tail, reader, lockq, pc, n, len, unread>>

C == INSTANCE Console WITH MaxLen <- MaxRead

ASSUME C!ConsoleAssumption

MCInit ==
  /\ machine \in {"pipe", "console"}
  /\ Init /\ C!Init

MCNext ==
  \/ machine = "pipe" /\ Next /\ UNCHANGED <<machine, console>>
  \/ machine = "console" /\ C!Next /\ UNCHANGED <<machine, vars>>

MCSpec == MCInit /\ [][MCNext]_<<vars, machine, console>> /\ Fairness /\ C!Fairness

-----------------------------------------------------------------------------
(* Properties of the instance                                              *)

\* Whoever reads the console returns once there is input (Console).
ReadReturns == C!ReadReturns
=============================================================================
