------------------------------- MODULE MCPipe -------------------------------
(* Pipe for TLC: threads are model values. *)
EXTENDS Pipe
=============================================================================
