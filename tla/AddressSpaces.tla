---------------------------- MODULE AddressSpaces ---------------------------
(***************************************************************************)
(* What virtual memory promises: every process has pages of its own.       *)
(* Starting a program replaces them by the program's, fork copies them,    *)
(* and a store changes bytes of writable pages of that process.  A call    *)
(* that fails for lack of memory changes nothing.                          *)
(***************************************************************************)
EXTENDS Integers

CONSTANTS Proc,
          View,     \* what a program's pages are when it starts
          Value,    \* bytes that can be written
          PageSize,
          Buffer,   \* the ranges they are written to
          Nothing   \* no address space

VARIABLE view

Init == view = [p \in Proc |-> Nothing]

Start(p, v) == view' = [view EXCEPT ![p] = v]

Fork(p, q) == /\ view[p] # Nothing /\ view[q] = Nothing
              /\ view' = [view EXCEPT ![q] = view[p]]

\* The bytes of a range of writable pages change.
Store(p, start, len, byte) ==
  LET in(a) == start <= a /\ a < start + len IN
  /\ view[p] # Nothing
  /\ \A a \in start..(start + len - 1) :
       a \div PageSize \in DOMAIN view[p] /\ view[p][a \div PageSize].w
  /\ view' = [view EXCEPT ![p] = [page \in DOMAIN view[p] |->
       [view[p][page] EXCEPT !.bytes = [b \in DOMAIN @ |->
          IF in(page * PageSize + b - 1) THEN byte ELSE @[b]]]]]

Exit(p) == view' = [view EXCEPT ![p] = Nothing]

Next == \/ \E p \in Proc, v \in View : Start(p, v)
        \/ \E p, q \in Proc : Fork(p, q)
        \/ \E p \in Proc, byte \in Value, x \in Buffer : Store(p, x[1], x[2], byte)
        \/ \E p \in Proc : Exit(p)

Spec == Init /\ [][Next]_view
=============================================================================
