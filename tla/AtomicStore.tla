---------------------------- MODULE AtomicStore ----------------------------
(***************************************************************************)
(* What graphfs promises its callers (the header comment of                *)
(* kernel/fs/graphfs_core.c): every mutating call is all-or-nothing, and a *)
(* crash loses nothing that was committed.  content is what a mount would  *)
(* find at this moment.                                                    *)
(***************************************************************************)
CONSTANTS File,    \* the files
          Value,   \* what a file can hold
          Absent,  \* no such file
          Empty    \* a file nothing has been written to

VARIABLE content

StoreInit == content = [f \in File |-> Absent]

Create(f) == /\ content[f] = Absent
             /\ content' = [content EXCEPT ![f] = Empty]

Write(f, v) == /\ content[f] # Absent
               /\ content' = [content EXCEPT ![f] = v]

Unlink(f) == /\ content[f] # Absent
             /\ content' = [content EXCEPT ![f] = Absent]

\* Writing what a file already holds is not a step of the store.
StoreNext == /\ content' # content
             /\ \E f \in File : \/ Create(f) \/ Unlink(f)
                               \/ \E v \in Value : Write(f, v)

\* Nothing else ever changes the store: no crash, no failed call.
StoreSpec == StoreInit /\ [][StoreNext]_content
=============================================================================
