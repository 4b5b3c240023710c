-------------------------------- MODULE Virtq --------------------------------
(***************************************************************************)
(* The split virtqueue of kernel/drivers/virtq_core.c.  A queue is a       *)
(* record vq: the descriptor table, the available and the used ring with   *)
(* their free-running indices, and the driver's private fields.  A buffer  *)
(* stands for an address and a length; the flags of a descriptor are a set.*)
(* An operation that returns a value and changes the queue is a record     *)
(* [ret, vq].                                                              *)
(***************************************************************************)
EXTENDS Integers, Sequences

CONSTANTS QSize,   \* entries of the queue, a power of two
          IdxMod   \* indices count modulo this: 2^16 in the code

ASSUME VirtqAssumption == QSize \in Nat \ {0, 1} /\ IdxMod \in Nat /\ IdxMod % QSize = 0
                          /\ IdxMod > QSize

Desc == 0..(QSize - 1)

NoBuf == "none"

virtq_init ==
  [desc |-> [i \in Desc |-> [buf |-> NoBuf, flags |-> IF i + 1 < QSize THEN {"NEXT"} ELSE {},
                             next |-> IF i + 1 < QSize THEN i + 1 ELSE 0]],
   free_head |-> 0, num_free |-> QSize, last_used |-> 0,
   avail |-> [idx |-> 0, ring |-> [i \in Desc |-> 0]],
   used |-> [idx |-> 0, ring |-> [i \in Desc |-> 0]]]

\* The descriptor i links behind d.
Link(vq, d, i) ==
  LET at[k \in 0..i] == IF k = 0 THEN d ELSE vq.desc[at[k - 1]].next
  IN at[i]

\* Queues a chain of the buffers sgs, the first out of them for the device to
\* read and the others for it to write, on descriptors from the free list.
virtq_add(vq, sgs, out) ==
  LET total == Len(sgs)
      head == vq.free_head
      idx == [k \in 1..total |-> Link(vq, head, k - 1)]
      place(i) == CHOOSE k \in 1..total : idx[k] = i
  IN IF total = 0 \/ total > vq.num_free THEN [ret |-> -1, vq |-> vq]
     ELSE [ret |-> head,
           vq |-> [vq EXCEPT
             !.desc = [i \in Desc |->
                         IF \A k \in 1..total : idx[k] # i THEN @[i]
                         ELSE [@[i] EXCEPT !.buf = sgs[place(i)],
                                           !.flags = {x \in {"WRITE", "NEXT"} :
                                                        IF x = "WRITE" THEN place(i) > out
                                                        ELSE place(i) < total}]],
             !.free_head = Link(vq, head, total),
             !.num_free = @ - total,
             !.avail = [ring |-> [@.ring EXCEPT ![vq.avail.idx % QSize] = head],
                        idx |-> (@.idx + 1) % IdxMod]]]

\* The descriptors of the chain that starts at d, as the NEXT flags give it.
Chain(vq, d) ==
  LET n == CHOOSE k \in 1..QSize :
             /\ k = QSize \/ "NEXT" \notin vq.desc[Link(vq, d, k - 1)].flags
             /\ \A j \in 1..(k - 1) : "NEXT" \in vq.desc[Link(vq, d, j - 1)].flags
  IN [k \in 1..n |-> Link(vq, d, k - 1)]

\* Faulty: counts one descriptor whatever the length of the chain.
Bug_recycle_counts_one(vq) ==
  LET id == vq.used.ring[vq.last_used % QSize]
      chain == Chain(vq, id)
      tail == chain[Len(chain)]
  IN IF vq.last_used = vq.used.idx THEN [ret |-> -1, vq |-> vq]
     ELSE [ret |-> id,
           vq |-> [vq EXCEPT !.last_used = (@ + 1) % IdxMod,
                             !.desc = [@ EXCEPT ![tail].flags = {"NEXT"}, ![tail].next = vq.free_head],
                             !.free_head = id,
                             !.num_free = @ + 1]]

\* Consumes a completion and puts its chain at the front of the free list.
\* The devices modelled return only ids they were given.
virtq_take_used(vq) ==
  LET id == vq.used.ring[vq.last_used % QSize]
      chain == Chain(vq, id)
      tail == chain[Len(chain)]
  IN IF vq.last_used = vq.used.idx THEN [ret |-> -1, vq |-> vq]
     ELSE [ret |-> id,
           vq |-> [vq EXCEPT !.last_used = (@ + 1) % IdxMod,
                             !.desc = [@ EXCEPT ![tail].flags = {"NEXT"}, ![tail].next = vq.free_head],
                             !.free_head = id,
                             !.num_free = @ + Len(chain)]]

\* The device's side: it returns a chain through the used ring.
device_used(vq, id) ==
  [vq EXCEPT !.used = [ring |-> [@.ring EXCEPT ![vq.used.idx % QSize] = id],
                       idx |-> (@.idx + 1) % IdxMod]]
=============================================================================
