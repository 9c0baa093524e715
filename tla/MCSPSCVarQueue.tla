--------------------------- MODULE MCSPSCVarQueue ----------------------------
(***************************************************************************)
(* The ring read as an abstract queue.  The queue is what a walk through   *)
(* the ring finds: from read_idx on, each size word gives the next one, 1  *)
(* leads to block 0 and 0 ends the list.  It is computed from the blocks   *)
(* alone, never from the history variables.                                *)
(***************************************************************************)
EXTENDS SPSCVarQueue

\* A walk that meets more blocks than the ring has is cut: it went in circles.
Walk[left \in 0 .. BLK_CNT + 1, i \in Int] ==
    IF left = 0 \/ i \notin Blocks0 THEN <<"lost">>
    ELSE IF blk[i] = 0 THEN <<>>
    ELSE IF blk[i] = 1 THEN Walk[left - 1, 0]
    ELSE <<[id |-> data[i], size |-> blk[i] - HeaderBytes]>>
            \o Walk[left - 1, i + Blocks(blk[i])]

Unread == Walk[BLK_CNT + 1, read_idx]

Fifo == INSTANCE FifoQueue WITH
            Msgs  <- [id : 1 .. MaxMsgs, size : Sizes],
            NoMsg <- [id |-> 0, size |-> 0],
            queue <- Unread,
            held  <- IF rpc = "have" THEN Head(Unread) ELSE [id |-> 0, size |-> 0]

\* The ring with its two threads implements the queue, message for message,
\* and keeps handing messages out as long as it is polled.
ImplementsFifo == Fifo!FifoSpec
=============================================================================
