---------------------------- MODULE SPSCVarQueue -----------------------------
(***************************************************************************)
(* SPSCVarQueueOPT: the per-thread ring of the log system.  The logging    *)
(* thread (the writer) runs alloc, fills the message and pushes it; the    *)
(* polling thread (the reader) runs front, reads the message and pops it.  *)
(* No lock is held: the two meet in the size words of blk and in read_idx, *)
(* so each load or store of those is a step of its own.  Stores of one     *)
(* thread become visible in program order (the code's plain and volatile   *)
(* accesses on a TSO machine, kept in order by the build).                 *)
(***************************************************************************)
EXTENDS Integers, Sequences

CONSTANTS BLK_CNT,  \* number of blocks of the ring
          Sizes,    \* payload sizes, in bytes, that are ever logged
          MaxMsgs,  \* bound: messages ever allocated
          Builds    \* the values of HANA_LOG_BLOCK that builds are made with

ASSUME BlkCntAssumption == BLK_CNT \in Nat \ {0}
ASSUME SizesAssumption == Sizes \subseteq Nat
ASSUME BoundsAssumption == MaxMsgs \in Nat /\ Builds \subseteq BOOLEAN

HeaderBytes == 8    \* sizeof(MsgHeader), also the size of one block
Junk == -1          \* what a size word holds once payload was written over it

VARIABLES
    blk,            \* the size word of every block
    data,           \* which message last wrote its bytes there (0: none)
    write_idx, free_write_cnt,       \* the writer's own fields
    read_idx,                        \* the reader's field, read by the writer
    wpc, req, cache, ret,            \* writer: step, alloc's argument, locals
    rpc,                             \* reader: step
    block,          \* HANA_LOG_BLOCK: retry a failed alloc instead of dropping
    msgs,           \* history: place and payload size of every allocated message
    popped,         \* history: how many of them were popped
    mark            \* history: where the writer last left a wrap mark

writerVars == <<write_idx, free_write_cnt, wpc, req, cache, ret, msgs, mark>>
readerVars == <<read_idx, rpc, popped>>
vars == <<blk, data, writerVars, readerVars, block>>

Blocks0 == 0 .. BLK_CNT - 1

\* alloc and pop round a size in bytes up to whole blocks.
Blocks(bytes) == (bytes + HeaderBytes - 1) \div HeaderBytes
Need(size) == Blocks(size + HeaderBytes)

Init ==
    /\ blk = [i \in Blocks0 |-> 0]
    /\ data = [i \in Blocks0 |-> 0]
    /\ write_idx = 0 /\ free_write_cnt = BLK_CNT /\ read_idx = 0
    /\ wpc = "idle" /\ req = 0 /\ cache = 0 /\ ret = 0
    /\ rpc = "front" /\ block \in Builds
    /\ msgs = <<>> /\ popped = 0 /\ mark = 0

-----------------------------------------------------------------------------
(* The writer: alloc, the fill done by vlog, push.                         *)

\* vlog calls alloc; when it returns null it retries only if HANA_LOG_BLOCK.
AfterNull == IF block THEN "alloc" ELSE "idle"

\* The space test: strict, one block is kept for the terminator.
FitsExactly(n, free) == n <= free                  \* variant: no terminator
Fits(n, free) == n < free

Call(s) ==
    /\ wpc = "idle" /\ Len(msgs) < MaxMsgs
    /\ req' = s /\ wpc' = "alloc"
    /\ UNCHANGED <<blk, data, write_idx, free_write_cnt, cache, ret, msgs, mark, readerVars, block>>

EnterAlloc ==
    /\ wpc = "alloc"
    /\ wpc' = IF Fits(Need(req), free_write_cnt) THEN "take" ELSE "load"
    /\ UNCHANGED <<blk, data, write_idx, free_write_cnt, req, cache, ret, msgs, mark, readerVars, block>>

\* The writer may wrap only past a reader that is behind it and off block 0.
WrapsAtZero(r) == r <= write_idx                   \* variant: forgets r # 0
WrapsBehind(r) == r < write_idx /\ r # 0           \* variant: not when drained
MayWrap(r) == r <= write_idx /\ r # 0

\* The room seen for a reader at r: up to the reader, or to the ring's end.
Room(r) == IF r <= write_idx THEN BLK_CNT - write_idx ELSE r - write_idx

\* Stores a 0 size word, which ends the list the reader follows.
LeaveWord(b, i) == b                               \* variant: no store
Terminate(b, i) == [b EXCEPT ![i] = 0]

\* Loads read_idx and recomputes the room; wraps when the tail is too short.
LoadReadIdx ==
    /\ wpc = "load"
    /\ cache' = read_idx
    /\ free_write_cnt' = Room(read_idx)
    /\ wpc' = IF Fits(Need(req), free_write_cnt') THEN "take"
              ELSE IF MayWrap(read_idx) THEN "reset" ELSE AfterNull
    /\ UNCHANGED <<blk, data, write_idx, req, ret, msgs, mark, readerVars, block>>

\* blk[0].size = 0, before the reader is sent there.
ResetFirst ==
    /\ wpc = "reset"
    /\ blk' = Terminate(blk, 0)
    /\ wpc' = "mark"
    /\ UNCHANGED <<data, write_idx, free_write_cnt, req, cache, ret, msgs, mark, readerVars, block>>

\* blk[write_idx].size = 1 sends the reader to block 0.
MarkWrap ==
    /\ wpc = "mark"
    /\ blk' = [blk EXCEPT ![write_idx] = 1]
    /\ mark' = write_idx
    /\ write_idx' = 0
    /\ free_write_cnt' = cache
    /\ wpc' = IF Fits(Need(req), cache) THEN "take" ELSE AfterNull
    /\ UNCHANGED <<data, req, cache, ret, msgs, readerVars, block>>

\* Claims the blocks and terminates the list after them.
Take ==
    /\ wpc = "take"
    /\ ret' = write_idx
    /\ write_idx' = write_idx + Need(req)
    /\ free_write_cnt' = free_write_cnt - Need(req)
    /\ blk' = Terminate(blk, write_idx + Need(req))
    /\ msgs' = Append(msgs, [at |-> write_idx, size |-> req])
    /\ wpc' = "fill"
    /\ UNCHANGED <<data, req, cache, mark, readerVars, block>>

\* vlog writes the log id and the payload; the size word stays untouched.
Fill ==
    /\ wpc = "fill"
    /\ data' = [i \in Blocks0 |-> IF i \in ret .. ret + Need(req) - 1
                                  THEN Len(msgs) ELSE data[i]]
    /\ blk' = [i \in Blocks0 |-> IF i \in ret + 1 .. ret + Need(req) - 1
                                 THEN Junk ELSE blk[i]]
    /\ wpc' = "push"
    /\ UNCHANGED <<write_idx, free_write_cnt, req, cache, ret, msgs, mark, readerVars, block>>

\* push: the size word is the last store, and makes the message visible.
Push ==
    /\ wpc = "push"
    /\ blk' = [blk EXCEPT ![ret] = req + HeaderBytes]
    /\ wpc' = "idle"
    /\ UNCHANGED <<data, write_idx, free_write_cnt, req, cache, ret, msgs, mark, readerVars, block>>

AllocStep == EnterAlloc \/ LoadReadIdx \/ ResetFirst \/ MarkWrap
WriterStep == AllocStep \/ Take \/ Fill \/ Push

-----------------------------------------------------------------------------
(* The reader: front and pop.  front returns null (a stutter here: poll    *)
(* comes back later) when it reads 0.                                      *)

FrontLoad ==
    /\ rpc = "front" /\ blk[read_idx] # 0
    /\ rpc' = IF blk[read_idx] = 1 THEN "wrap" ELSE "have"
    /\ UNCHANGED <<blk, data, writerVars, block, read_idx, popped>>

FrontWrap ==
    /\ rpc = "wrap"
    /\ read_idx' = 0
    /\ rpc' = "first"
    /\ UNCHANGED <<blk, data, writerVars, block, popped>>

FrontFirst ==
    /\ rpc = "first"
    /\ rpc' = IF blk[0] = 0 THEN "front" ELSE "have"
    /\ UNCHANGED <<blk, data, writerVars, block, read_idx, popped>>

\* pop reads the size again and moves past the message.
Pop ==
    /\ rpc = "have"
    /\ read_idx' = read_idx + Blocks(blk[read_idx])
    /\ popped' = popped + 1
    /\ rpc' = "front"
    /\ UNCHANGED <<blk, data, writerVars, block>>

ReaderStep == FrontLoad \/ FrontWrap \/ FrontFirst \/ Pop

Next == (\E s \in Sizes : Call(s)) \/ WriterStep \/ ReaderStep

Spec == Init /\ [][Next]_vars

\* A thread inside vlog keeps running, and somebody keeps polling.
FairSpec == Spec /\ WF_vars(WriterStep) /\ WF_vars(ReaderStep)

-----------------------------------------------------------------------------
(* Properties.                                                             *)

Pushed == IF wpc \in {"fill", "push"} THEN Len(msgs) - 1 ELSE Len(msgs)
End(k) == msgs[k].at + Need(msgs[k].size)
BlocksOf(k) == msgs[k].at .. End(k) - 1

\* Every index stays inside the ring, every size word is a size, 0, 1 or
\* payload bytes, and the counters agree with the history.
TypeInv ==
    /\ blk \in [Blocks0 -> Int]
    /\ data \in [Blocks0 -> Nat]
    /\ write_idx \in Blocks0 /\ read_idx \in Blocks0 /\ ret \in Blocks0
    /\ free_write_cnt \in 0 .. BLK_CNT /\ cache \in Blocks0 /\ mark \in Blocks0
    /\ req \in Nat
    /\ wpc \in {"idle", "alloc", "load", "reset", "mark", "take", "fill", "push"}
    /\ rpc \in {"front", "wrap", "first", "have"}
    /\ msgs \in Seq([at : Blocks0, size : Nat])
    /\ popped \in 0 .. Len(msgs)
    /\ block \in BOOLEAN

\* What front hands to the poller is the oldest unread message, complete: its
\* size word is the pushed one and all its blocks hold that message's bytes.
ReaderHoldsOldest ==
    rpc = "have" =>
        /\ popped < Pushed
        /\ msgs[popped + 1].at = read_idx
        /\ blk[read_idx] = msgs[popped + 1].size + HeaderBytes
        /\ \A i \in BlocksOf(popped + 1) : data[i] = popped + 1

\* alloc never hands out, and the wrap never resets, a block of a message that
\* is pushed and not yet popped.
UnreadIntact ==
    \A k \in popped + 1 .. Pushed :
        /\ blk[msgs[k].at] = msgs[k].size + HeaderBytes
        /\ \A i \in BlocksOf(k) : data[i] = k

\* front returns null only when every pushed message was popped: the reader
\* cannot stop at a stale terminator and strand what comes after it.
NullMeansEmpty ==
    \/ rpc = "front" /\ blk[read_idx] = 0
    \/ rpc = "first" /\ blk[0] = 0
    => popped = Pushed

\* What front hands out is the oldest unread message as vlog wrote it, and null
\* only when there is none.
ReaderFindsOldest == ReaderHoldsOldest /\ NullMeansEmpty

\* Every message a thread pushed is popped in the end, however often the ring
\* wrapped in between.
PushedIsPopped == \A k \in 1 .. MaxMsgs : (Pushed >= k) ~> (popped >= k)

\* A thread inside vlog comes out of it, even when a full ring makes it retry.
VlogReturns == (wpc # "idle") ~> (wpc = "idle")

\* Neither thread is stuck: both of the above.
ThreadsProceed == PushedIsPopped /\ VlogReturns

-----------------------------------------------------------------------------
(* The inductive invariant: where the messages that are not popped lie.    *)
(* Either read_idx <= write_idx, and they fill read_idx .. write_idx - 1,  *)
(* or the writer has wrapped: the older ones (upper) fill read_idx up to   *)
(* the mark and the younger ones (lower) fill 0 .. write_idx - 1.          *)

Straight == read_idx <= write_idx
Alive == popped + 1 .. Len(msgs)
Upper(k) == msgs[k].at >= read_idx

\* Where message k + 1 starts: write_idx when k is the last one.
After(k) == IF k = Len(msgs) THEN write_idx ELSE msgs[k + 1].at

RoomInv ==
    /\ write_idx + free_write_cnt <= (IF Straight THEN BLK_CNT ELSE read_idx)
    /\ wpc = "take" => Need(req) < free_write_cnt
    /\ wpc \in {"reset", "mark"} =>
          /\ Straight /\ 0 < cache /\ cache <= read_idx
          /\ ~Fits(Need(req), BLK_CNT - write_idx)
    /\ wpc \in {"fill", "push"} =>
          /\ Len(msgs) > 0 /\ popped < Len(msgs)
          /\ msgs[Len(msgs)] = [at |-> ret, size |-> req]
          /\ write_idx = ret + Need(req)

PlaceInv ==
    /\ \A k \in Alive :
         /\ msgs[k].at >= 0
         /\ IF Straight THEN Upper(k) /\ End(k) <= write_idx
            ELSE \/ Upper(k) /\ End(k) <= mark
                 \/ End(k) <= write_idx
    /\ \A j, k \in Alive : j < k /\ (Upper(k) \/ ~Upper(j)) =>
         End(j) <= msgs[k].at /\ (Upper(k) => Upper(j))
    /\ \A k \in Alive :
         End(k) = After(k) \/ (~Straight /\ Upper(k) /\ End(k) = mark /\ After(k) = 0)

ReaderInv ==
    /\ read_idx = After(popped) \/ (~Straight /\ read_idx = mark /\ After(popped) = 0)
    /\ rpc = "wrap" => ~Straight /\ read_idx = mark
    /\ rpc = "first" => Straight /\ read_idx = 0
    /\ rpc = "have" => popped < Pushed /\ read_idx = msgs[popped + 1].at

WordInv ==
    /\ blk[write_idx] = 0
    /\ wpc = "mark" => blk[0] = 0
    /\ ~Straight => write_idx < read_idx /\ read_idx <= mark /\ blk[mark] = 1
    /\ wpc \in {"fill", "push"} => blk[ret] = 0
    /\ wpc = "push" => \A i \in ret .. write_idx - 1 : data[i] = Len(msgs)

IInv == TypeInv /\ RoomInv /\ PlaceInv /\ ReaderInv /\ WordInv /\ UnreadIntact
=============================================================================
