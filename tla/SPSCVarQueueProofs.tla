------------------------- MODULE SPSCVarQueueProofs --------------------------
(***************************************************************************)
(* The ring, for any number of blocks, any message sizes, any number of    *)
(* messages and both builds: front hands out the oldest unread message as  *)
(* it was written, and null only when there is none.                       *)
(***************************************************************************)
EXTENDS SPSCVarQueue, SequenceTheorems, TLAPS

\* A message takes at least its header's block, and pop computes from the size
\* word the blocks that alloc took.
LEMMA NeedFacts ==
    /\ \A s \in Nat : Need(s) \in Nat /\ Need(s) >= 1
    /\ \A s \in Nat : Blocks(s + HeaderBytes) = Need(s)
    /\ \A s \in Nat : s + HeaderBytes \in Nat /\ s + HeaderBytes >= 8
BY Z3 DEF Need, Blocks, HeaderBytes

Msg == [at : Blocks0, size : Nat]

\* What TypeInv says of the messages.
LEMMA MsgFacts ==
    ASSUME TypeInv
    PROVE  /\ Len(msgs) \in Nat /\ popped \in Nat /\ popped <= Len(msgs)
           /\ \A k \in 1 .. Len(msgs) :
                /\ msgs[k] \in Msg
                /\ msgs[k].at \in Nat /\ msgs[k].size \in Nat
                /\ Need(msgs[k].size) \in Nat /\ Need(msgs[k].size) >= 1
                /\ End(k) \in Nat /\ End(k) > msgs[k].at
           /\ write_idx \in Nat /\ read_idx \in Nat /\ mark \in Nat /\ free_write_cnt \in Nat
           /\ cache \in Nat /\ ret \in Nat
<1>1. /\ Len(msgs) \in Nat /\ popped \in Nat /\ popped <= Len(msgs)
      /\ \A k \in 1 .. Len(msgs) : msgs[k] \in Msg
  <2>1. msgs \in Seq(Msg) /\ popped \in 0 .. Len(msgs)
    BY DEF TypeInv, Msg
  <2>2. Len(msgs) \in Nat /\ \A k \in 1 .. Len(msgs) : msgs[k] \in Msg
    BY <2>1
  <2> QED
    BY <2>1, <2>2
<1>2. Blocks0 \subseteq Nat
  BY BlkCntAssumption DEF Blocks0
<1>3. \A m \in Msg : m.at \in Nat /\ m.size \in Nat
  BY <1>2 DEF Msg
<1>4. \A k \in 1 .. Len(msgs) : Need(msgs[k].size) \in Nat /\ Need(msgs[k].size) >= 1
  BY <1>1, <1>3, NeedFacts
<1>5. \A k \in 1 .. Len(msgs) : End(k) \in Nat /\ End(k) > msgs[k].at
  BY <1>1, <1>3, <1>4 DEF End
<1>6. /\ write_idx \in Nat /\ read_idx \in Nat /\ mark \in Nat /\ free_write_cnt \in Nat
      /\ cache \in Nat /\ ret \in Nat
  <2>1. 0 .. BLK_CNT \subseteq Nat
    BY BlkCntAssumption
  <2> QED
    BY <1>2, <2>1 DEF TypeInv
<1> QED
  BY <1>1, <1>3, <1>4, <1>5, <1>6

-----------------------------------------------------------------------------
(* The start.                                                              *)

\* A new queue satisfies the invariant.
LEMMA InitIInv == Init => IInv
<1> SUFFICES ASSUME Init PROVE IInv
  OBVIOUS
<1>1. Len(msgs) = 0 /\ msgs = <<>>
  BY DEF Init
<1>2. 0 \in Blocks0 /\ Blocks0 \subseteq Nat
  BY BlkCntAssumption DEF Blocks0
<1>3. TypeInv
  <2>1. msgs \in Seq([at : Blocks0, size : Nat])
    BY <1>1
  <2>2. blk \in [Blocks0 -> Int] /\ data \in [Blocks0 -> Nat]
    BY DEF Init
  <2> QED
    BY <1>1, <1>2, <2>1, <2>2, BlkCntAssumption, BoundsAssumption DEF Init, TypeInv
<1>4. RoomInv
  BY BlkCntAssumption DEF Init, RoomInv, Straight
<1>5. Alive = {}
  BY <1>1 DEF Init, Alive
<1>6. PlaceInv
  BY <1>5 DEF PlaceInv
<1>7. ReaderInv
  BY <1>1 DEF Init, ReaderInv, After
<1>8. WordInv
  BY <1>2 DEF Init, WordInv, Straight
<1>9. UnreadIntact
  <2>1. popped + 1 .. Pushed = {}
    BY <1>1 DEF Init, Pushed
  <2> QED
    BY <2>1 DEF UnreadIntact
<1> QED
  BY <1>3, <1>4, <1>6, <1>7, <1>8, <1>9 DEF IInv

-----------------------------------------------------------------------------
(* What most steps leave alone.                                            *)

Places == <<read_idx, write_idx, msgs, mark, popped>>

\* The places of the messages stay when nothing that tells them changes.
LEMMA PlaceSame ==
    ASSUME PlaceInv, UNCHANGED Places
    PROVE  PlaceInv'
BY DEF Places, PlaceInv, Straight, Alive, Upper, After, End

\* The unread messages stay intact when neither they nor the blocks change.
LEMMA UnreadSame ==
    ASSUME UnreadIntact, UNCHANGED <<Places, blk, data>>, Pushed' = Pushed
    PROVE  UnreadIntact'
BY DEF Places, UnreadIntact, BlocksOf, End

\* Before a message is taken, and after it is pushed, all of them are pushed.
LEMMA PushedFacts ==
    ASSUME TypeInv
    PROVE  /\ Pushed \in Int /\ Pushed <= Len(msgs)
           /\ wpc \notin {"fill", "push"} => Pushed = Len(msgs)
           /\ wpc \in {"fill", "push"} => Pushed = Len(msgs) - 1
<1>1. Len(msgs) \in Nat
  BY DEF TypeInv
<1> QED
  BY <1>1 DEF Pushed

\* A stored header is a number.
LEMMA StoreType ==
    ASSUME NEW f \in [Blocks0 -> Int], NEW i, NEW v \in Int
    PROVE  [f EXCEPT ![i] = v] \in [Blocks0 -> Int]
OBVIOUS

-----------------------------------------------------------------------------
(* The writer: alloc.                                                      *)

\* A call and the first space test change nothing the reader sees.
LEMMA CallStep ==
    ASSUME IInv, NEW s \in Sizes, Call(s)
    PROVE  IInv'
<1> USE DEF IInv
<1>1. s \in Nat
  BY SizesAssumption
<1>2. /\ UNCHANGED <<Places, rpc, blk, data, free_write_cnt, cache, ret>>
      /\ wpc = "idle" /\ wpc' = "alloc" /\ Pushed' = Pushed
  BY DEF Call, readerVars, Places, Pushed
<1>3. TypeInv'
  BY <1>1 DEF Call, TypeInv, readerVars
<1>4. RoomInv'
  BY <1>2 DEF RoomInv, Straight, Places
<1>5. PlaceInv'
  BY <1>2, PlaceSame
<1>6. ReaderInv'
  BY <1>2 DEF ReaderInv, Places, Straight, After
<1>7. WordInv'
  BY <1>2 DEF WordInv, Straight, Places
<1>8. UnreadIntact'
  BY <1>2, UnreadSame
<1> QED
  BY <1>3, <1>4, <1>5, <1>6, <1>7, <1>8

\* alloc compares the blocks it needs with the room it knows of.
LEMMA EnterAllocStep ==
    ASSUME IInv, EnterAlloc
    PROVE  IInv'
<1> USE DEF IInv
<1>2. /\ UNCHANGED <<Places, rpc, blk, data, free_write_cnt, cache, ret, req>>
      /\ wpc = "alloc" /\ wpc' \in {"take", "load"} /\ Pushed' = Pushed
      /\ wpc' = "take" => Need(req) < free_write_cnt
  BY DEF EnterAlloc, readerVars, Places, Pushed, Fits
<1>3. TypeInv'
  BY DEF EnterAlloc, TypeInv, readerVars
<1>4. RoomInv'
  BY <1>2 DEF RoomInv, Straight, Places
<1>5. PlaceInv'
  BY <1>2, PlaceSame
<1>6. ReaderInv'
  BY <1>2 DEF ReaderInv, Places, Straight, After
<1>7. WordInv'
  BY <1>2 DEF WordInv, Straight, Places
<1>8. UnreadIntact'
  BY <1>2, UnreadSame
<1> QED
  BY <1>3, <1>4, <1>5, <1>6, <1>7, <1>8

\* The room for a reader at the place that was just read.
LEMMA LoadReadIdxStep ==
    ASSUME IInv, LoadReadIdx
    PROVE  IInv'
<1> USE DEF IInv
<1>1. /\ write_idx \in Nat /\ read_idx \in Nat /\ BLK_CNT \in Nat
      /\ write_idx < BLK_CNT /\ read_idx < BLK_CNT
  BY MsgFacts, BlkCntAssumption DEF TypeInv, Blocks0
<1>2. /\ UNCHANGED <<Places, rpc, blk, data, ret, req, block>>
      /\ wpc = "load" /\ wpc' \in {"take", "reset", "alloc", "idle"} /\ Pushed' = Pushed
      /\ cache' = read_idx /\ free_write_cnt' = Room(read_idx)
  BY DEF LoadReadIdx, readerVars, Places, Pushed, AfterNull
<1>3. /\ wpc' = "take" => Need(req) < free_write_cnt'
      /\ wpc' = "reset" => MayWrap(read_idx) /\ ~Fits(Need(req), Room(read_idx))
  BY DEF LoadReadIdx, Fits, AfterNull
<1>4. Room(read_idx) \in 0 .. BLK_CNT
  BY <1>1 DEF Room
<1>5. TypeInv'
  BY <1>2, <1>4 DEF TypeInv, Places
<1>6. RoomInv'
  <2>1. write_idx' + free_write_cnt' <= (IF Straight' THEN BLK_CNT ELSE read_idx')
    BY <1>1, <1>2 DEF Room, Straight, Places
  <2>2. wpc' = "reset" => /\ Straight' /\ 0 < cache' /\ cache' <= read_idx'
                          /\ ~Fits(Need(req'), BLK_CNT - write_idx')
    BY <1>1, <1>2, <1>3 DEF Room, MayWrap, Straight, Places
  <2> QED
    BY <1>2, <1>3, <2>1, <2>2 DEF RoomInv
<1>7. PlaceInv'
  BY <1>2, PlaceSame
<1>8. ReaderInv'
  BY <1>2 DEF ReaderInv, Places, Straight, After
<1>9. WordInv'
  BY <1>2 DEF WordInv, Straight, Places
<1>10. UnreadIntact'
  BY <1>2, UnreadSame
<1> QED
  BY <1>5, <1>6, <1>7, <1>8, <1>9, <1>10

\* Block 0 is free when it is reset: the reader has left it, and nothing is behind it.
LEMMA ResetFirstStep ==
    ASSUME IInv, ResetFirst
    PROVE  IInv'
<1> USE DEF IInv
<1>1. /\ UNCHANGED <<Places, rpc, data, free_write_cnt, cache, ret, req, block>>
      /\ wpc = "reset" /\ wpc' = "mark" /\ Pushed' = Pushed
      /\ blk' = [blk EXCEPT ![0] = 0]
  BY DEF ResetFirst, Terminate, readerVars, Places, Pushed
<1>2. 0 \in Blocks0 /\ blk \in [Blocks0 -> Int] /\ write_idx \in Blocks0
  BY BlkCntAssumption DEF TypeInv, Blocks0
<1>3. Straight /\ 0 < read_idx
  BY <1>1, MsgFacts DEF RoomInv
<1>4. TypeInv'
  BY <1>1, <1>2 DEF TypeInv, Places
<1>5. RoomInv'
  BY <1>1 DEF RoomInv, Straight, Places
<1>6. PlaceInv'
  BY <1>1, PlaceSame
<1>7. ReaderInv'
  BY <1>1 DEF ReaderInv, Places, Straight, After
<1>8. WordInv'
  BY <1>1, <1>2, <1>3 DEF WordInv, Straight, Places
<1>9. UnreadIntact'
  <2> SUFFICES ASSUME NEW k \in popped + 1 .. Pushed
               PROVE  /\ blk'[msgs[k].at] = msgs[k].size + HeaderBytes
                      /\ \A i \in BlocksOf(k) : data[i] = k
    BY <1>1 DEF UnreadIntact, Places, BlocksOf, End
  <2>1. k \in Alive /\ k \in 1 .. Len(msgs)
    BY MsgFacts, PushedFacts DEF Alive
  <2>2. msgs[k].at >= read_idx /\ msgs[k].at \in Blocks0
    BY <1>3, <2>1, MsgFacts DEF PlaceInv, Upper, Msg
  <2>3. msgs[k].at # 0
    BY <1>3, <2>2, MsgFacts
  <2>4. blk'[msgs[k].at] = blk[msgs[k].at]
    BY <1>1, <1>2, <2>2, <2>3
  <2> QED
    BY <2>4 DEF UnreadIntact
<1> QED
  BY <1>4, <1>5, <1>6, <1>7, <1>8, <1>9

\* The mark goes behind the last message, and all that are unread become upper.
LEMMA MarkWrapStep ==
    ASSUME IInv, MarkWrap
    PROVE  IInv'
<1> USE DEF IInv
<1>1. /\ UNCHANGED <<read_idx, msgs, popped, rpc, data, cache, ret, req, block>>
      /\ wpc = "mark" /\ wpc' \in {"take", "alloc", "idle"} /\ Pushed' = Pushed
      /\ blk' = [blk EXCEPT ![write_idx] = 1]
      /\ mark' = write_idx /\ write_idx' = 0 /\ free_write_cnt' = cache
      /\ wpc' = "take" => Need(req) < cache
  BY DEF MarkWrap, AfterNull, readerVars, Pushed, Fits
<1>2. 0 \in Blocks0 /\ blk \in [Blocks0 -> Int] /\ write_idx \in Blocks0 /\ Blocks0 \subseteq Nat
  BY BlkCntAssumption DEF TypeInv, Blocks0
<1>3. /\ Straight /\ 0 < cache /\ cache <= read_idx /\ read_idx <= write_idx
      /\ write_idx < BLK_CNT /\ BLK_CNT \in Nat /\ cache \in Nat /\ read_idx \in Nat
      /\ write_idx \in Nat
  BY <1>1, <1>2, MsgFacts, BlkCntAssumption DEF RoomInv, Straight, Blocks0
<1>4. ~Straight'
  BY <1>1, <1>3 DEF Straight
<1>5. TypeInv'
  <2>1. blk' \in [Blocks0 -> Int] /\ cache \in 0 .. BLK_CNT
    BY <1>1, <1>2, <1>3
  <2> QED
    BY <1>1, <1>2, <2>1 DEF TypeInv
<1>6. RoomInv'
  BY <1>1, <1>3, <1>4 DEF RoomInv
<1>7. /\ Alive' = Alive
      /\ \A k \in Alive : /\ k \in 1 .. Len(msgs) /\ k \in Nat
                          /\ Upper(k) /\ Upper(k)' /\ End(k)' = End(k) /\ End(k) <= write_idx
                          /\ End(k) = After(k)
  <2>1. Alive' = Alive /\ \A k \in Alive : End(k)' = End(k) /\ (Upper(k)' <=> Upper(k))
    BY <1>1 DEF Alive, End, Upper
  <2>2. Alive \subseteq 1 .. Len(msgs) /\ Alive \subseteq Nat
    BY MsgFacts DEF Alive
  <2> QED
    BY <1>3, <2>1, <2>2 DEF PlaceInv
<1>8. PlaceInv'
  <2>1. \A k \in Alive : After(k)' = IF k = Len(msgs) THEN 0 ELSE After(k)
    BY <1>1 DEF After
  <2>2. \A k \in Alive : After(k) = End(k) /\ (k = Len(msgs) => After(k) = write_idx)
    BY <1>7 DEF After
  <2>3. \A k \in Alive : End(k)' = After(k)' \/ (Upper(k)' /\ End(k)' = mark' /\ After(k)' = 0)
    BY <1>1, <1>7, <2>1, <2>2
  <2>4. \A j, k \in Alive : j < k => End(j)' <= msgs[k].at
    BY <1>7 DEF PlaceInv
  <2> QED
    BY <1>1, <1>4, <1>7, <2>3, <2>4 DEF PlaceInv
<1>9. ReaderInv'
  <2>1. read_idx = After(popped)
    BY <1>3 DEF ReaderInv
  <2>2. read_idx' = After(popped)' \/ (read_idx' = mark' /\ After(popped)' = 0)
    BY <1>1, <2>1 DEF After
  <2>3. rpc \notin {"wrap", "first"}
    BY <1>3 DEF ReaderInv
  <2> QED
    BY <1>1, <1>4, <2>2, <2>3 DEF ReaderInv
<1>10. WordInv'
  <2>1. blk'[0] = 0 /\ blk'[write_idx] = 1
    BY <1>1, <1>2, <1>3 DEF WordInv
  <2> QED
    BY <1>1, <1>3, <2>1 DEF WordInv
<1>11. UnreadIntact'
  <2> SUFFICES ASSUME NEW k \in popped + 1 .. Pushed
               PROVE  /\ blk'[msgs[k].at] = msgs[k].size + HeaderBytes
                      /\ \A i \in BlocksOf(k) : data[i] = k
    BY <1>1 DEF UnreadIntact, BlocksOf, End
  <2>1. k \in Alive /\ k \in 1 .. Len(msgs)
    BY MsgFacts, PushedFacts DEF Alive
  <2>2. msgs[k].at < write_idx /\ msgs[k].at \in Blocks0
    BY <1>3, <1>7, <2>1, MsgFacts DEF Msg
  <2>3. blk'[msgs[k].at] = blk[msgs[k].at]
    BY <1>1, <1>2, <1>3, <2>2
  <2> QED
    BY <2>3 DEF UnreadIntact
<1> QED
  BY <1>5, <1>6, <1>8, <1>9, <1>10, <1>11

-----------------------------------------------------------------------------
(* The writer: the message itself.                                         *)

\* A message is claimed behind the last one, with room for the terminator.
LEMMA TakeStep ==
    ASSUME IInv, Take
    PROVE  IInv'
<1> USE DEF IInv
<1> PICK n \in Nat : n = Len(msgs)
  BY MsgFacts
<1> DEFINE m == [at |-> write_idx, size |-> req]
<1>1. /\ UNCHANGED <<read_idx, mark, popped, rpc, data, cache, req, block>>
      /\ wpc = "take" /\ wpc' = "fill"
      /\ blk' = [blk EXCEPT ![write_idx + Need(req)] = 0]
      /\ ret' = write_idx /\ write_idx' = write_idx + Need(req)
      /\ free_write_cnt' = free_write_cnt - Need(req)
      /\ msgs' = Append(msgs, m)
  BY DEF Take, Terminate, readerVars
<1>2. /\ blk \in [Blocks0 -> Int] /\ write_idx \in Blocks0 /\ Blocks0 \subseteq Nat
      /\ msgs \in Seq(Msg) /\ m \in Msg /\ n \in Nat /\ req \in Nat
  BY BlkCntAssumption DEF TypeInv, Blocks0, Msg
<1>3. /\ Need(req) \in Nat /\ Need(req) >= 1 /\ Need(req) < free_write_cnt
      /\ BLK_CNT \in Nat /\ write_idx \in Nat /\ read_idx \in Nat /\ free_write_cnt \in Nat
      /\ read_idx < BLK_CNT /\ free_write_cnt <= BLK_CNT
      /\ mark \in Nat
  <2>1. read_idx < BLK_CNT /\ free_write_cnt <= BLK_CNT
    BY BlkCntAssumption DEF TypeInv, Blocks0
  <2> QED
    BY <1>1, <1>2, <2>1, NeedFacts, MsgFacts, BlkCntAssumption DEF RoomInv
<1>4. /\ write_idx' + free_write_cnt' = write_idx + free_write_cnt
      /\ write_idx' < write_idx + free_write_cnt /\ write_idx < write_idx'
      /\ write_idx' < BLK_CNT /\ write_idx' \in Nat /\ free_write_cnt' \in 0 .. BLK_CNT
      /\ write_idx' \in Blocks0
      /\ ~Straight => write_idx' < read_idx
  BY <1>1, <1>3 DEF RoomInv, Straight, Blocks0
<1>5. Straight' <=> Straight
  <2>1. read_idx' = read_idx /\ read_idx \in Nat
    BY <1>1, <1>3
  <2>2. Straight => read_idx <= write_idx'
    BY <1>3, <1>4 DEF Straight
  <2>3. ~Straight => ~(read_idx <= write_idx')
    BY <1>3, <1>4
  <2> QED
    BY <2>1, <2>2, <2>3 DEF Straight
<1>6. /\ msgs' \in Seq(Msg) /\ Len(msgs') = n + 1 /\ msgs'[n + 1] = m
      /\ \A k \in 1 .. n : msgs'[k] = msgs[k]
  BY <1>1, <1>2, AppendProperties
<1>7. popped \in Nat /\ popped <= n
  BY MsgFacts
<1>8. TypeInv'
  <2>1. blk' \in [Blocks0 -> Int]
    BY <1>1, <1>2, StoreType
  <2>2. popped \in 0 .. Len(msgs')
    BY <1>6, <1>7, <1>2
  <2> QED
    BY <1>1, <1>2, <1>4, <1>6, <2>1, <2>2 DEF TypeInv, Msg
<1>9. RoomInv'
  <2>1. write_idx' + free_write_cnt' <= (IF Straight' THEN BLK_CNT ELSE read_idx')
    BY <1>1, <1>3, <1>4, <1>5 DEF RoomInv
  <2> QED
    BY <1>1, <1>2, <1>6, <1>7, <2>1 DEF RoomInv
<1>10. /\ Alive' = Alive \cup {n + 1}
       /\ \A k \in Alive : /\ k \in 1 .. n /\ k \in Nat
                           /\ msgs'[k] = msgs[k] /\ End(k)' = End(k) /\ End(k) \in Nat
                           /\ After(k)' = After(k) /\ (Upper(k)' <=> Upper(k))
       /\ End(n + 1)' = write_idx' /\ msgs'[n + 1].at = write_idx
       /\ After(n + 1)' = write_idx'
  <2>1. Alive' = Alive \cup {n + 1} /\ Alive \subseteq 1 .. n /\ Alive \subseteq Nat
    BY <1>1, <1>2, <1>6, <1>7 DEF Alive
  <2>2. ASSUME NEW k \in Alive
        PROVE  /\ msgs'[k] = msgs[k] /\ End(k)' = End(k) /\ End(k) \in Nat
               /\ After(k)' = After(k) /\ (Upper(k)' <=> Upper(k))
    <3>1. k \in 1 .. n /\ k # n + 1 /\ (k # n => k + 1 \in 1 .. n)
      BY <1>2, <2>1
    <3>2. After(k)' = After(k)
      BY <1>6, <3>1 DEF After
    <3> QED
      BY <1>1, <1>6, <3>1, <3>2, MsgFacts DEF End, Upper
  <2>3. End(n + 1)' = write_idx' /\ msgs'[n + 1].at = write_idx /\ After(n + 1)' = write_idx'
    BY <1>1, <1>6 DEF End, After
  <2> QED
    BY <2>1, <2>2, <2>3
<1>11. PlaceInv'
  <2>1. \A k \in Alive : IF Straight THEN Upper(k) /\ End(k) <= write_idx
                         ELSE \/ Upper(k) /\ End(k) <= mark
                              \/ End(k) <= write_idx
    BY DEF PlaceInv
  <2>2. \A k \in Alive' :
          /\ msgs'[k].at >= 0
          /\ IF Straight' THEN Upper(k)' /\ End(k)' <= write_idx'
             ELSE \/ Upper(k)' /\ End(k)' <= mark'
                  \/ End(k)' <= write_idx'
    <3>1. ASSUME NEW k \in Alive
          PROVE  /\ msgs'[k].at >= 0
                 /\ IF Straight' THEN Upper(k)' /\ End(k)' <= write_idx'
                    ELSE \/ Upper(k)' /\ End(k)' <= mark'
                         \/ End(k)' <= write_idx'
      <4>1. msgs'[k].at >= 0
        BY <1>10 DEF PlaceInv
      <4>2. CASE Straight
        BY <1>3, <1>4, <1>5, <1>10, <2>1, <4>1, <4>2
      <4>3. CASE ~Straight
        <5>1. mark' = mark
          BY <1>1
        <5>2. (Upper(k) /\ End(k) <= mark) \/ End(k) <= write_idx
          BY <2>1, <4>3
        <5>3. (Upper(k)' /\ End(k)' <= mark') \/ End(k)' <= write_idx'
          BY <1>3, <1>4, <1>10, <5>1, <5>2
        <5> QED
          BY <1>5, <4>1, <4>3, <5>3
      <4> QED
        BY <4>2, <4>3
    <3>2. /\ msgs'[n + 1].at >= 0
          /\ IF Straight' THEN Upper(n + 1)' /\ End(n + 1)' <= write_idx'
             ELSE End(n + 1)' <= write_idx'
      <4>1. read_idx' = read_idx /\ (Straight => write_idx >= read_idx)
        BY <1>1, <1>3 DEF Straight
      <4>2. Straight => Upper(n + 1)'
        BY <1>10, <4>1 DEF Upper
      <4>3. msgs'[n + 1].at >= 0 /\ End(n + 1)' <= write_idx'
        BY <1>3, <1>4, <1>10
      <4> QED
        BY <1>5, <4>2, <4>3
    <3> QED
      BY <1>10, <3>1, <3>2
  <2>3. ASSUME NEW j \in Alive', NEW k \in Alive', j < k, Upper(k)' \/ ~Upper(j)'
        PROVE  End(j)' <= msgs'[k].at /\ (Upper(k)' => Upper(j)')
    <3>1. j \in Alive /\ j \in Nat
      BY <1>2, <1>10, <2>3
    <3>2. CASE k \in Alive
      <4>1. Upper(k) \/ ~Upper(j)
        BY <1>10, <2>3, <3>1, <3>2
      <4>2. End(j) <= msgs[k].at /\ (Upper(k) => Upper(j))
        BY <2>3, <3>1, <3>2, <4>1 DEF PlaceInv
      <4> QED
        BY <1>10, <3>1, <3>2, <4>2
    <3>3. CASE k = n + 1
      <4>1. msgs'[k].at = write_idx /\ (Upper(k)' <=> Straight)
        BY <1>1, <1>10, <3>3 DEF Upper, Straight
      <4>2. End(j) <= write_idx /\ (Straight => Upper(j))
        BY <1>10, <2>1, <2>3, <3>1, <4>1
      <4> QED
        BY <1>10, <3>1, <4>1, <4>2
    <3> QED
      BY <1>10, <3>2, <3>3
  <2>4. \A k \in Alive' :
          End(k)' = After(k)' \/ (~Straight' /\ Upper(k)' /\ End(k)' = mark' /\ After(k)' = 0)
    <3>1. \A k \in Alive :
            End(k) = After(k) \/ (~Straight /\ Upper(k) /\ End(k) = mark /\ After(k) = 0)
      BY DEF PlaceInv
    <3> QED
      BY <1>1, <1>5, <1>10, <3>1
  <2> QED
    BY <2>2, <2>3, <2>4 DEF PlaceInv
<1>12. ReaderInv'
  <2>1. After(popped)' = After(popped)
    <3>1. CASE popped = n
      BY <1>1, <1>6, <1>7, <3>1 DEF After
    <3>2. CASE popped # n
      <4>1. popped + 1 \in 1 .. n /\ popped # n + 1
        BY <1>2, <1>7, <3>2
      <4> QED
        BY <1>1, <1>6, <3>2, <4>1 DEF After
    <3> QED
      BY <3>1, <3>2
  <2>2. Pushed = n /\ Pushed' = n
    BY <1>1, <1>2, <1>6 DEF Pushed
  <2>3. rpc = "have" => msgs'[popped + 1] = msgs[popped + 1]
    <3>1. rpc = "have" => popped + 1 \in 1 .. n
      BY <1>2, <1>7, <2>2 DEF ReaderInv
    <3> QED
      BY <1>6, <3>1
  <2> QED
    BY <1>1, <1>5, <2>1, <2>2, <2>3 DEF ReaderInv
<1>13. WordInv'
  <2>1. blk'[write_idx'] = 0
    BY <1>1, <1>2, <1>4
  <2>2. blk'[write_idx] = 0
    BY <1>1, <1>2, <1>4 DEF WordInv
  <2>3. ~Straight => /\ write_idx' < read_idx /\ read_idx <= mark /\ blk'[mark] = 1
    BY <1>1, <1>2, <1>3, <1>4 DEF WordInv, TypeInv
  <2> QED
    BY <1>1, <1>5, <2>1, <2>2, <2>3 DEF WordInv
<1>14. UnreadIntact'
  <2> SUFFICES ASSUME NEW k \in popped + 1 .. n
               PROVE  /\ blk'[msgs'[k].at] = msgs'[k].size + HeaderBytes
                      /\ \A i \in (msgs'[k].at) .. (End(k)' - 1) : data[i] = k
    <3>1. Pushed' = n
      BY <1>1, <1>2, <1>6 DEF Pushed
    <3> QED
      BY <1>1, <3>1 DEF UnreadIntact, BlocksOf
  <2>1. k \in Alive /\ k \in 1 .. n /\ Pushed = n
    BY <1>1, <1>2, <1>7 DEF Alive, Pushed
  <2>2. msgs[k].at \in Nat /\ msgs[k].at \in Blocks0 /\ msgs[k].at < End(k) /\ End(k) \in Nat
    BY <2>1, MsgFacts DEF Msg
  <2>3. msgs[k].at # write_idx'
    BY <1>3, <1>4, <2>1, <2>2 DEF PlaceInv, Upper
  <2>4. blk'[msgs[k].at] = blk[msgs[k].at]
    BY <1>1, <1>2, <1>4, <2>2, <2>3
  <2> QED
    BY <1>10, <2>1, <2>4 DEF UnreadIntact, BlocksOf
<1> QED
  BY <1>8, <1>9, <1>11, <1>12, <1>13, <1>14

\* The blocks of the message that is being written, and the older ones beside them.
LEMMA NewMessage ==
    ASSUME IInv, wpc \in {"fill", "push"}
    PROVE  /\ Len(msgs) \in Nat /\ Len(msgs) \in Alive /\ Pushed = Len(msgs) - 1
           /\ msgs[Len(msgs)].at = ret /\ msgs[Len(msgs)].size = req
           /\ ret \in Nat /\ write_idx \in Nat /\ ret < write_idx
           /\ write_idx = ret + Need(req) /\ req \in Nat /\ Need(req) \in Nat
           /\ ret \in Blocks0 /\ write_idx \in Blocks0
           /\ ret .. write_idx - 1 \subseteq Blocks0
           /\ ~Straight => mark \in Nat /\ mark > write_idx /\ mark \in Blocks0
           /\ \A k \in popped + 1 .. Pushed :
                /\ k \in Alive /\ k \in 1 .. Len(msgs)
                /\ msgs[k].at \in Nat /\ End(k) \in Nat /\ msgs[k].at < End(k)
                /\ msgs[k].at \in Blocks0
                /\ End(k) <= ret \/ msgs[k].at >= write_idx
<1> USE DEF IInv
<1> PICK n \in Nat : n = Len(msgs)
  BY MsgFacts
<1>1. /\ n > 0 /\ popped < n /\ msgs[n] = [at |-> ret, size |-> req]
      /\ write_idx = ret + Need(req)
  BY DEF RoomInv
<1>2. popped \in Nat /\ n \in Alive /\ Pushed = n - 1
  BY <1>1, MsgFacts, PushedFacts DEF Alive
<1>3. /\ ret \in Nat /\ write_idx \in Nat /\ req \in Nat /\ mark \in Nat /\ read_idx \in Nat
      /\ Need(req) \in Nat /\ Need(req) >= 1
  BY MsgFacts, NeedFacts DEF TypeInv
<1>4. ret \in Blocks0 /\ write_idx \in Blocks0 /\ mark \in Blocks0
  BY DEF TypeInv
<1>5. ret .. write_idx - 1 \subseteq Blocks0
  BY <1>3, <1>4, BlkCntAssumption DEF Blocks0
<1>6. ~Straight => write_idx < read_idx /\ read_idx <= mark
  BY DEF WordInv
<1>7. ASSUME NEW k \in popped + 1 .. n - 1
      PROVE  /\ k \in Alive /\ k \in 1 .. n
             /\ msgs[k].at \in Nat /\ End(k) \in Nat /\ msgs[k].at < End(k)
             /\ msgs[k].at \in Blocks0
             /\ End(k) <= ret \/ msgs[k].at >= write_idx
  <2>1. k \in Alive /\ k \in 1 .. n /\ k < n
    BY <1>2 DEF Alive
  <2>2. /\ msgs[k].at \in Nat /\ End(k) \in Nat /\ msgs[k].at < End(k)
        /\ msgs[k].at \in Blocks0
    BY <2>1, MsgFacts DEF Msg
  <2>3. Upper(n) \/ ~Upper(k) => End(k) <= ret
    <3>1. Upper(n) \/ ~Upper(k) => End(k) <= msgs[n].at
      BY <1>2, <2>1 DEF PlaceInv
    <3> QED
      BY <1>1, <3>1
  <2>4. ~Upper(n) /\ Upper(k) => msgs[k].at >= write_idx
    <3>1. ~Upper(n) => ~Straight
      BY <1>2 DEF PlaceInv
    <3> QED
      BY <1>3, <1>6, <2>2, <3>1 DEF Upper
  <2>5. End(k) <= ret \/ msgs[k].at >= write_idx
    BY <2>3, <2>4
  <2> QED
    BY <2>1, <2>2, <2>5
<1>8. ret < write_idx
  BY <1>1, <1>3
<1>9. ~Straight => mark > write_idx
  BY <1>3, <1>6
<1>10. msgs[n].at = ret /\ msgs[n].size = req
  BY <1>1
<1> QED
  BY <1>1, <1>2, <1>3, <1>4, <1>5, <1>7, <1>8, <1>9, <1>10

\* The writer fills the message it was given.
LEMMA FillStep ==
    ASSUME IInv, Fill
    PROVE  IInv'
<1> PICK n \in Nat : n = Len(msgs)
  BY MsgFacts DEF IInv
<1>1. /\ UNCHANGED <<Places, rpc, free_write_cnt, cache, ret, req, block>>
      /\ wpc = "fill" /\ wpc' = "push"
      /\ data' = [i \in Blocks0 |-> IF i \in ret .. ret + Need(req) - 1 THEN n ELSE data[i]]
      /\ blk' = [i \in Blocks0 |-> IF i \in ret + 1 .. ret + Need(req) - 1 THEN Junk ELSE blk[i]]
  BY DEF Fill, readerVars, Places
<1>2. /\ n \in Alive /\ Pushed = n - 1 /\ Pushed' = n - 1
      /\ ret \in Nat /\ write_idx \in Nat /\ ret < write_idx
      /\ write_idx = ret + Need(req) /\ Need(req) \in Nat
      /\ ret \in Blocks0 /\ write_idx \in Blocks0
      /\ ret .. write_idx - 1 \subseteq Blocks0
      /\ ~Straight => mark \in Nat /\ mark > write_idx /\ mark \in Blocks0
  BY <1>1, NewMessage DEF Pushed, Places
<1>3. ASSUME NEW k \in popped + 1 .. Pushed
      PROVE  /\ msgs[k].at \in Nat /\ End(k) \in Nat /\ msgs[k].at < End(k)
             /\ msgs[k].at \in Blocks0
             /\ End(k) <= ret \/ msgs[k].at >= write_idx
  BY <1>1, NewMessage
<1>4. /\ \A i \in Blocks0 : i \notin ret .. write_idx - 1 => data'[i] = data[i]
      /\ \A i \in Blocks0 : i \notin ret + 1 .. write_idx - 1 => blk'[i] = blk[i]
      /\ \A i \in ret .. write_idx - 1 : data'[i] = n
  <2>1. ret + Need(req) - 1 = write_idx - 1
    BY <1>2
  <2>2. /\ data' = [i \in Blocks0 |-> IF i \in ret .. write_idx - 1 THEN n ELSE data[i]]
        /\ blk' = [i \in Blocks0 |-> IF i \in ret + 1 .. write_idx - 1 THEN Junk ELSE blk[i]]
    BY <1>1, <2>1
  <2>3. \A i \in Blocks0 : i \notin ret .. write_idx - 1 => data'[i] = data[i]
    BY <2>2
  <2>4. \A i \in Blocks0 : i \notin ret + 1 .. write_idx - 1 => blk'[i] = blk[i]
    BY <2>2
  <2>5. \A i \in ret .. write_idx - 1 : i \in Blocks0
    BY <1>2
  <2>6. \A i \in ret .. write_idx - 1 : data'[i] = n
    BY <2>2, <2>5
  <2> QED
    BY <2>3, <2>4, <2>6
<1> USE DEF IInv
<1>5. TypeInv'
  <2>1. blk' \in [Blocks0 -> Int]
    <3>2. Junk \in Int /\ blk \in [Blocks0 -> Int]
      BY DEF Junk, TypeInv
    <3> QED
      BY <1>1, <3>2
  <2>2. data' \in [Blocks0 -> Nat]
    <3>2. data \in [Blocks0 -> Nat]
      BY DEF TypeInv
    <3> QED
      BY <1>1, <3>2
  <2> QED
    BY <1>1, <2>1, <2>2 DEF TypeInv, Places
<1>6. RoomInv'
  BY <1>1 DEF RoomInv, Straight, Places
<1>7. PlaceInv'
  BY <1>1, PlaceSame
<1>8. ReaderInv'
  BY <1>1, <1>2 DEF ReaderInv, Places, Straight, After
<1>9. WordInv'
  <2>1. blk'[write_idx] = 0 /\ blk'[ret] = 0
    BY <1>1, <1>2, <1>4 DEF WordInv
  <2>2. ~Straight => blk'[mark] = 1
    BY <1>2, <1>4 DEF WordInv
  <2> QED
    BY <1>1, <1>2, <1>4, <2>1, <2>2 DEF WordInv, Straight, Places
<1>10. UnreadIntact'
  <2> SUFFICES ASSUME NEW k \in popped + 1 .. Pushed
               PROVE  /\ blk'[msgs[k].at] = msgs[k].size + HeaderBytes
                      /\ \A i \in BlocksOf(k) : data'[i] = k
    BY <1>1, <1>2 DEF UnreadIntact, Places, BlocksOf, End
  <2>1. k \in 1 .. n
    BY <1>1, NewMessage
  <2>2. /\ msgs[k].at \in Nat /\ End(k) \in Nat /\ msgs[k].at < End(k)
        /\ msgs[k].at \in Blocks0
        /\ End(k) <= ret \/ msgs[k].at >= write_idx
    BY <1>3
  <2>3. msgs[k].at \notin ret + 1 .. write_idx - 1
    BY <1>2, <2>2
  <2>4. blk'[msgs[k].at] = blk[msgs[k].at]
    BY <1>4, <2>2, <2>3
  <2>5. \A i \in BlocksOf(k) : data'[i] = data[i]
    <3> SUFFICES ASSUME NEW i \in BlocksOf(k) PROVE data'[i] = data[i]
      OBVIOUS
    <3>1. i \in Int /\ msgs[k].at <= i /\ i < End(k)
      BY <2>2 DEF BlocksOf
    <3>2. i \in Int /\ msgs[k].at <= i /\ i < End(k) /\ i \notin ret .. write_idx - 1
      BY <1>2, <2>2, <3>1
    <3>3. End(k) <= BLK_CNT
      <4>1. End(k) <= write_idx \/ End(k) <= mark
        BY <1>1, NewMessage DEF PlaceInv
      <4>2. write_idx < BLK_CNT /\ mark < BLK_CNT /\ write_idx \in Nat /\ mark \in Nat
        BY MsgFacts, BlkCntAssumption DEF TypeInv, Blocks0
      <4> QED
        BY <1>3, <4>1, <4>2, BlkCntAssumption
    <3>4. i \in Blocks0
      BY <1>3, <3>2, <3>3, BlkCntAssumption DEF Blocks0
    <3> QED
      BY <1>4, <3>2, <3>4
  <2> QED
    BY <2>4, <2>5 DEF UnreadIntact
<1> QED
  BY <1>5, <1>6, <1>7, <1>8, <1>9, <1>10

\* The store of the size word makes the message visible, complete.
LEMMA PushStep ==
    ASSUME IInv, Push
    PROVE  IInv'
<1> PICK n \in Nat : n = Len(msgs)
  BY MsgFacts DEF IInv
<1>1. /\ UNCHANGED <<Places, rpc, data, free_write_cnt, cache, ret, req, block>>
      /\ wpc = "push" /\ wpc' = "idle"
      /\ blk' = [blk EXCEPT ![ret] = req + HeaderBytes]
  BY DEF Push, readerVars, Places
<1>2. /\ n \in Alive /\ Pushed = n - 1 /\ Pushed' = n /\ req \in Nat
      /\ msgs[n].at = ret /\ msgs[n].size = req
      /\ ret \in Nat /\ write_idx \in Nat /\ ret < write_idx
      /\ write_idx = ret + Need(req)
      /\ ret \in Blocks0 /\ write_idx \in Blocks0
      /\ ~Straight => mark \in Nat /\ mark > write_idx /\ mark \in Blocks0
  BY <1>1, NewMessage DEF Pushed, Places
<1>3. ASSUME NEW k \in popped + 1 .. Pushed
      PROVE  /\ msgs[k].at \in Nat /\ msgs[k].at \in Blocks0 /\ msgs[k].at # ret
  BY <1>1, <1>2, NewMessage
<1> USE DEF IInv
<1>4. blk \in [Blocks0 -> Int] /\ req + HeaderBytes \in Int
  BY <1>2, NeedFacts DEF TypeInv
<1>5. TypeInv'
  <2>1. blk' \in [Blocks0 -> Int]
    BY <1>1, <1>4, StoreType
  <2> QED
    BY <1>1, <2>1 DEF TypeInv, Places
<1>6. RoomInv'
  BY <1>1 DEF RoomInv, Straight, Places
<1>7. PlaceInv'
  BY <1>1, PlaceSame
<1>8. ReaderInv'
  <2>1. popped \in Nat /\ (popped < Pushed => popped < Pushed')
    BY <1>2, MsgFacts
  <2>2. After(popped)' = After(popped) /\ (Straight' <=> Straight)
    BY <1>1 DEF Places, After, Straight
  <2> QED
    BY <1>1, <2>1, <2>2 DEF ReaderInv, Places
<1>9. WordInv'
  <2>1. blk'[write_idx] = 0
    BY <1>1, <1>2, <1>4 DEF WordInv
  <2>2. ~Straight => blk'[mark] = 1
    BY <1>1, <1>2, <1>4 DEF WordInv
  <2> QED
    BY <1>1, <2>1, <2>2 DEF WordInv, Straight, Places
<1>10. UnreadIntact'
  <2> SUFFICES ASSUME NEW k \in popped + 1 .. n
               PROVE  /\ blk'[msgs[k].at] = msgs[k].size + HeaderBytes
                      /\ \A i \in BlocksOf(k) : data[i] = k
    BY <1>1, <1>2 DEF UnreadIntact, Places, BlocksOf, End
  <2>1. CASE k = n
    <3>1. blk'[ret] = req + HeaderBytes
      BY <1>1, <1>2, <1>4
    <3>2. \A i \in ret .. write_idx - 1 : data[i] = n
      BY <1>1 DEF WordInv
    <3>3. BlocksOf(n) = ret .. write_idx - 1
      BY <1>2 DEF BlocksOf, End
    <3> QED
      BY <1>2, <2>1, <3>1, <3>2, <3>3
  <2>2. CASE k # n
    <3>1. k \in popped + 1 .. Pushed
      BY <1>2, <2>2, MsgFacts
    <3>2. blk'[msgs[k].at] = blk[msgs[k].at]
      BY <1>1, <1>2, <1>3, <1>4, <3>1
    <3> QED
      BY <3>1, <3>2 DEF UnreadIntact
  <2> QED
    BY <2>1, <2>2
<1> QED
  BY <1>5, <1>6, <1>7, <1>8, <1>9, <1>10

-----------------------------------------------------------------------------
(* The reader.                                                             *)

\* The oldest message that is pushed and not popped.
LEMMA OldestFacts ==
    ASSUME IInv, popped < Pushed
    PROVE  /\ popped \in Nat /\ popped + 1 \in Alive /\ popped + 1 \in popped + 1 .. Pushed
           /\ popped + 1 \in 1 .. Len(msgs)
           /\ msgs[popped + 1].at \in Nat /\ msgs[popped + 1].size \in Nat
           /\ End(popped + 1) \in Nat /\ msgs[popped + 1].at < End(popped + 1)
           /\ blk[msgs[popped + 1].at] = msgs[popped + 1].size + HeaderBytes
           /\ blk[msgs[popped + 1].at] >= 8
           /\ msgs[popped + 1].at + Blocks(blk[msgs[popped + 1].at]) = End(popped + 1)
<1> USE DEF IInv
<1>1. /\ popped \in Nat /\ popped + 1 \in Alive /\ popped + 1 \in popped + 1 .. Pushed
      /\ popped + 1 \in 1 .. Len(msgs)
  BY MsgFacts, PushedFacts DEF Alive
<1>2. /\ msgs[popped + 1].at \in Nat /\ msgs[popped + 1].size \in Nat
      /\ End(popped + 1) \in Nat /\ msgs[popped + 1].at < End(popped + 1)
  BY <1>1, MsgFacts
<1>3. blk[msgs[popped + 1].at] = msgs[popped + 1].size + HeaderBytes
  BY <1>1 DEF UnreadIntact
<1>4. Blocks(blk[msgs[popped + 1].at]) = Need(msgs[popped + 1].size)
  BY <1>2, <1>3, NeedFacts
<1> QED
  BY <1>1, <1>2, <1>3, <1>4, NeedFacts DEF End

\* Only messages that were pushed are popped.
LEMMA PoppedFacts ==
    ASSUME IInv
    PROVE  popped \in Nat /\ Pushed \in Nat /\ popped <= Pushed /\ Pushed <= Len(msgs)
<1>1. wpc \in {"fill", "push"} => popped < Len(msgs)
  BY DEF IInv, RoomInv
<1> QED
  BY <1>1, MsgFacts, PushedFacts DEF IInv

\* A word the reader finds non-zero is the wrap mark or the oldest message's size.
LEMMA WordRead ==
    ASSUME IInv, blk[read_idx] # 0
    PROVE  IF blk[read_idx] = 1 THEN ~Straight /\ read_idx = mark
           ELSE popped < Pushed /\ read_idx = msgs[popped + 1].at
<1> USE DEF IInv
<1>1. Len(msgs) \in Nat /\ popped \in Nat /\ popped <= Len(msgs)
  BY MsgFacts
<1>2. CASE read_idx = After(popped)
  <2>1. popped # Len(msgs)
    BY <1>2 DEF After, WordInv
  <2>2. read_idx = msgs[popped + 1].at
    BY <1>2, <2>1 DEF After
  <2>3. popped < Pushed
    <3> SUFFICES ASSUME ~(popped < Pushed) PROVE FALSE
      OBVIOUS
    <3>1. wpc \in {"fill", "push"} /\ popped + 1 = Len(msgs)
      BY <1>1, <2>1, PushedFacts
    <3>2. msgs[Len(msgs)].at = ret /\ blk[ret] = 0
      BY <3>1 DEF RoomInv, WordInv
    <3> QED
      BY <2>2, <3>1, <3>2
  <2>4. blk[read_idx] >= 8
    BY <2>2, <2>3, OldestFacts
  <2>5. blk[read_idx] # 1
    BY <2>4
  <2> QED
    BY <2>2, <2>3, <2>5
<1>3. CASE ~Straight /\ read_idx = mark
  BY <1>3 DEF WordInv
<1> QED
  BY <1>2, <1>3 DEF ReaderInv

\* front looks at the word under the reader.
LEMMA FrontLoadStep ==
    ASSUME IInv, FrontLoad
    PROVE  IInv'
<1> USE DEF IInv
<1>1. /\ UNCHANGED <<Places, blk, data, free_write_cnt, cache, ret, req, block, wpc>>
      /\ rpc = "front" /\ rpc' \in {"wrap", "have"} /\ Pushed' = Pushed
      /\ rpc' = "wrap" <=> blk[read_idx] = 1
      /\ blk[read_idx] # 0
  BY DEF FrontLoad, writerVars, Places, Pushed
<1>2. TypeInv'
  BY <1>1 DEF TypeInv, Places
<1>3. RoomInv'
  BY <1>1 DEF RoomInv, Straight, Places
<1>4. PlaceInv'
  BY <1>1, PlaceSame
<1>5. ReaderInv'
  <2>1. After(popped)' = After(popped) /\ (Straight' <=> Straight)
    BY <1>1 DEF Places, After, Straight
  <2>2. rpc' = "wrap" => ~Straight /\ read_idx = mark
    BY <1>1, WordRead
  <2>3. rpc' = "have" => popped < Pushed /\ read_idx = msgs[popped + 1].at
    BY <1>1, WordRead
  <2> QED
    BY <1>1, <2>1, <2>2, <2>3 DEF ReaderInv, Places
<1>6. WordInv'
  BY <1>1 DEF WordInv, Straight, Places
<1>7. UnreadIntact'
  BY <1>1, UnreadSame
<1> QED
  BY <1>2, <1>3, <1>4, <1>5, <1>6, <1>7

\* At the mark, all upper messages are popped: the ring is straight again.
LEMMA FrontWrapStep ==
    ASSUME IInv, FrontWrap
    PROVE  IInv'
<1> USE DEF IInv
<1>1. /\ UNCHANGED <<write_idx, msgs, mark, popped, blk, data>>
      /\ UNCHANGED <<free_write_cnt, cache, ret, req, block, wpc>>
      /\ rpc = "wrap" /\ rpc' = "first" /\ read_idx' = 0 /\ Pushed' = Pushed
  BY DEF FrontWrap, writerVars, Pushed
<1>2. ~Straight /\ read_idx = mark /\ write_idx < read_idx
  BY <1>1 DEF ReaderInv, WordInv
<1>3. /\ write_idx \in Nat /\ read_idx \in Nat /\ read_idx < BLK_CNT /\ BLK_CNT \in Nat
      /\ free_write_cnt \in Nat /\ 0 \in Blocks0
  BY MsgFacts, BlkCntAssumption DEF TypeInv, Blocks0
<1>4. Straight'
  BY <1>1, <1>3 DEF Straight
<1>5. /\ Alive' = Alive
      /\ \A k \in Alive : /\ msgs[k].at \in Nat /\ End(k) \in Nat
                          /\ ~Upper(k) /\ End(k) <= write_idx /\ End(k) = After(k)
                          /\ Upper(k)' /\ End(k)' = End(k) /\ After(k)' = After(k)
  <2>1. Alive' = Alive
    BY <1>1 DEF Alive
  <2>2. ASSUME NEW k \in Alive
        PROVE  /\ msgs[k].at \in Nat /\ End(k) \in Nat
               /\ ~Upper(k) /\ End(k) <= write_idx /\ End(k) = After(k)
               /\ Upper(k)' /\ End(k)' = End(k) /\ After(k)' = After(k)
    <3>1. k \in 1 .. Len(msgs)
      BY MsgFacts DEF Alive
    <3>2. msgs[k].at \in Nat /\ End(k) \in Nat /\ msgs[k].at < End(k)
      BY <3>1, MsgFacts
    <3>3. ~(Upper(k) /\ End(k) <= mark)
      BY <1>2, <1>3, <3>2 DEF Upper
    <3>4. End(k) <= write_idx
      BY <1>2, <3>3 DEF PlaceInv
    <3>5. ~Upper(k)
      BY <1>2, <1>3, <3>2, <3>4 DEF Upper
    <3>6. End(k) = After(k)
      BY <3>5 DEF PlaceInv
    <3>7. Upper(k)' /\ End(k)' = End(k) /\ After(k)' = After(k)
      BY <1>1, <3>2 DEF Upper, End, After
    <3> QED
      BY <3>2, <3>4, <3>5, <3>6, <3>7
  <2> QED
    BY <2>1, <2>2
<1>6. After(popped) = 0
  <2>1. Len(msgs) \in Nat /\ popped \in Nat /\ popped <= Len(msgs)
    BY MsgFacts
  <2>2. popped = Len(msgs) => After(popped) # read_idx
    BY <1>2, <1>3 DEF After
  <2>3. popped # Len(msgs) => After(popped) # read_idx
    <3>1. popped # Len(msgs) => popped + 1 \in Alive
      BY <2>1 DEF Alive
    <3>2. popped # Len(msgs) => ~(msgs[popped + 1].at >= read_idx)
      BY <1>5, <3>1 DEF Upper
    <3> QED
      BY <1>3, <3>2 DEF After
  <2> QED
    BY <2>2, <2>3 DEF ReaderInv
<1>7. TypeInv'
  BY <1>1, <1>3 DEF TypeInv
<1>8. RoomInv'
  <2>1. write_idx' + free_write_cnt' <= BLK_CNT
    BY <1>1, <1>2, <1>3 DEF RoomInv
  <2>2. wpc \notin {"reset", "mark"}
    BY <1>2 DEF RoomInv
  <2> QED
    BY <1>1, <1>4, <2>1, <2>2 DEF RoomInv
<1>9. PlaceInv'
  <2>1. \A k \in Alive : msgs[k].at >= 0 /\ Upper(k)' /\ End(k)' <= write_idx
    BY <1>5
  <2>2. \A j, k \in Alive : j < k => End(j)' <= msgs[k].at
    BY <1>5 DEF PlaceInv
  <2>3. \A k \in Alive : End(k)' = After(k)'
    BY <1>5
  <2> QED
    BY <1>1, <1>4, <1>5, <2>1, <2>2, <2>3 DEF PlaceInv
<1>10. ReaderInv'
  <2>1. After(popped)' = 0
    BY <1>1, <1>6 DEF After
  <2> QED
    BY <1>1, <1>4, <2>1 DEF ReaderInv
<1>11. WordInv'
  BY <1>1, <1>4 DEF WordInv
<1>12. UnreadIntact'
  BY <1>1 DEF UnreadIntact, BlocksOf, End
<1> QED
  BY <1>7, <1>8, <1>9, <1>10, <1>11, <1>12

\* front looks at the first word after it has wrapped.
LEMMA FrontFirstStep ==
    ASSUME IInv, FrontFirst
    PROVE  IInv'
<1> USE DEF IInv
<1>1. /\ UNCHANGED <<Places, blk, data, free_write_cnt, cache, ret, req, block, wpc>>
      /\ rpc = "first" /\ rpc' \in {"front", "have"} /\ Pushed' = Pushed
      /\ rpc' = "have" => blk[0] # 0
  BY DEF FrontFirst, writerVars, Places, Pushed
<1>2. Straight /\ read_idx = 0
  BY <1>1 DEF ReaderInv
<1>3. TypeInv'
  BY <1>1 DEF TypeInv, Places
<1>4. RoomInv'
  BY <1>1 DEF RoomInv, Straight, Places
<1>5. PlaceInv'
  BY <1>1, PlaceSame
<1>6. ReaderInv'
  <2>1. After(popped)' = After(popped) /\ (Straight' <=> Straight)
    BY <1>1 DEF Places, After, Straight
  <2>2. rpc' = "have" => popped < Pushed /\ read_idx = msgs[popped + 1].at
    BY <1>1, <1>2, WordRead
  <2> QED
    BY <1>1, <2>1, <2>2 DEF ReaderInv, Places
<1>7. WordInv'
  BY <1>1 DEF WordInv, Straight, Places
<1>8. UnreadIntact'
  BY <1>1, UnreadSame
<1> QED
  BY <1>3, <1>4, <1>5, <1>6, <1>7, <1>8

\* pop moves the reader to where the next message starts, or to the mark.
LEMMA PopStep ==
    ASSUME IInv, Pop
    PROVE  IInv'
<1> USE DEF IInv
<1> PICK p \in Nat : p = popped + 1
  BY MsgFacts
<1>1. /\ UNCHANGED <<write_idx, msgs, mark, blk, data>>
      /\ UNCHANGED <<free_write_cnt, cache, ret, req, block, wpc>>
      /\ rpc = "have" /\ rpc' = "front" /\ popped' = p /\ Pushed' = Pushed
      /\ read_idx' = read_idx + Blocks(blk[read_idx])
  BY DEF Pop, writerVars, Pushed
<1>2. popped < Pushed /\ read_idx = msgs[p].at
  BY <1>1 DEF ReaderInv
<1>3. /\ popped \in Nat /\ p \in Alive /\ p \in 1 .. Len(msgs) /\ Len(msgs) \in Nat
      /\ End(p) \in Nat /\ read_idx < End(p) /\ read_idx' = End(p)
  BY <1>1, <1>2, OldestFacts, MsgFacts
<1>4. /\ write_idx \in Nat /\ read_idx \in Nat /\ mark \in Nat /\ free_write_cnt \in Nat
      /\ cache \in Nat /\ write_idx < BLK_CNT /\ mark < BLK_CNT /\ BLK_CNT \in Nat
  BY MsgFacts, BlkCntAssumption DEF TypeInv, Blocks0
<1>5. /\ Upper(p)
      /\ IF Straight THEN End(p) <= write_idx ELSE write_idx < read_idx /\ End(p) <= mark
      /\ End(p) = After(p) \/ (~Straight /\ End(p) = mark /\ After(p) = 0)
  <2>1. Upper(p)
    BY <1>2, <1>4 DEF Upper
  <2>2. Straight => End(p) <= write_idx
    BY <1>3 DEF PlaceInv
  <2>3. ~Straight => write_idx < read_idx
    BY DEF WordInv
  <2>4. ~Straight => End(p) <= mark
    <3>1. ~Straight => End(p) <= mark \/ End(p) <= write_idx
      BY <1>3 DEF PlaceInv
    <3> QED
      BY <1>3, <1>4, <2>3, <3>1
  <2>5. End(p) = After(p) \/ (~Straight /\ End(p) = mark /\ After(p) = 0)
    BY <1>3 DEF PlaceInv
  <2> QED
    BY <2>1, <2>2, <2>3, <2>4, <2>5
<1>6. Straight' <=> Straight
  BY <1>1, <1>3, <1>4, <1>5 DEF Straight
<1>7. TypeInv'
  <2>1. read_idx' \in Blocks0
    BY <1>3, <1>4, <1>5 DEF Blocks0
  <2>2. p \in 0 .. Len(msgs)
    BY <1>3
  <2> QED
    BY <1>1, <2>1, <2>2 DEF TypeInv
<1>8. RoomInv'
  <2>1. write_idx' + free_write_cnt' <= (IF Straight' THEN BLK_CNT ELSE read_idx')
    BY <1>1, <1>3, <1>4, <1>6 DEF RoomInv
  <2>2. wpc \in {"reset", "mark"} => Straight /\ cache <= read_idx'
    BY <1>3, <1>4 DEF RoomInv
  <2>3. wpc \in {"fill", "push"} => p < Len(msgs)
    BY <1>2, <1>3, PushedFacts
  <2> QED
    BY <1>1, <1>6, <2>1, <2>2, <2>3 DEF RoomInv
<1>9. ASSUME NEW k \in Alive'
      PROVE  /\ k \in Alive /\ (Upper(k)' <=> Upper(k))
             /\ End(k)' = End(k) /\ After(k)' = After(k)
  <2>1. k \in Alive /\ p < k /\ k \in 1 .. Len(msgs) /\ k \in Nat
    BY <1>1, <1>3 DEF Alive
  <2>2. End(k)' = End(k) /\ After(k)' = After(k) /\ msgs[k].at \in Nat
    BY <1>1, <2>1, MsgFacts DEF End, After
  <2>3. Upper(k) => End(p) <= msgs[k].at
    BY <1>3, <2>1 DEF PlaceInv
  <2>4. Upper(k)' <=> Upper(k)
    BY <1>1, <1>3, <1>4, <2>2, <2>3 DEF Upper
  <2> QED
    BY <2>1, <2>2, <2>4
<1>10. PlaceInv'
  <2>1. \A k \in Alive' :
          /\ msgs'[k].at >= 0
          /\ IF Straight' THEN Upper(k)' /\ End(k)' <= write_idx'
             ELSE \/ Upper(k)' /\ End(k)' <= mark'
                  \/ End(k)' <= write_idx'
    BY <1>1, <1>6, <1>9 DEF PlaceInv
  <2>2. ASSUME NEW j \in Alive', NEW k \in Alive', j < k, Upper(k)' \/ ~Upper(j)'
        PROVE  End(j)' <= msgs'[k].at /\ (Upper(k)' => Upper(j)')
    BY <1>1, <1>9, <2>2 DEF PlaceInv
  <2>3. \A k \in Alive' :
          End(k)' = After(k)' \/ (~Straight' /\ Upper(k)' /\ End(k)' = mark' /\ After(k)' = 0)
    BY <1>1, <1>6, <1>9 DEF PlaceInv
  <2> QED
    BY <2>1, <2>2, <2>3 DEF PlaceInv
<1>11. ReaderInv'
  <2>1. After(popped)' = After(p)
    BY <1>1 DEF After
  <2> QED
    BY <1>1, <1>3, <1>5, <1>6, <2>1 DEF ReaderInv
<1>12. WordInv'
  <2>1. ~Straight => write_idx < read_idx' /\ read_idx' <= mark
    BY <1>3, <1>4, <1>5
  <2> QED
    BY <1>1, <1>6, <2>1 DEF WordInv
<1>13. UnreadIntact'
  <2>1. \A k \in p + 1 .. Pushed : k \in popped + 1 .. Pushed
    BY <1>3, PushedFacts
  <2>2. \A k : BlocksOf(k)' = BlocksOf(k)
    BY <1>1 DEF BlocksOf, End
  <2> QED
    BY <1>1, <2>1, <2>2 DEF UnreadIntact
<1> QED
  BY <1>7, <1>8, <1>10, <1>11, <1>12, <1>13

-----------------------------------------------------------------------------
(* The ring, in every state it can reach.                                  *)

\* A step of nobody.
LEMMA StutterStep ==
    ASSUME IInv, UNCHANGED vars
    PROVE  IInv'
<1>1. UNCHANGED <<Places, blk, data, free_write_cnt, cache, ret, req, block, wpc, rpc>>
  BY DEF vars, writerVars, readerVars, Places
<1>2. Pushed' = Pushed /\ After(popped)' = After(popped) /\ (Straight' <=> Straight)
  BY <1>1 DEF Pushed, After, Straight, Places
<1> USE DEF IInv
<1>3. TypeInv' /\ RoomInv'
  BY <1>1, <1>2 DEF TypeInv, RoomInv, Places
<1>4. PlaceInv'
  BY <1>1, PlaceSame
<1>5. ReaderInv' /\ WordInv'
  BY <1>1, <1>2 DEF ReaderInv, WordInv, Places
<1>6. UnreadIntact'
  BY <1>1, <1>2, UnreadSame
<1> QED
  BY <1>3, <1>4, <1>5, <1>6

\* Every step keeps the invariant.
LEMMA StepIInv == IInv /\ [Next]_vars => IInv'
<1> SUFFICES ASSUME IInv, [Next]_vars PROVE IInv'
  OBVIOUS
<1>1. ASSUME NEW s \in Sizes, Call(s) PROVE IInv'
  BY <1>1, CallStep
<1>2. CASE AllocStep
  BY <1>2, EnterAllocStep, LoadReadIdxStep, ResetFirstStep, MarkWrapStep DEF AllocStep
<1>3. CASE Take \/ Fill \/ Push
  BY <1>3, TakeStep, FillStep, PushStep
<1>4. CASE ReaderStep
  BY <1>4, FrontLoadStep, FrontWrapStep, FrontFirstStep, PopStep DEF ReaderStep
<1>5. CASE UNCHANGED vars
  BY <1>5, StutterStep
<1> QED
  BY <1>1, <1>2, <1>3, <1>4, <1>5 DEF Next, WriterStep

\* Wherever writer and reader stand, the messages that are not popped lie apart
\* and in order in the ring, and no store of alloc falls on one of them.
THEOREM Invariance == Spec => []IInv
<1>1. Init => IInv
  BY InitIInv
<1>2. IInv /\ [Next]_vars => IInv'
  BY StepIInv
<1> QED
  BY <1>1, <1>2, PTL DEF Spec

\* What front hands to the poller is the oldest unread message, complete, and
\* front returns null only when every pushed message was popped.
THEOREM ReaderIsRight == Spec => []ReaderFindsOldest
<1>1. IInv => ReaderHoldsOldest
  <2> SUFFICES ASSUME IInv, rpc = "have"
               PROVE  /\ popped < Pushed
                      /\ msgs[popped + 1].at = read_idx
                      /\ blk[read_idx] = msgs[popped + 1].size + HeaderBytes
                      /\ \A i \in BlocksOf(popped + 1) : data[i] = popped + 1
    BY DEF ReaderHoldsOldest
  <2>1. popped < Pushed /\ read_idx = msgs[popped + 1].at
    BY DEF IInv, ReaderInv
  <2>2. popped + 1 \in popped + 1 .. Pushed
    BY <2>1, OldestFacts
  <2> QED
    BY <2>1, <2>2 DEF IInv, UnreadIntact
<1>2. IInv => NullMeansEmpty
  <2> SUFFICES ASSUME IInv, blk[read_idx] = 0, rpc \in {"front", "first"}
               PROVE  popped = Pushed
    BY DEF NullMeansEmpty, IInv, ReaderInv
  <2>1. ~(popped < Pushed)
    <3> SUFFICES ASSUME popped < Pushed PROVE FALSE
      OBVIOUS
    <3>1. popped # Len(msgs)
      BY MsgFacts, PushedFacts DEF IInv
    <3>2. After(popped) = msgs[popped + 1].at
      BY <3>1 DEF After
    <3>3. read_idx # mark \/ Straight
      BY DEF IInv, WordInv
    <3>4. read_idx = msgs[popped + 1].at
      BY <3>2, <3>3 DEF IInv, ReaderInv
    <3>5. blk[read_idx] >= 8
      BY <3>4, OldestFacts
    <3> QED
      BY <3>5
  <2> QED
    BY <2>1, PoppedFacts
<1> QED
  BY <1>1, <1>2, Invariance, PTL DEF ReaderFindsOldest

-----------------------------------------------------------------------------
(* The ring implements the abstract queue: every step of the two threads   *)
(* publishes a message at the end, hands the first one to the reader,      *)
(* removes it, or changes nothing the two users can see.                   *)

\* Any message a thread may log, numbered, and none.
Published == [id : Nat \ {0}, size : Sizes]
None == [id |-> 0, size |-> 0]

\* The messages that are pushed and not popped, and the one the reader's words
\* and bytes describe while it has one.
UnreadMsgs == [k \in 1 .. Pushed - popped |->
                  [id |-> popped + k, size |-> msgs[popped + k].size]]
AtReader == IF rpc = "have"
            THEN [id |-> data[read_idx], size |-> blk[read_idx] - HeaderBytes]
            ELSE None

Queue == INSTANCE FifoQueue WITH
             Msgs <- Published, NoMsg <- None, queue <- UnreadMsgs, held <- AtReader

\* What is logged has one of the sizes that are ever logged.
SizeInv == (wpc # "idle" => req \in Sizes) /\ \A k \in 1 .. Len(msgs) : msgs[k].size \in Sizes

\* Every step keeps the sizes in the headers those of the messages.
LEMMA StepSizeInv ==
    ASSUME IInv, SizeInv, [Next]_vars
    PROVE  SizeInv'
<1>1. CASE \E s \in Sizes : Call(s)
  BY <1>1 DEF Call, SizeInv
<1>2. CASE Take
  <2>1. /\ req' = req /\ wpc = "take"
        /\ msgs' = Append(msgs, [at |-> write_idx, size |-> req])
    BY <1>2 DEF Take
  <2>2. msgs \in Seq([at : Blocks0, size : Nat]) /\ write_idx \in Blocks0 /\ req \in Nat
    BY DEF IInv, TypeInv
  <2>3. /\ Len(msgs') = Len(msgs) + 1 /\ msgs'[Len(msgs) + 1].size = req
        /\ \A k \in 1 .. Len(msgs) : msgs'[k] = msgs[k]
    BY <2>1, <2>2, AppendProperties
  <2>4. Len(msgs) \in Nat /\ req \in Sizes
    BY <2>1, <2>2 DEF SizeInv
  <2> QED
    BY <2>1, <2>3, <2>4 DEF SizeInv
<1>3. CASE AllocStep \/ Fill \/ Push
  BY <1>3 DEF AllocStep, EnterAlloc, LoadReadIdx, ResetFirst, MarkWrap, Fill, Push, SizeInv
<1>4. CASE ReaderStep \/ UNCHANGED vars
  BY <1>4 DEF ReaderStep, FrontLoad, FrontWrap, FrontFirst, Pop, SizeInv, vars, writerVars
<1> QED
  BY <1>1, <1>2, <1>3, <1>4 DEF Next, WriterStep

\* The words under a reader that has a message describe the oldest one.
HandInv ==
    /\ UnreadMsgs \in Seq(Published) /\ Len(UnreadMsgs) = Pushed - popped
    /\ rpc = "have" => /\ UnreadMsgs # <<>> /\ AtReader = Head(UnreadMsgs)
                       /\ AtReader # None

\* What front() returns is the oldest unread message.
LEMMA HandsOldest == IInv /\ SizeInv => HandInv
<1> SUFFICES ASSUME IInv, SizeInv PROVE HandInv
  OBVIOUS
<1> PICK len \in Nat : len = Pushed - popped
  BY PoppedFacts
<1>1. \A k \in 1 .. len : [id |-> popped + k, size |-> msgs[popped + k].size] \in Published
  <2> SUFFICES ASSUME NEW k \in 1 .. len
               PROVE  popped + k \in Nat \ {0} /\ msgs[popped + k].size \in Sizes
    BY DEF Published
  <2>1. popped + k \in 1 .. Len(msgs)
    BY PoppedFacts, MsgFacts DEF IInv
  <2> QED
    BY <2>1 DEF SizeInv
<1>2. UnreadMsgs \in Seq(Published) /\ Len(UnreadMsgs) = len
  <2>1. UnreadMsgs \in [1 .. len -> Published]
    BY <1>1 DEF UnreadMsgs
  <2> QED
    BY <2>1
<1>3. ASSUME rpc = "have"
      PROVE  /\ UnreadMsgs # <<>> /\ AtReader = Head(UnreadMsgs) /\ AtReader # None
  <2>1. popped < Pushed /\ read_idx = msgs[popped + 1].at
    BY <1>3 DEF IInv, ReaderInv
  <2>2. data[read_idx] = popped + 1
    <3>1. read_idx \in BlocksOf(popped + 1)
      BY <2>1, OldestFacts DEF BlocksOf
    <3>2. popped + 1 \in popped + 1 .. Pushed
      BY <2>1, OldestFacts
    <3> QED
      BY <3>1, <3>2 DEF IInv, UnreadIntact
  <2>3. blk[read_idx] - HeaderBytes = msgs[popped + 1].size
    BY <2>1, OldestFacts DEF HeaderBytes
  <2>4. AtReader = [id |-> popped + 1, size |-> msgs[popped + 1].size]
    BY <1>3, <2>2, <2>3 DEF AtReader
  <2>5. popped \in Nat /\ popped + 1 # 0 /\ 1 \in 1 .. len
    BY <2>1, PoppedFacts
  <2>6. UnreadMsgs # <<>> /\ Head(UnreadMsgs) = UnreadMsgs[1]
    BY <1>2, <2>5
  <2>7. UnreadMsgs[1] = [id |-> popped + 1, size |-> msgs[popped + 1].size]
    BY <2>5 DEF UnreadMsgs
  <2> QED
    BY <2>4, <2>5, <2>6, <2>7 DEF None
<1> QED
  BY <1>2, <1>3 DEF HandInv

\* A step that neither pushes nor pops shows nothing.
LEMMA UnseenStep ==
    ASSUME IInv, SizeInv, popped' = popped, Pushed' = Pushed,
           \A k \in 1 .. Pushed : msgs'[k] = msgs[k]
    PROVE  UnreadMsgs' = UnreadMsgs
<1>1. \A k \in 1 .. Pushed - popped : popped + k \in 1 .. Pushed
  BY PoppedFacts
<1> QED
  BY <1>1 DEF UnreadMsgs

\* The same in the next state.
LEMMA HandsOldestNext == (IInv /\ SizeInv)' => HandInv'
BY HandsOldest, PTL

\* What the two users see of a step.
LEMMA StepQueue ==
    ASSUME IInv, SizeInv, IInv', SizeInv', [Next]_vars
    PROVE  [Queue!FifoNext]_(Queue!fifoVars)
<1>1. HandInv /\ HandInv'
  BY HandsOldest, HandsOldestNext
<1>2. ASSUME UNCHANGED <<popped, wpc, msgs>>
      PROVE  UnreadMsgs' = UnreadMsgs
  BY <1>2 DEF UnreadMsgs, Pushed
<1>3. ASSUME UnreadMsgs' = UnreadMsgs, rpc' = rpc
      PROVE  UNCHANGED Queue!fifoVars
  <2>1. AtReader' = AtReader
    BY <1>1, <1>3 DEF HandInv, AtReader
  <2> QED
    BY <1>3, <2>1 DEF Queue!fifoVars
<1>4. ASSUME UnreadMsgs' = UnreadMsgs, rpc # "have", rpc' # "have"
      PROVE  UNCHANGED Queue!fifoVars
  BY <1>4 DEF AtReader, Queue!fifoVars
<1>5. ASSUME UnreadMsgs' = UnreadMsgs, rpc # "have", rpc' = "have"
      PROVE  Queue!Hand
  <2>1. AtReader = None
    BY <1>5 DEF AtReader
  <2>2. UnreadMsgs # <<>> /\ AtReader' = Head(UnreadMsgs)
    BY <1>1, <1>5 DEF HandInv
  <2> QED
    BY <1>5, <2>1, <2>2 DEF Queue!Hand
<1>6. CASE \E s \in Sizes : Call(s)
  <2>1. UNCHANGED <<popped, msgs, rpc>> /\ Pushed' = Pushed
    BY <1>6 DEF Call, readerVars, Pushed
  <2>2. UnreadMsgs' = UnreadMsgs
    BY <2>1 DEF UnreadMsgs
  <2> QED
    BY <1>3, <2>1, <2>2
<1>7. CASE AllocStep \/ Fill
  <2>1. UNCHANGED <<popped, msgs, rpc>> /\ Pushed' = Pushed
    BY <1>7 DEF AllocStep, EnterAlloc, LoadReadIdx, ResetFirst, MarkWrap, Fill, AfterNull,
                readerVars, Pushed
  <2>2. UnreadMsgs' = UnreadMsgs
    BY <2>1 DEF UnreadMsgs
  <2> QED
    BY <1>3, <2>1, <2>2
<1>8. CASE Take
  <2>1. /\ UNCHANGED <<popped, rpc>> /\ wpc = "take" /\ wpc' = "fill"
        /\ msgs' = Append(msgs, [at |-> write_idx, size |-> req])
    BY <1>8 DEF Take, readerVars
  <2>2. msgs \in Seq([at : Blocks0, size : Nat]) /\ write_idx \in Blocks0 /\ req \in Nat
    BY DEF IInv, TypeInv
  <2>3. /\ Len(msgs') = Len(msgs) + 1 /\ Len(msgs) \in Nat
        /\ \A k \in 1 .. Len(msgs) : msgs'[k] = msgs[k]
    BY <2>1, <2>2, AppendProperties
  <2>4. Pushed = Len(msgs) /\ Pushed' = Pushed
    BY <2>1, <2>3 DEF Pushed
  <2>5. UnreadMsgs' = UnreadMsgs
    BY <2>1, <2>3, <2>4, UnseenStep
  <2> QED
    BY <1>3, <2>1, <2>5
<1>9. CASE Push
  <2> PICK n \in Nat : n = Len(msgs)
    BY MsgFacts DEF IInv
  <2> DEFINE m == [id |-> n, size |-> req]
  <2>1. UNCHANGED <<popped, msgs, rpc, req>> /\ wpc = "push" /\ wpc' = "idle"
    BY <1>9 DEF Push, readerVars
  <2>2. Pushed = n - 1 /\ Pushed' = n /\ msgs[n].size = req /\ popped \in Nat /\ popped < n
    BY <2>1, NewMessage, PoppedFacts DEF Pushed
  <2>3. m \in Published
    BY <2>1, <2>2 DEF SizeInv, Published
  <2>4. UnreadMsgs' = Append(UnreadMsgs, m)
    <3> DEFINE l == n - 1 - popped
    <3>1. l \in Nat /\ l + 1 = n - popped
      BY <2>2
    <3> HIDE DEF l
    <3>2. UnreadMsgs \in Seq(Published) /\ UnreadMsgs' \in Seq(Published)
      BY <1>1 DEF HandInv
    <3>3. Len(UnreadMsgs) = l /\ Len(UnreadMsgs') = l + 1
      BY <1>1, <2>1, <2>2, <3>1 DEF HandInv, l
    <3>4. /\ Append(UnreadMsgs, m) \in Seq(Published)
          /\ Len(Append(UnreadMsgs, m)) = l + 1
          /\ \A i \in 1 .. l : Append(UnreadMsgs, m)[i] = UnreadMsgs[i]
          /\ Append(UnreadMsgs, m)[l + 1] = m
      BY <2>3, <3>1, <3>2, <3>3, AppendProperties
    <3>5. /\ UnreadMsgs = [k \in 1 .. l |->
                              [id |-> popped + k, size |-> msgs[popped + k].size]]
          /\ UnreadMsgs' = [k \in 1 .. l + 1 |->
                              [id |-> popped + k, size |-> msgs[popped + k].size]]
      <4>1. Pushed - popped = l /\ Pushed' - popped' = l + 1
        BY <2>1, <2>2, <3>1 DEF l
      <4> QED
        BY <2>1, <4>1 DEF UnreadMsgs
    <3>6. \A i \in 1 .. l : UnreadMsgs'[i] = UnreadMsgs[i]
      BY <3>1, <3>5
    <3>7. UnreadMsgs'[l + 1] = m
      <4>1. l + 1 \in 1 .. l + 1 /\ popped + (l + 1) = n
        BY <2>2, <3>1 DEF l
      <4> QED
        BY <2>2, <3>5, <4>1
    <3>8. \A i \in 1 .. l + 1 : UnreadMsgs'[i] = Append(UnreadMsgs, m)[i]
      BY <3>1, <3>4, <3>6, <3>7
    <3> QED
      BY <3>2, <3>3, <3>4, <3>8, SeqEqual
  <2>5. AtReader' = AtReader
    <3>1. ASSUME rpc = "have" PROVE AtReader' = AtReader
      <4>1. UnreadMsgs \in Seq(Published) /\ UnreadMsgs # <<>>
        BY <1>1, <3>1 DEF HandInv
      <4>2. Head(UnreadMsgs') = Head(UnreadMsgs)
        BY <2>4, <4>1, HeadTailAppend
      <4> QED
        BY <1>1, <2>1, <3>1, <4>2 DEF HandInv
    <3>2. rpc # "have" => AtReader' = AtReader
      BY <2>1 DEF AtReader
    <3> QED
      BY <3>1, <3>2
  <2>6. Queue!Publish(m)
    BY <2>4, <2>5 DEF Queue!Publish
  <2> QED
    BY <2>3, <2>6 DEF Queue!FifoNext
<1>10. CASE FrontLoad \/ FrontWrap \/ FrontFirst
  <2>1. UNCHANGED <<popped, msgs, wpc>> /\ rpc # "have"
    BY <1>10 DEF FrontLoad, FrontWrap, FrontFirst, writerVars
  <2>2. UnreadMsgs' = UnreadMsgs
    BY <1>2, <2>1
  <2>3. CASE rpc' = "have"
    BY <1>5, <2>1, <2>2, <2>3 DEF Queue!FifoNext
  <2>4. CASE rpc' # "have"
    BY <1>4, <2>1, <2>2, <2>4
  <2> QED
    BY <2>3, <2>4
<1>11. CASE Pop
  <2>1. UNCHANGED <<msgs, wpc>> /\ rpc = "have" /\ rpc' = "front" /\ popped' = popped + 1
    BY <1>11 DEF Pop, writerVars
  <2>2. Pushed' = Pushed
    BY <2>1 DEF Pushed
  <2>3. AtReader # None /\ AtReader' = None
    BY <1>1, <2>1 DEF HandInv, AtReader
  <2>4. UnreadMsgs' = Tail(UnreadMsgs)
    <3>1. /\ UnreadMsgs \in Seq(Published) /\ UnreadMsgs' \in Seq(Published)
          /\ UnreadMsgs # <<>>
      BY <1>1, <2>1 DEF HandInv
    <3> PICK l \in Nat : l = Pushed - popped - 1
      BY <2>1, <2>2, PoppedFacts, <1>1, <3>1 DEF IInv, ReaderInv
    <3>2. Len(UnreadMsgs) = l + 1 /\ Len(UnreadMsgs') = l
      BY <1>1, <2>1, <2>2, PoppedFacts DEF HandInv
    <3>3. /\ Tail(UnreadMsgs) \in Seq(Published) /\ Len(Tail(UnreadMsgs)) = l
          /\ \A i \in 1 .. l : Tail(UnreadMsgs)[i] = UnreadMsgs[i + 1]
      BY <3>1, <3>2, HeadTailProperties
    <3>4. ASSUME NEW i \in 1 .. l PROVE UnreadMsgs'[i] = UnreadMsgs[i + 1]
      <4>1. i \in 1 .. Pushed' - popped' /\ i + 1 \in 1 .. Pushed - popped
        BY <2>1, <2>2, PoppedFacts
      <4>2. popped + 1 + i = popped + (i + 1)
        BY PoppedFacts
      <4> QED
        BY <2>1, <4>1, <4>2 DEF UnreadMsgs
    <3> QED
      BY <3>1, <3>2, <3>3, <3>4, SeqEqual
  <2> QED
    BY <2>3, <2>4 DEF Queue!Remove, Queue!FifoNext
<1>12. CASE UNCHANGED vars
  <2>1. UNCHANGED <<popped, msgs, wpc, rpc>>
    BY <1>12 DEF vars, writerVars, readerVars
  <2> QED
    BY <1>2, <1>3, <2>1
<1> QED
  BY <1>6, <1>7, <1>8, <1>9, <1>10, <1>11, <1>12 DEF Next, WriterStep, ReaderStep

\* The two threads use the ring as the queue FifoQueue describes: messages are
\* published one by one, and the reader is handed the oldest and removes it.
THEOREM RingIsQueue == Spec => Queue!FifoInit /\ [][Queue!FifoNext]_(Queue!fifoVars)
<1>1. Init => Queue!FifoInit
  <2> SUFFICES ASSUME Init PROVE UnreadMsgs = <<>> /\ AtReader = None
    BY DEF Queue!FifoInit
  <2>1. Pushed - popped = 0 /\ rpc # "have"
    BY DEF Init, Pushed
  <2> QED
    BY <2>1 DEF UnreadMsgs, AtReader
<1>2. Init => SizeInv
  BY DEF Init, SizeInv
<1>3. IInv /\ SizeInv /\ [Next]_vars => SizeInv'
  BY StepSizeInv
<1>4. IInv /\ SizeInv /\ IInv' /\ SizeInv' /\ [Next]_vars
        => [Queue!FifoNext]_(Queue!fifoVars)
  BY StepQueue
<1>5. Spec => []SizeInv
  BY <1>2, <1>3, Invariance, PTL DEF Spec
<1> QED
  BY <1>1, <1>4, <1>5, Invariance, PTL DEF Spec
=============================================================================
