----------------------------- MODULE BufferHeap ------------------------------
(***************************************************************************)
(* adjustHeap: how poll finds the oldest cached front among the buffers.   *)
(* bgThreadBuffers is kept as a binary heap on the timestamp of header, a  *)
(* node without one (null) counting as youngest.  poll builds the heap     *)
(* bottom up, then takes the root again and again; LogSystem relies on     *)
(* nothing but RootIsOldest.                                               *)
(***************************************************************************)
EXTENDS Integers, Sequences

CONSTANTS MaxNodes,   \* bound: buffers, at least one
          MaxStamp    \* bound: timestamps

NoHeader == MaxStamp + 1         \* header is null
Stamps == 0 .. MaxStamp

ASSUME HeapBounds == MaxNodes \in Nat /\ MaxStamp \in Nat

VARIABLES heap,    \* the timestamp of each node's header, from index 0 on
          i,       \* adjustHeap's argument and cursor
          next,    \* build loop: the next i, -1 once poll takes messages
          settled  \* adjustHeap has returned

heapVars == <<heap, i, next, settled>>

Nodes == DOMAIN heap
Size == Len(heap)
At(n) == heap[n + 1]

HeapInit ==
    /\ heap \in UNION {[1 .. n -> Stamps \cup {NoHeader}] : n \in 1 .. MaxNodes}
    /\ i = Size \div 2 /\ next = Size \div 2 - 1 /\ settled = FALSE

\* The children of node n, and the one of n and them with the smallest stamp;
\* the first child wins against an equal second one, the parent against both.
LeftOnly(n) == {n * 2 + 1} \cap 0 .. Size - 1      \* variant: the second child missed
Children(n) == (n * 2 + 1 .. n * 2 + 2) \cap 0 .. Size - 1

Younger(a, b) == At(a) < At(b)

MinOf(n) ==
    IF \A c \in Children(n) : ~Younger(c, n) THEN n
    ELSE CHOOSE c \in Children(n) :
             \A d \in Children(n) : ~Younger(d, c) /\ (At(d) = At(c) => c <= d)

\* One turn of adjustHeap's loop.
SiftDown ==
    /\ ~settled /\ MinOf(i) # i
    /\ heap' = [heap EXCEPT ![i + 1] = At(MinOf(i)), ![MinOf(i) + 1] = At(i)]
    /\ i' = MinOf(i)
    /\ UNCHANGED <<next, settled>>

SiftEnd ==
    /\ ~settled /\ MinOf(i) = i
    /\ settled' = TRUE
    /\ UNCHANGED <<heap, i, next>>

\* The build loop of poll calls adjustHeap for size / 2 down to 0.
BuildNext ==
    /\ settled /\ next >= 0
    /\ i' = next /\ next' = next - 1 /\ settled' = FALSE
    /\ UNCHANGED heap

\* poll takes the root: its next front is not older, or there is none.
TakeRoot ==
    /\ settled /\ next = -1 /\ At(0) # NoHeader
    /\ \E s \in At(0) .. NoHeader : heap' = [heap EXCEPT ![1] = s]
    /\ i' = 0 /\ settled' = FALSE
    /\ UNCHANGED next

HeapNext == SiftDown \/ SiftEnd \/ BuildNext \/ TakeRoot

HeapSpec == HeapInit /\ [][HeapNext]_heapVars

\* Whenever poll looks at node 0, no node has an older front: a null root means
\* that nothing is left, and the break on the root's age leaves nothing behind.
RootIsOldest ==
    settled /\ next = -1 => \A n \in Nodes : At(0) <= heap[n]

HeapTypeInv ==
    /\ heap \in Seq(0 .. NoHeader) /\ Len(heap) >= 1
    /\ i \in 0 .. Size - 1 /\ next \in -1 .. Size - 1
    /\ settled \in BOOLEAN

\* No node that the build loop has come to has a later front than its children, but for the
\* one being sifted; and its parent, where the loop has come to it, none later than those.
Ordered ==
    \A p \in next + 1 .. Size - 1 : \A c \in Children(p) :
        /\ settled \/ p # i => At(p) <= At(c)
        /\ ~settled /\ c = i => \A d \in Children(i) : At(p) <= At(d)

HeapInv == HeapTypeInv /\ next < i + 1 /\ Ordered
=============================================================================
