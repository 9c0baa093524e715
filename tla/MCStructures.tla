---------------------------- MODULE MCStructures -----------------------------
(***************************************************************************)
(* The data structures, component by component: the Graph with its edge    *)
(* objects, the heap of poll, the parameters of its clock, yyjson's        *)
(* allocators, containers, trees and pointers.  An initial state picks one *)
(* component of Parts, and only that one moves.  The graph, the heap, the  *)
(* clock and the allocators have variables of their own, which stay as     *)
(* they are for the others; v1 .. v4 are those of the other components.    *)
(***************************************************************************)
EXTENDS GraphEdges, BufferHeap, Tscns, YYMemory

CONSTANTS Parts, ka, kb

VARIABLES part, v1, v2, v3, v4

own == <<v1, v2, v3, v4>>
mcvars == <<part, vars, heapVars, clockVars, memVars, own>>

Containers == INSTANCE YYMutDoc WITH MaxValues <- 4, MaxPairs <- 3, Keys <- {ka, kb}, Data <- {1, 2},
                kind <- v1, m <- v2, it <- v3, ret <- v4

Trees == INSTANCE YYTree WITH tree <- v1, form <- v2, mem <- v3

Pointer == INSTANCE YYPointer WITH MaxNodes <- 3, SafeDig <- 2, doc <- v1, ret <- v2

-----------------------------------------------------------------------------
\* A component that does not move starts in any one of its states.
MCInit ==
    /\ part \in Parts
    /\ Init
    /\ HeapInit  /\ (part # "heap" => heap = <<0>>)
    /\ ClockInit /\ (part # "clock" => param.ns_per_tsc = CHOOSE s \in Slopes : TRUE)
    /\ MemInit   /\ (part # "memory" => alc = "dyn")
    /\ \/ /\ part \in {"graph", "heap", "clock", "memory"}
          /\ v1 = None /\ v2 = None /\ v3 = None /\ v4 = None
       \/ part = "containers" /\ Containers!Init
       \/ part = "trees"      /\ Trees!Init      /\ v4 = None
       \/ part = "pointer"    /\ Pointer!Init    /\ v3 = None /\ v4 = None

MCNext ==
    /\ UNCHANGED part
    /\ \/ part = "graph"  /\ Next      /\ UNCHANGED <<heapVars, clockVars, memVars, own>>
       \/ part = "heap"   /\ HeapNext  /\ UNCHANGED <<vars, clockVars, memVars, own>>
       \/ part = "clock"  /\ ClockNext /\ UNCHANGED <<vars, heapVars, memVars, own>>
       \/ part = "memory" /\ MemNext   /\ UNCHANGED <<vars, heapVars, clockVars, own>>
       \/ /\ UNCHANGED <<vars, heapVars, clockVars, memVars>>
          /\ \/ part = "containers" /\ Containers!Next
             \/ part = "trees"      /\ Trees!Next      /\ UNCHANGED v4
             \/ part = "pointer"    /\ Pointer!Next    /\ UNCHANGED <<v3, v4>>

\* The arguments of the last call make no difference to what comes next.
View == CASE part = "containers" -> <<part, Containers!View>>
          [] part = "pointer"    -> <<part, Pointer!View>>
          [] OTHER               -> mcvars

\* Nothing tells one node of the graph, or one key of the containers, from another.
Symmetric == Permutations(GraphNodes) \cup Permutations({ka, kb})

-----------------------------------------------------------------------------
(* Properties, with those of the graph, the heap, the clock and memory.    *)

\* A mutable array or object of yyjson, read around its circle, is the sequence
\* that its calls say, for every order of calls, iterators and pointer contexts: it
\* implements JsonContainer.
Container == INSTANCE JsonContainer WITH kind <- v1, items <- Containers!Items,
               pos <- Containers!Position, ret <- v4, Keys <- {ka, kb}, Vals <- 1 .. 4
ImplementsContainer ==
    /\ part = "containers" => Container!Init
    /\ [][part = "containers" => [Container!Next]_(Container!vars)]_mcvars

Flats == [x \in Trees!Others |-> Trees!Flat(x)]
Heaps == [x \in Trees!Others |-> Trees!val_mut_copy(Flats[x])]

\* Copies between the mutable and the immutable form keep the value, fit the pools
\* that were measured for them, and the equality functions call equal exactly what
\* is the same value.
CopiesKeepTree == part = "trees" => Trees!CopiesKeepTree /\ Trees!EqualMeansSame(Flats, Heaps)

\* JSON pointers find what RFC 6901 says.
PointerIsRfc6901 == part = "pointer" => Pointer!PointerIsRfc6901

\* What is put through a pointer is found there, and nothing else changes.
PutChangesOnlyThere == [][part = "pointer" => Pointer!PutIsRead /\ Pointer!ChangesOnlyThere]_mcvars

\* A merge patch merges as RFC 7386 says.
MergeIsRfc7386 == [][part = "pointer" => Pointer!MergeIsRfc7386]_mcvars
=============================================================================
