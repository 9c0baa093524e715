----------------------------- MODULE GraphEdges ------------------------------
(***************************************************************************)
(* The public Graph with the caller's GraphEdge objects.  add_edge makes a *)
(* GraphEdgeID, reachable from both maps and from the GraphEdge; removing  *)
(* deletes it, and the GraphEdge's pointer to it stays.  The caller adds a *)
(* GraphEdge that is in no graph, and removes by one that was added.       *)
(***************************************************************************)
EXTENDS DependencyGraph

CONSTANTS GraphNodes, Edges,
          MaxIds       \* bound: GraphEdgeIDs ever made

NoEdge == "nullptr"
NoId == 0
Ids == 1 .. MaxIds

ASSUME BoundsAssumption == MaxIds \in Nat /\ NoEdge \notin Edges

VARIABLES graph,
          edge_of,     \* the edge of each GraphEdgeID made so far, in order
          id_of,       \* GraphEdge::id
          ends,        \* from and to of each GraphEdgeID
          deleted      \* the GraphEdgeIDs that were deleted

vars == <<graph, edge_of, id_of, ends, deleted>>

Init ==
    /\ graph = NoGraph /\ deleted = {}
    /\ edge_of = [i \in Ids |-> NoEdge] /\ ends = [i \in Ids |-> <<>>]
    /\ id_of = [e \in Edges |-> NoId]

Made == {i \in Ids : ends[i] # <<>>}
Arcs(n) == {a.id : a \in {b \in graph.out : b.from = n}}
InGraph(e) == \E a \in graph.out : edge_of[a.id] = e

\* if (edge) edge->id = edge_id.
NotAttached(e, i) == id_of                         \* variant: id not stored
Attached(e, i) == IF e = NoEdge THEN id_of ELSE [id_of EXCEPT ![e] = i]

add_edge(f, t, e) ==
    /\ e = NoEdge \/ ~InGraph(e)
    /\ LET i == Cardinality(Made) + 1
       IN  /\ i \in Ids
           /\ edge_of' = [edge_of EXCEPT ![i] = e] /\ ends' = [ends EXCEPT ![i] = <<f, t>>]
           /\ id_of' = Attached(e, i)
           /\ graph' = AddEdge(graph, f, t, i)
    /\ UNCHANGED deleted

remove_edge(f, t) ==
    /\ graph' = RemoveEdge(graph, f, t)
    /\ deleted' = deleted \cup {a.id : a \in Between(graph.out, f, t)}
    /\ UNCHANGED <<edge_of, id_of, ends>>

\* By its GraphEdge: the nodes are read from the GraphEdgeID.
remove_edge_of(e) ==
    /\ id_of[e] # NoId /\ id_of[e] \notin deleted
    /\ remove_edge(ends[id_of[e]][1], ends[id_of[e]][2])

\* The edges out of n are deleted; those into n are only forgotten.
remove_vertex(n) ==
    /\ graph' = RemoveVertex(graph, n)
    /\ deleted' = deleted \cup (IF n \in graph.froms THEN Arcs(n) ELSE {})
    /\ UNCHANGED <<edge_of, id_of, ends>>

clear ==
    /\ graph' = NoGraph
    /\ deleted' = deleted \cup {a.id : a \in graph.out}
    /\ UNCHANGED <<edge_of, id_of, ends>>

Next ==
    \/ \E f, t \in GraphNodes : remove_edge(f, t) \/ \E e \in Edges \cup {NoEdge} : add_edge(f, t, e)
    \/ \E e \in Edges : remove_edge_of(e)
    \/ \E n \in GraphNodes : remove_vertex(n)
    \/ clear

Spec == Init /\ [][Next]_vars

-----------------------------------------------------------------------------
(* Properties.                                                             *)

TypeInv ==
    /\ graph.froms \subseteq GraphNodes /\ graph.tos \subseteq GraphNodes
    /\ \A a \in graph.out \cup graph.in :
          /\ a.id \in Made /\ ends[a.id] = <<a.from, a.to>>
          /\ a \in graph.out => a.from \in graph.froms
          /\ a \in graph.in => a.to \in graph.tos

\* The two maps hold the same edges with the same GraphEdgeIDs, one between two
\* nodes, whatever was added twice, removed out of order or taken with a node.
MapsAgree ==
    /\ graph.out = graph.in
    /\ \A a, b \in graph.out : a.from = b.from /\ a.to = b.to => a = b

\* Nothing a traversal follows was deleted, clear deletes nothing twice, and the
\* GraphEdge that a traversal yields leads back: its from and to are the nodes it
\* was found between.
OnlyLiveReached ==
    /\ TypeInv
    /\ \A a \in graph.out \cup graph.in : a.id \notin deleted
    /\ \A a \in graph.out : edge_of[a.id] # NoEdge => id_of[edge_of[a.id]] = a.id
=============================================================================
