--------------------------- MODULE DependencyGraph ---------------------------
(***************************************************************************)
(* GraphImpl as a value.  outgoings and incomings are maps of maps: a node *)
(* may have an entry, possibly empty, or none, and the difference matters  *)
(* to remove_vertex.  The GraphEdgeID of an edge is one object reached     *)
(* from both maps; here it is a value id that AddEdge is given.            *)
(***************************************************************************)
EXTENDS Integers, FiniteSets

\* A graph: the nodes with an entry in each map, and the entries' contents.
NoGraph == [froms |-> {}, out |-> {}, tos |-> {}, in |-> {}]

Arc(f, t, id) == [from |-> f, to |-> t, id |-> id]
Between(arcs, f, t) == {a \in arcs : a.from = f /\ a.to = t}
Without(arcs, f, t) == arcs \ Between(arcs, f, t)

\* emplace: an edge that is there already keeps its first id.
Emplace(arcs, f, t, id) ==
    IF Between(arcs, f, t) = {} THEN arcs \cup {Arc(f, t, id)} ELSE arcs

AddBackwards(g, f, t, id) ==                       \* variant: incomings swapped
    [froms |-> g.froms \cup {f}, out |-> Emplace(g.out, f, t, id),
     tos |-> g.tos \cup {f}, in |-> Emplace(g.in, t, f, id)]
AddEdge(g, f, t, id) ==
    [froms |-> g.froms \cup {f}, out |-> Emplace(g.out, f, t, id),
     tos |-> g.tos \cup {t}, in |-> Emplace(g.in, f, t, id)]

\* remove_edge(from, to) returns early for a node without an entry; else
\* incomings[to] makes an entry if there was none.
RemoveEdge(g, f, t) ==
    IF f \notin g.froms THEN g
    ELSE [g EXCEPT !.out = Without(@, f, t),
                   !.tos = @ \cup {t}, !.in = Without(@, f, t)]

\* The first half of remove_vertex: node's own edges and its entry.
LeavesIn(g, n) ==                                  \* variant: incomings forgotten
    [g EXCEPT !.froms = @ \ {n}, !.out = {a \in @ : a.from # n}]
DropOut(g, n) ==
    [g EXCEPT !.froms = @ \ {n},
              !.out = {a \in @ : a.from # n},
              !.in = {a \in @ : ~(a.from = n /\ Between(g.out, n, a.to) # {})}]

\* The second half, for a node that has an entry in incomings.
DropIn(g, n) ==
    [g EXCEPT !.froms = @ \cup {a.from : a \in {b \in g.in : b.to = n}},
              !.out = {a \in @ : ~(a.to = n /\ Between(g.in, a.from, n) # {})},
              !.tos = @ \ {n},
              !.in = {a \in @ : a.to # n}]

\* remove_vertex returns early, and removes nothing, for a node without an
\* entry in outgoings.
RemoveVertex(g, n) ==
    IF n \notin g.froms THEN g
    ELSE IF n \notin DropOut(g, n).tos THEN DropOut(g, n)
    ELSE DropIn(DropOut(g, n), n)

\* foreach_neighbors and foreach_inv_neighbors.
Neighbors(g, n) == {a.to : a \in {b \in g.out : b.from = n}}
InvNeighbors(g, n) == {a.from : a \in {b \in g.in : b.to = n}}

\* Every node the two maps refer to.
NodesOf(g) == g.froms \cup g.tos \cup {a.to : a \in g.out} \cup {a.from : a \in g.in}
=============================================================================
