-------------------------- MODULE GraphEdgesProofs ---------------------------
(***************************************************************************)
(* The two maps of a Graph agree, and every GraphEdgeID they hold is alive *)
(* and leads back to its edge, for every set of nodes and of edges and     *)
(* however many GraphEdgeIDs are made.  The first lemmas are each about    *)
(* one function of GraphImpl on a graph of any content.                    *)
(***************************************************************************)
EXTENDS GraphEdges, FiniteSetTheorems, TLAPS

\* One edge between two nodes, in a set of arcs.
OneEach(arcs) == \A x, y \in arcs : x.from = y.from /\ x.to = y.to => x = y

\* The graphs of which MapsAgree is true.
Agreeing == {g \in [froms : SUBSET GraphNodes, out : SUBSET [from : GraphNodes, to : GraphNodes, id : Ids],
                    tos : SUBSET GraphNodes, in : SUBSET [from : GraphNodes, to : GraphNodes, id : Ids]] :
                g.out = g.in /\ OneEach(g.out)}

\* The graph with no entry in either map agrees: Init and clear.
LEMMA EmptyAgrees == NoGraph \in Agreeing
  BY DEF NoGraph, Agreeing, OneEach

\* emplace adds no second edge between the same nodes.
LEMMA EmplaceOnce ==
  ASSUME NEW arcs \in SUBSET [from : GraphNodes, to : GraphNodes, id : Ids], OneEach(arcs),
         NEW f \in GraphNodes, NEW t \in GraphNodes, NEW i \in Ids
  PROVE  /\ Emplace(arcs, f, t, i) \in SUBSET [from : GraphNodes, to : GraphNodes, id : Ids]
         /\ OneEach(Emplace(arcs, f, t, i))
  <1>1. CASE Between(arcs, f, t) = {}
    <2>1. Emplace(arcs, f, t, i) = arcs \cup {Arc(f, t, i)}
      BY <1>1 DEF Emplace
    <2>2. Arc(f, t, i) \in [from : GraphNodes, to : GraphNodes, id : Ids]
      BY DEF Arc
    <2>3. Arc(f, t, i).from = f /\ Arc(f, t, i).to = t
      BY DEF Arc
    <2>4. \A x \in arcs : ~(x.from = f /\ x.to = t)
      BY <1>1 DEF Between
    <2> QED
      BY <2>1, <2>2, <2>3, <2>4 DEF OneEach
  <1>2. CASE Between(arcs, f, t) # {}
    BY <1>2 DEF Emplace
  <1> QED
    BY <1>1, <1>2

\* add_edge: both maps get the edge, or both keep the one they have.
LEMMA AddAgrees ==
  ASSUME NEW g \in Agreeing, NEW f \in GraphNodes, NEW t \in GraphNodes, NEW i \in Ids
  PROVE  AddEdge(g, f, t, i) \in Agreeing
  <1>1. /\ g.froms \in SUBSET GraphNodes /\ g.tos \in SUBSET GraphNodes
        /\ g.out \in SUBSET [from : GraphNodes, to : GraphNodes, id : Ids]
        /\ g.out = g.in /\ OneEach(g.out)
    BY DEF Agreeing
  <1>2. /\ Emplace(g.out, f, t, i) \in SUBSET [from : GraphNodes, to : GraphNodes, id : Ids]
        /\ OneEach(Emplace(g.out, f, t, i))
    BY <1>1, EmplaceOnce
  <1> QED
    BY <1>1, <1>2 DEF AddEdge, Agreeing

\* remove_edge: an early return, or the edge leaves both maps.
LEMMA RemoveEdgeAgrees ==
  ASSUME NEW g \in Agreeing, NEW f \in GraphNodes, NEW t \in GraphNodes
  PROVE  RemoveEdge(g, f, t) \in Agreeing
  BY DEF RemoveEdge, Without, Between, Agreeing, OneEach

\* The first half of remove_vertex takes the node's own edges from both maps.
LEMMA DropOutAgrees ==
  ASSUME NEW g \in Agreeing, NEW n \in GraphNodes
  PROVE  DropOut(g, n) \in Agreeing
  <1>1. \A a \in g.in : a.from = n => a \in Between(g.out, n, a.to)
    BY DEF Agreeing, Between
  <1>2. {a \in g.in : ~(a.from = n /\ Between(g.out, n, a.to) # {})} = {a \in g.out : a.from # n}
    BY <1>1 DEF Agreeing
  <1> QED
    BY <1>2 DEF DropOut, Agreeing, OneEach

\* The second half takes the edges into the node.
LEMMA DropInAgrees ==
  ASSUME NEW g \in Agreeing, NEW n \in GraphNodes
  PROVE  DropIn(g, n) \in Agreeing
  <1>1. \A a \in g.out : a.to = n => a \in Between(g.in, a.from, n)
    BY DEF Agreeing, Between
  <1>2. {a \in g.out : ~(a.to = n /\ Between(g.in, a.from, n) # {})} = {a \in g.in : a.to # n}
    BY <1>1 DEF Agreeing
  <1>3. {a.from : a \in {b \in g.in : b.to = n}} \subseteq GraphNodes
    BY DEF Agreeing
  <1> QED
    BY <1>2, <1>3 DEF DropIn, Agreeing, OneEach

\* remove_vertex keeps the two directions of the edges in agreement.
LEMMA RemoveVertexAgrees ==
  ASSUME NEW g \in Agreeing, NEW n \in GraphNodes
  PROVE  RemoveVertex(g, n) \in Agreeing
  BY DropOutAgrees, DropInAgrees DEF RemoveVertex

-----------------------------------------------------------------------------
(* The edge that remove_edge_of names lies between nodes: its GraphEdge    *)
(* points to a GraphEdgeID that was made, and those have two nodes.        *)

EndsInv ==
    /\ ends \in [Ids -> {<<>>} \cup (GraphNodes \X GraphNodes)]
    /\ id_of \in [Edges -> {NoId} \cup Ids]
    /\ \A e \in Edges : id_of[e] # NoId => ends[id_of[e]] # <<>>

AgreeInv == graph \in Agreeing /\ EndsInv

\* An empty graph agrees.
LEMMA InitAgrees == Init => AgreeInv
  BY EmptyAgrees, BoundsAssumption DEF Init, AgreeInv, EndsInv, Ids, NoId

\* add_edge makes one GraphEdgeID and points the GraphEdge, if any, to it.
LEMMA AddStep ==
  ASSUME AgreeInv, NEW f \in GraphNodes, NEW t \in GraphNodes, NEW e \in Edges \cup {NoEdge},
         add_edge(f, t, e)
  PROVE  AgreeInv'
  <1>1. PICK i \in Ids : /\ ends' = [ends EXCEPT ![i] = <<f, t>>]
                         /\ id_of' = Attached(e, i)
                         /\ graph' = AddEdge(graph, f, t, i)
    BY DEF add_edge
  <1>2. graph' \in Agreeing
    BY <1>1, AddAgrees DEF AgreeInv
  <1>3. ends' \in [Ids -> {<<>>} \cup (GraphNodes \X GraphNodes)]
    BY <1>1 DEF AgreeInv, EndsInv
  <1>4. id_of' \in [Edges -> {NoId} \cup Ids]
    BY <1>1 DEF AgreeInv, EndsInv, Attached
  <1>5. ends'[i] # <<>> /\ \A j \in Ids : ends[j] # <<>> => ends'[j] # <<>>
    BY <1>1 DEF AgreeInv, EndsInv
  <1>6. ASSUME NEW d \in Edges, id_of'[d] # NoId
        PROVE  ends'[id_of'[d]] # <<>>
    <2>1. id_of'[d] = i \/ id_of'[d] = id_of[d]
      BY <1>1 DEF AgreeInv, EndsInv, Attached
    <2>2. CASE id_of'[d] = i
      BY <2>2, <1>5
    <2>3. CASE id_of'[d] = id_of[d]
      BY <2>3, <1>5, <1>6 DEF AgreeInv, EndsInv
    <2> QED
      BY <2>1, <2>2, <2>3
  <1> QED
    BY <1>2, <1>3, <1>4, <1>6 DEF AgreeInv, EndsInv

\* Every step keeps the agreement.
LEMMA StepAgrees == AgreeInv /\ [Next]_vars => AgreeInv'
  <1> SUFFICES ASSUME AgreeInv, [Next]_vars
               PROVE  AgreeInv'
    OBVIOUS
  <1>1. ASSUME NEW f \in GraphNodes, NEW t \in GraphNodes, remove_edge(f, t)
        PROVE  AgreeInv'
    BY <1>1, RemoveEdgeAgrees DEF remove_edge, AgreeInv, EndsInv
  <1>2. ASSUME NEW f \in GraphNodes, NEW t \in GraphNodes, NEW e \in Edges \cup {NoEdge},
               add_edge(f, t, e)
        PROVE  AgreeInv'
    BY <1>2, AddStep
  <1>3. ASSUME NEW e \in Edges, remove_edge_of(e)
        PROVE  AgreeInv'
    <2>1. ends[id_of[e]] \in GraphNodes \X GraphNodes
      BY <1>3 DEF remove_edge_of, AgreeInv, EndsInv
    <2>2. ends[id_of[e]][1] \in GraphNodes /\ ends[id_of[e]][2] \in GraphNodes
      BY <2>1
    <2> QED
      BY <1>3, <2>2, <1>1 DEF remove_edge_of
  <1>4. ASSUME NEW n \in GraphNodes, remove_vertex(n)
        PROVE  AgreeInv'
    BY <1>4, RemoveVertexAgrees DEF remove_vertex, AgreeInv, EndsInv
  <1>5. CASE clear
    BY <1>5, EmptyAgrees DEF clear, AgreeInv, EndsInv
  <1>6. CASE UNCHANGED vars
    BY <1>6 DEF vars, AgreeInv, EndsInv
  <1> QED
    BY <1>1, <1>2, <1>3, <1>4, <1>5, <1>6 DEF Next

\* Whatever edges and vertices are added, added twice and removed, in any order,
\* outgoings and incomings hold the same edges, and one between two nodes.
THEOREM Agreement == Spec => []MapsAgree
  <1>1. AgreeInv => MapsAgree
    BY DEF AgreeInv, Agreeing, OneEach, MapsAgree
  <1> QED
    BY InitAgrees, StepAgrees, <1>1, PTL DEF Spec

-----------------------------------------------------------------------------
(* The GraphEdgeIDs.  They are made once each, so what was deleted or is   *)
(* no longer in a graph never comes back; and an id lies between the nodes *)
(* it was made for, so two edges never share one.                          *)

\* Every edge has an entry at both its ends.
Rooted(g) == \A a \in g.out : a.from \in g.froms /\ a.to \in g.tos

LiveInv ==
    /\ AgreeInv /\ Rooted(graph)
    /\ \E k \in Nat : Made = 1 .. k
    /\ deleted \subseteq Made /\ edge_of \in [Ids -> Edges \cup {NoEdge}]
    /\ \A a \in graph.out :
          /\ a.id \in Made /\ ends[a.id] = <<a.from, a.to>> /\ a.id \notin deleted
          /\ edge_of[a.id] # NoEdge => id_of[edge_of[a.id]] = a.id

\* An empty graph has no GraphEdgeID to lose.
LEMMA InitLive == Init => LiveInv
  <1> SUFFICES ASSUME Init PROVE LiveInv
    OBVIOUS
  <1>1. graph.out = {} /\ Made = 1 .. 0
    BY DEF Init, NoGraph, Made
  <1> QED
    BY <1>1, InitAgrees DEF Init, LiveInv, Rooted

\* Two edges of a graph never share a GraphEdgeID.
LEMMA OwnId ==
  ASSUME LiveInv, NEW a \in graph.out, NEW b \in graph.out, a.id = b.id
  PROVE  a = b
  <1>1. <<a.from, a.to>> = <<b.from, b.to>>
    BY DEF LiveInv
  <1> QED
    BY <1>1 DEF LiveInv, AgreeInv, Agreeing, OneEach

\* A step that only takes edges away, and deletes the ids of edges it takes.
LEMMA TakenAway ==
  ASSUME LiveInv, AgreeInv', Rooted(graph'), graph'.out \subseteq graph.out,
         UNCHANGED <<edge_of, id_of, ends>>,
         NEW gone \in SUBSET graph.out, gone \cap graph'.out = {},
         deleted' = deleted \cup {a.id : a \in gone}
  PROVE  LiveInv'
  <1>1. Made' = Made
    BY DEF Made
  <1>2. deleted' \subseteq Made
    BY DEF LiveInv
  <1>3. \A a \in graph'.out : a.id \notin deleted'
    <2> SUFFICES ASSUME NEW a \in graph'.out, NEW b \in gone, a.id = b.id
                 PROVE  FALSE
      BY DEF LiveInv
    <2>1. a = b
      BY OwnId
    <2> QED
      BY <2>1
  <1> QED
    BY <1>1, <1>2, <1>3 DEF LiveInv

\* remove_edge takes all edges between two nodes and adds none.
LEMMA RemoveEdgeLess ==
  ASSUME NEW g \in Agreeing, Rooted(g), NEW f \in GraphNodes, NEW t \in GraphNodes
  PROVE  /\ RemoveEdge(g, f, t).out \subseteq g.out /\ Rooted(RemoveEdge(g, f, t))
         /\ Between(g.out, f, t) \cap RemoveEdge(g, f, t).out = {}
  <1>1. CASE f \notin g.froms
    BY <1>1 DEF RemoveEdge, Rooted, Between
  <1>2. CASE f \in g.froms
    BY <1>2 DEF RemoveEdge, Rooted, Between, Without, Agreeing
  <1> QED
    BY <1>1, <1>2

\* remove_vertex of a node with an entry takes all its own edges.
LEMMA RemoveVertexLess ==
  ASSUME NEW g \in Agreeing, Rooted(g), NEW n \in GraphNodes
  PROVE  /\ RemoveVertex(g, n).out \subseteq g.out /\ Rooted(RemoveVertex(g, n))
         /\ n \in g.froms => \A a \in RemoveVertex(g, n).out : a.from # n
  <1>1. /\ DropOut(g, n).out \subseteq g.out /\ Rooted(DropOut(g, n))
        /\ \A a \in DropOut(g, n).out : a.from # n
    BY DEF DropOut, Rooted, Agreeing
  <1> DEFINE d == DropOut(g, n)
  <1>2. d \in Agreeing
    BY DropOutAgrees
  <1> HIDE DEF d
  <1>3. ASSUME Rooted(d)
        PROVE  DropIn(d, n).out \subseteq d.out /\ Rooted(DropIn(d, n))
    <2>1. \A a \in d.out : a.to = n => a \in Between(d.in, a.from, n)
      BY <1>2 DEF Agreeing, Between
    <2> QED
      BY <1>2, <1>3, <2>1 DEF DropIn, Rooted, Agreeing
  <1> QED
    BY <1>1, <1>3 DEF RemoveVertex, d

\* add_edge makes an id that no edge has, and only a GraphEdge that is in no
\* graph is pointed to it.
LEMMA AddLive ==
  ASSUME LiveInv, NEW f \in GraphNodes, NEW t \in GraphNodes, NEW e \in Edges \cup {NoEdge},
         add_edge(f, t, e)
  PROVE  LiveInv'
  <1> PICK k \in Nat : Made = 1 .. k
    BY DEF LiveInv
  <1>1. Cardinality(Made) + 1 = k + 1
    <2>1. 1 \in Int /\ k \in Int
      OBVIOUS
    <2>2. Cardinality(1 .. k) = IF 1 > k THEN 0 ELSE k - 1 + 1
      BY <2>1, FS_Interval
    <2>3. Cardinality(1 .. k) = k
      BY <2>2
    <2> QED
      BY <2>3
  <1> DEFINE i == k + 1
  <1>2. /\ i \in Ids /\ edge_of' = [edge_of EXCEPT ![i] = e]
        /\ ends' = [ends EXCEPT ![i] = <<f, t>>] /\ id_of' = Attached(e, i)
        /\ graph' = AddEdge(graph, f, t, i) /\ deleted' = deleted
        /\ e = NoEdge \/ ~InGraph(e)
    BY <1>1 DEF add_edge
  <1>3. AgreeInv'
    BY AddStep DEF LiveInv
  <1>4. i \notin Made /\ ends \in [Ids -> {<<>>} \cup (GraphNodes \X GraphNodes)]
    BY DEF LiveInv, AgreeInv, EndsInv
  <1>5. Made' = Made \cup {i} /\ Made' = 1 .. i
    <2>1. ends'[i] # <<>> /\ \A j \in Ids : j # i => ends'[j] = ends[j]
      BY <1>2, <1>4
    <2>2. Made' = Made \cup {i}
      BY <1>2, <2>1 DEF Made
    <2> QED
      BY <2>2
  <1> HIDE DEF i
  <1>6. graph'.out \subseteq graph.out \cup {Arc(f, t, i)} /\ Rooted(graph')
    <2>1. graph.out = graph.in /\ Rooted(graph)
      BY DEF LiveInv, AgreeInv, Agreeing
    <2>2. Arc(f, t, i).from = f /\ Arc(f, t, i).to = t
      BY DEF Arc
    <2> QED
      BY <1>2, <2>1, <2>2 DEF AddEdge, Emplace, Rooted
  <1>7. ASSUME NEW a \in graph.out
        PROVE  /\ a.id \in Made' /\ ends'[a.id] = <<a.from, a.to>> /\ a.id \notin deleted'
               /\ edge_of'[a.id] # NoEdge => id_of'[edge_of'[a.id]] = a.id
    <2>1. /\ a.id \in Made /\ ends[a.id] = <<a.from, a.to>> /\ a.id \notin deleted
          /\ edge_of[a.id] # NoEdge => id_of[edge_of[a.id]] = a.id
      BY DEF LiveInv
    <2>2. a.id # i /\ a.id \in Ids
      BY <1>4, <2>1 DEF Made
    <2>3. edge_of'[a.id] = edge_of[a.id] /\ ends'[a.id] = ends[a.id]
      BY <1>2, <1>4, <2>2 DEF LiveInv
    <2>4. edge_of[a.id] # e \/ e = NoEdge
      BY <1>2 DEF InGraph
    <2>5. edge_of[a.id] # NoEdge => id_of'[edge_of[a.id]] = id_of[edge_of[a.id]]
      BY <1>2, <2>2, <2>4 DEF Attached, LiveInv, AgreeInv, EndsInv
    <2> QED
      BY <1>2, <1>5, <2>1, <2>3, <2>5
  <1>8. /\ i \in Made' /\ ends'[i] = <<f, t>> /\ i \notin deleted'
        /\ edge_of'[i] # NoEdge => id_of'[edge_of'[i]] = i
    <2>1. edge_of'[i] = e /\ ends'[i] = <<f, t>>
      BY <1>2, <1>4 DEF LiveInv
    <2>2. e # NoEdge => id_of'[e] = i
      BY <1>2 DEF Attached, LiveInv, AgreeInv, EndsInv
    <2> QED
      BY <1>2, <1>4, <1>5, <2>1, <2>2 DEF LiveInv
  <1>9. edge_of' \in [Ids -> Edges \cup {NoEdge}] /\ deleted' \subseteq Made'
    BY <1>2, <1>5 DEF LiveInv
  <1>10. i \in Nat
    BY DEF i
  <1> QED
    BY <1>3, <1>5, <1>6, <1>7, <1>8, <1>9, <1>10 DEF LiveInv, Arc

\* remove_edge deletes the GraphEdgeIDs of the edges it takes.
LEMMA RemoveLive ==
  ASSUME LiveInv, AgreeInv', NEW f \in GraphNodes, NEW t \in GraphNodes, remove_edge(f, t)
  PROVE  LiveInv'
  <1>1. graph \in Agreeing /\ Rooted(graph)
    BY DEF LiveInv, AgreeInv
  <1>2. Between(graph.out, f, t) \in SUBSET graph.out
    BY DEF Between
  <1> QED
    BY <1>1, <1>2, RemoveEdgeLess, TakenAway DEF remove_edge

\* Every step keeps the GraphEdgeIDs of the edges alive.
LEMMA StepLive == LiveInv /\ [Next]_vars => LiveInv'
  <1> SUFFICES ASSUME LiveInv, [Next]_vars
               PROVE  LiveInv'
    OBVIOUS
  <1>1. AgreeInv' /\ graph \in Agreeing /\ Rooted(graph)
    BY StepAgrees DEF LiveInv, AgreeInv
  <1>2. ASSUME NEW f \in GraphNodes, NEW t \in GraphNodes, remove_edge(f, t)
        PROVE  LiveInv'
    BY <1>1, <1>2, RemoveLive
  <1>3. ASSUME NEW f \in GraphNodes, NEW t \in GraphNodes, NEW e \in Edges \cup {NoEdge},
               add_edge(f, t, e)
        PROVE  LiveInv'
    BY <1>3, AddLive
  <1>4. ASSUME NEW e \in Edges, remove_edge_of(e)
        PROVE  LiveInv'
    <2>1. ends[id_of[e]] \in GraphNodes \X GraphNodes
      BY <1>4 DEF remove_edge_of, LiveInv, AgreeInv, EndsInv
    <2>2. ends[id_of[e]][1] \in GraphNodes /\ ends[id_of[e]][2] \in GraphNodes
      BY <2>1
    <2> QED
      BY <1>2, <1>4, <2>2 DEF remove_edge_of
  <1>5. ASSUME NEW n \in GraphNodes, remove_vertex(n)
        PROVE  LiveInv'
    <2>1. graph'.out \subseteq graph.out /\ Rooted(graph')
      BY <1>1, <1>5, RemoveVertexLess DEF remove_vertex
    <2>2. CASE n \in graph.froms
      <3> DEFINE own == {b \in graph.out : b.from = n}
      <3>1. own \in SUBSET graph.out /\ own \cap graph'.out = {}
        BY <1>1, <1>5, <2>2, RemoveVertexLess DEF remove_vertex
      <3>2. deleted' = deleted \cup {a.id : a \in own} /\ UNCHANGED <<edge_of, id_of, ends>>
        BY <1>5, <2>2 DEF remove_vertex, Arcs
      <3> HIDE DEF own
      <3> QED
        BY <1>1, <2>1, <3>1, <3>2, TakenAway
    <2>3. CASE n \notin graph.froms
      <3>1. graph' = graph /\ deleted' = deleted \cup {a.id : a \in {}}
        BY <1>5, <2>3 DEF remove_vertex, RemoveVertex
      <3> QED
        BY <1>1, <1>5, <2>1, <3>1, TakenAway DEF remove_vertex
    <2> QED
      BY <2>2, <2>3
  <1>6. CASE clear
    <2>1. graph'.out = {} /\ Rooted(graph')
      BY <1>6 DEF clear, NoGraph, Rooted
    <2> QED
      BY <1>1, <1>6, <2>1, TakenAway DEF clear
  <1>7. CASE UNCHANGED vars
    <2>1. AgreeInv' /\ Made' = Made
      BY <1>1, <1>7 DEF vars, Made
    <2> QED
      BY <1>7, <2>1 DEF vars, LiveInv
  <1> QED
    BY <1>2, <1>3, <1>4, <1>5, <1>6, <1>7 DEF Next

\* Whatever is added, removed and cleared, in any order: no traversal follows a
\* deleted GraphEdgeID, and the GraphEdge it yields points back to that id.
THEOREM IdsAreAlive == Spec => []OnlyLiveReached
  <1>1. LiveInv => OnlyLiveReached
    <2> SUFFICES ASSUME LiveInv PROVE OnlyLiveReached
      OBVIOUS
    <2>1. graph.out = graph.in /\ graph.froms \subseteq GraphNodes /\ graph.tos \subseteq GraphNodes
      BY DEF LiveInv, AgreeInv, Agreeing
    <2>2. TypeInv
      BY <2>1 DEF LiveInv, Rooted, TypeInv
    <2> QED
      BY <2>1, <2>2 DEF LiveInv, OnlyLiveReached
  <1> QED
    BY InitLive, StepLive, <1>1, PTL DEF Spec
=============================================================================
